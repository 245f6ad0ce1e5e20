------------------------ MODULE TaskServicePauseProofs ------------------------
(* What TaskServiceProofs leaves out of TaskService, for every set of       *)
(* tasks, threads and human subtasks and every bound: claims and pauses     *)
(* when no client posts a second result for a subtask (Resubmit = FALSE),   *)
(* and, in the second half of the module, that a task which can go on is    *)
(* always in the hands of a thread, the safety half of ReadyTaskRuns and    *)
(* FlowSettles.                                                             *)
EXTENDS TaskServiceProofs

Early == {"waiting_dependencies", "dispatch_decision"}

(* PauseDiscipline of one row.                                              *)
Owed(rec) ==
  rec.status = "running" =>
    /\ rec.node = "human_execution" <=> HasRunningHuman(rec)
    /\ \A i \in DOMAIN rec.rounds : i < Len(rec.rounds) => ~Running(rec.rounds[i])

(* What a thread has claimed was started, and while that execution runs its *)
(* task stands where no result and no other claim can move it.              *)
ClaimOK(th) ==
  LET t == thread[th].task
      e == thread[th].exec
  IN  thread[th].pc = "run" =>
        /\ e \in DOMAIN executions[t] /\ executions[t][e].started
        /\ task[t].status = "running" /\ task[t].active = e => task[t].node \in Early

PInv == /\ IInv
        /\ \A t \in Tasks : Owed(task[t])
        /\ ClaimExclusive
        /\ \A th \in Threads : ClaimOK(th)

LEMMA OwedPrime ==
  ASSUME \A t \in Tasks : Owed(task'[t])
  PROVE  (\A t \in Tasks : Owed(task[t]))'
  BY DEF Owed, HasRunningHuman, Running
-----------------------------------------------------------------------------
(* What the flow returns for a task without open work. *)

Quiet(rec) == \A i \in DOMAIN rec.rounds : ~Running(rec.rounds[i])

LEMMA QuietOwed ==
  ASSUME NEW rec, Quiet(rec), rec.node # "human_execution"
  PROVE  Owed(rec)
  BY DEF Quiet, Owed, HasRunningHuman

LEMMA OwedQuiet ==
  ASSUME NEW rec, Owed(rec), rec.status = "running", rec.node # "human_execution"
  PROVE  Quiet(rec)
  BY DEF Quiet, Owed, HasRunningHuman

LEMMA FinalizeOwed ==
  ASSUME NEW rec \in TaskRecord, NEW candidate, NEW gaps,
         Quiet(rec) \/ candidate \in Failures
  PROVE  Owed(Finalize(rec, candidate, gaps))
  <1>1. "succeeded" \notin Failures /\ "running" \notin Failures
    BY FailuresAssumption
  <1>2. CASE candidate \in Failures
    <2>1. Finalize(rec, candidate, gaps).status = candidate
      BY <1>1, <1>2 DEF Finalize, TaskRecord
    <2>2. QED
      BY <1>1, <1>2, <2>1 DEF Owed
  <1>3. CASE Quiet(rec)
    <2>1. Finalize(rec, candidate, gaps).rounds = rec.rounds
          /\ Finalize(rec, candidate, gaps).node # "human_execution"
      BY DEF Finalize, TaskRecord
    <2>2. Quiet(Finalize(rec, candidate, gaps))
      BY <1>3, <2>1 DEF Quiet
    <2>3. QED
      BY <2>1, <2>2, QuietOwed
  <1>4. QED
    BY <1>2, <1>3

(* The rounds after one more.                                               *)
LEMMA AddRoundRounds ==
  ASSUME NEW rec \in TaskRecord, NEW H
  PROVE  LET rs == AddRound(rec, H).rounds IN
         /\ Len(rs) = Len(rec.rounds) + 1 /\ DOMAIN rs = 1..Len(rec.rounds) + 1
         /\ \A i \in DOMAIN rec.rounds : rs[i] = rec.rounds[i]
         /\ Running(rs[Len(rs)]) <=> H \cap Slots # {}
  <1>1. AddRound(rec, H).rounds = Append(rec.rounds, NewRound(H))
    BY DEF AddRound, TaskRecord
  <1>2. rec.rounds \in Seq(Round) /\ NewRound(H) \in Round
    BY NewRoundType DEF TaskRecord
  <1>3. Running(NewRound(H)) <=> H \cap Slots # {}
    BY DEF Running, NewRound
  <1> HIDE DEF NewRound
  <1>4. QED
    BY <1>1, <1>2, <1>3

LEMMA WorkedQuiet ==
  ASSUME NEW t \in Tasks, NEW rec \in TaskRecord, Quiet(rec), NEW w \in Worked(t, rec)
  PROVE  Quiet(w)
  <1>1. CASE w = rec
    BY <1>1
  <1>2. CASE w = AddRound(rec, {})
    <2>1. Len(rec.rounds) \in Nat /\ DOMAIN rec.rounds = 1..Len(rec.rounds)
      BY DEF TaskRecord
    <2>2. QED
      BY <1>2, <2>1, AddRoundRounds DEF Quiet
  <1>3. QED
    BY <1>1, <1>2 DEF Worked

LEMMA FlowOwed ==
  ASSUME NEW t \in Tasks, NEW rec \in TaskRecord, Quiet(rec), NEW result \in FlowResults(t, rec)
  PROVE  Owed(result)
  <1>1. ~WaitsForHuman(t, rec)
    BY DEF WaitsForHuman, HasRunningHuman, Quiet
  <1>2. CASE result \in Pauses(t, rec)
    <2>1. PICK H \in SUBSET Slots : H # {} /\ result = [AddRound(rec, H) EXCEPT !.node = "human_execution"]
      BY <1>2 DEF Pauses
    <2>2. AddRound(rec, H) \in TaskRecord
      BY AddRoundType
    <2>3. result.rounds = AddRound(rec, H).rounds /\ result.node = "human_execution"
      BY <2>1, <2>2 DEF TaskRecord
    <2>4. Len(rec.rounds) \in Nat /\ DOMAIN rec.rounds = 1..Len(rec.rounds)
      BY DEF TaskRecord
    <2>5. /\ Len(result.rounds) = Len(rec.rounds) + 1
          /\ DOMAIN result.rounds = 1..Len(rec.rounds) + 1
          /\ \A i \in DOMAIN rec.rounds : result.rounds[i] = rec.rounds[i]
          /\ Running(result.rounds[Len(result.rounds)])
      BY <2>1, <2>3, AddRoundRounds
    <2>6. \A i \in DOMAIN result.rounds : i < Len(result.rounds) => ~Running(result.rounds[i])
      BY <2>4, <2>5 DEF Quiet
    <2>7. HasRunningHuman(result)
      BY <2>4, <2>5 DEF HasRunningHuman
    <2>8. QED
      BY <2>3, <2>6, <2>7 DEF Owed
  <1>3. CASE result \in FailedRounds(t, rec)
    <2>1. PICK H : result = Finalize(AddRound(rec, H), "failed", FALSE)
      BY <1>3 DEF FailedRounds
    <2>2. QED
      BY <2>1, AddRoundType, FinalizeOwed, FailuresAssumption
  <1>4. CASE result \in Proposals(t, rec)
    <2>1. PICK w \in Worked(t, rec), gaps \in BOOLEAN : result = Finalize(w, "succeeded", gaps)
      BY <1>4 DEF Proposals
    <2>2. QED
      BY <2>1, WorkedType, WorkedQuiet, FinalizeOwed
  <1>5. CASE result \in DeadEnds(t, rec)
    <2>1. CASE \E f \in Failures : result = Finalize(rec, f, FALSE)
      BY <2>1, FinalizeOwed
    <2>2. CASE \E w \in Worked(t, rec) : result = [w EXCEPT !.node = "human_intervention"]
      <3>1. PICK w \in Worked(t, rec) : result = [w EXCEPT !.node = "human_intervention"]
        BY <2>2
      <3>2. result.rounds = w.rounds /\ result.node = "human_intervention"
        BY <3>1, WorkedType DEF TaskRecord
      <3>3. Quiet(result)
        BY <3>2, WorkedQuiet DEF Quiet
      <3>4. QED
        BY <3>2, <3>3, QuietOwed
    <2>3. QED
      BY <1>5, <2>1, <2>2 DEF DeadEnds
  <1>6. QED
    BY <1>1, <1>2, <1>3, <1>4, <1>5 DEF FlowResults

LEMMA RaisedOwed ==
  ASSUME NEW t \in Tasks, NEW rec \in TaskRecord, Quiet(rec), NEW out \in RaisedResults(t, rec)
  PROVE  Owed(out)
  <1>1. PICK w \in Worked(t, rec), n \in {"dispatch_decision", "subtask_execution", "completion_judge"} :
          out = [w EXCEPT !.node = n]
    BY DEF RaisedResults
  <1>2. out.rounds = w.rounds /\ out.node = n
    BY <1>1, WorkedType DEF TaskRecord
  <1>3. Quiet(out)
    BY <1>2, WorkedQuiet DEF Quiet
  <1>4. QED
    BY <1>1, <1>2, <1>3, QuietOwed
-----------------------------------------------------------------------------
(* A step of a changes one row at most, leaves it owing what it should, and *)
(* does not move a task away from under the claim of another thread.        *)

Undisturbed(a, t) ==
  \/ task'[t].active \notin DOMAIN executions[t]
  \/ task'[t].status # "running"
  \/ task'[t].node \in Early
  \/ /\ task[t].status = "running" /\ task'[t].active = task[t].active
     /\ task[t].node \notin Early
  \/ /\ task'[t].active = task[t].active /\ a \in Threads
     /\ thread[a].pc = "run" /\ thread[a].task = t /\ thread[a].exec = task[t].active

Settles(a) ==
  \/ UNCHANGED task
  \/ \E t \in Tasks : /\ task' = [task EXCEPT ![t] = task'[t]]
                      /\ Owed(task'[t]) /\ Undisturbed(a, t)

(* a has won the claim of an execution.                                     *)
NewClaim(a) ==
  LET t == thread'[a].task
      e == thread'[a].exec
  IN  /\ e \in DOMAIN executions'[t] /\ executions'[t][e].started
      /\ task'[t].status = "running" /\ task'[t].active = e => task'[t].node \in Early
      /\ \A th \in Threads \ {a} :
           ~(thread[th].pc = "run" /\ thread[th].task = t /\ thread[th].exec = e)

StartsNoRun(a) == thread'[a].pc # "run" \/ NewClaim(a)

LEMMA StartedStays ==
  ASSUME IInv, NEW a, Touches(a), NEW t \in Tasks, NEW n \in DOMAIN executions[t],
         executions[t][n].started
  PROVE  n \in DOMAIN executions'[t] /\ executions'[t][n].started
  <1> DEFINE es == executions[t]
             es2 == executions'[t]
  <1>1. RowOK(task[t], es) /\ es \in Seq(Execution)
    BY DEF IInv, RowOK
  <1>2. CASE es2 = es
    BY <1>2
  <1>3. CASE Goes(task[t], es, task'[t], es2)
    <2>1. task'[t] \in TaskRecord /\ task'[t].active = Len(es) /\ es2 = SyncProjection(task'[t], es)
      BY <1>1, <1>3 DEF Goes, Continues, RowOK, HistoryOf
    <2>2. CASE n # Len(es) \/ es[n].finished
      BY <1>1, <2>1, <2>2, SyncFacts
    <2>3. CASE n = Len(es) /\ ~es[n].finished
      BY <1>1, <2>1, <2>3, SyncFacts, ProjectionType
    <2>4. QED
      BY <2>2, <2>3
  <1>4. CASE Opens(task[t], es, task'[t], es2)
    BY <1>1, <1>4, OpensFacts
  <1>5. CASE Starts(task[t], es, task'[t], es2)
    BY <1>1, <1>5, StartsFacts
  <1>6. QED
    BY <1>2, <1>3, <1>4, <1>5, StillOrMoves DEF RowMoves, Creates, Raises

(* The claim of a thread that does not act outlives the step of another.    *)
LEMMA OthersClaim ==
  ASSUME PInv, NEW a, Touches(a), Settles(a), NEW th \in Threads, th # a,
         thread'[th] = thread[th]
  PROVE  ClaimOK(th)'
  <1> DEFINE t == thread[th].task
             e == thread[th].exec
  <1>1. t \in Tasks /\ task \in [Tasks -> TaskRecord] /\ ClaimOK(th) /\ IInv
    BY DEF PInv, IInv, TypeOK, ThreadState
  <1>2. ASSUME thread[th].pc = "run"
        PROVE  e \in DOMAIN executions'[t] /\ executions'[t][e].started
    BY <1>1, <1>2, StartedStays DEF ClaimOK
  <1>3. ASSUME thread[th].pc = "run", task'[t].status = "running", task'[t].active = e
        PROVE  task'[t].node \in Early
    <2>1. CASE task'[t] = task[t]
      BY <1>1, <1>3, <2>1 DEF ClaimOK
    <2>2. CASE Undisturbed(a, t)
      <3>1. e \in DOMAIN executions[t]
        BY <1>1, <1>3 DEF ClaimOK
      <3>2. ~(a \in Threads /\ thread[a].pc = "run" /\ thread[a].task = t /\ thread[a].exec = e)
        BY <1>3 DEF PInv, ClaimExclusive
      <3>3. task[t].status = "running" /\ task[t].active = e => task[t].node \in Early
        BY <1>1, <1>3 DEF ClaimOK
      <3>4. QED
        BY <1>3, <2>2, <3>1, <3>2, <3>3 DEF Undisturbed
    <2>3. QED
      BY <1>1, <2>1, <2>2 DEF Settles
  <1>4. QED
    BY <1>2, <1>3 DEF ClaimOK

LEMMA SettlesOwed ==
  ASSUME PInv, NEW a, Settles(a)
  PROVE  (\A t \in Tasks : Owed(task[t]))'
  <1>1. task \in [Tasks -> TaskRecord] /\ \A t \in Tasks : Owed(task[t])
    BY DEF PInv, IInv, TypeOK
  <1>2. \A t \in Tasks : Owed(task'[t])
    BY <1>1 DEF Settles
  <1>3. QED
    BY <1>2, OwedPrime

LEMMA MovesPInv ==
  ASSUME PInv, NEW a \in Threads, Touches(a), Moves(a), Settles(a), StartsNoRun(a)
  PROVE  PInv'
  <1>1. thread \in [Threads -> ThreadState] /\ IInv
    BY DEF PInv, IInv, TypeOK
  <1>2. PICK s \in ThreadState : thread' = [thread EXCEPT ![a] = s]
    BY DEF Moves
  <1>3. \A th \in Threads \ {a} : thread'[th] = thread[th]
    BY <1>1, <1>2
  <1>4. IInv'
    BY <1>1, MovesHold
  <1>5. ASSUME NEW th \in Threads PROVE ClaimOK(th)'
    <2>1. CASE th = a
      BY <2>1 DEF StartsNoRun, NewClaim, ClaimOK
    <2>2. CASE th # a
      BY <1>3, <2>2, OthersClaim
    <2>3. QED
      BY <2>1, <2>2
  <1>6. ClaimExclusive'
    <2> SUFFICES ASSUME NEW p \in Threads, NEW q \in Threads, p # q,
                        thread'[p].pc = "run", thread'[q].pc = "run",
                        thread'[p].task = thread'[q].task, thread'[p].exec = thread'[q].exec
                 PROVE  FALSE
      BY DEF ClaimExclusive
    <2>1. CASE p # a /\ q # a
      <3>1. thread'[p] = thread[p] /\ thread'[q] = thread[q]
        BY <1>3, <2>1
      <3>2. QED
        BY <3>1 DEF PInv, ClaimExclusive
    <2>2. CASE p = a
      <3>1. thread'[q] = thread[q]
        BY <1>3, <2>2
      <3>2. QED
        BY <2>2, <3>1 DEF StartsNoRun, NewClaim
    <2>3. CASE q = a
      <3>1. thread'[p] = thread[p]
        BY <1>3, <2>3
      <3>2. QED
        BY <2>3, <3>1 DEF StartsNoRun, NewClaim
    <2>4. QED
      BY <2>1, <2>2, <2>3
  <1>7. QED
    BY <1>4, <1>5, <1>6, SettlesOwed DEF PInv

LEMMA NobodyPInv ==
  ASSUME PInv, Touches(NoThread), UNCHANGED <<lock, thread>>, Settles(NoThread)
  PROVE  PInv'
  <1>1. IInv'
    BY NobodyHold DEF PInv
  <1>2. ASSUME NEW th \in Threads PROVE ClaimOK(th)'
    <2>1. th # NoThread
      BY NoThreadAssumption
    <2>2. QED
      BY <2>1, OthersClaim
  <1>3. ClaimExclusive'
    BY DEF PInv, ClaimExclusive
  <1>4. QED
    BY <1>1, <1>2, <1>3, SettlesOwed DEF PInv
-----------------------------------------------------------------------------
(* Every handler is such a step. *)

LEMMA PInvRow ==
  ASSUME PInv, NEW t \in Tasks
  PROVE  IInv /\ task[t] \in TaskRecord /\ Owed(task[t]) /\ RowOK(task[t], executions[t])
  BY DEF PInv, IInv, TypeOK

LEMMA RestsNoRun ==
  ASSUME PInv, NEW th \in Threads, NEW s, s.pc # "run", GoesTo(th, s)
  PROVE  StartsNoRun(th)
  BY DEF PInv, IInv, TypeOK, GoesTo, StartsNoRun

(* A running row is saved that nobody has claimed, or that ends.            *)
LEMMA SaveSettles ==
  ASSUME PInv, NEW a, NEW t \in Tasks, NEW rec, NEW es, Save(t, rec, es), Owed(rec),
         Undisturbed(a, t)
  PROVE  Settles(a)
  <1>1. task'[t] = rec /\ task' = [task EXCEPT ![t] = task'[t]]
    BY PInvRow, SaveRow
  <1>2. QED
    BY <1>1 DEF Settles

LEMMA CreateSettles ==
  ASSUME PInv, NEW t \in Tasks, CreateRequest(t)
  PROVE  Settles(NoThread)
  <1>1. task[t] \in TaskRecord /\ RowOK(task[t], executions[t]) /\ task[t].status = "absent"
        /\ task \in [Tasks -> TaskRecord]
    BY PInvRow DEF CreateRequest, PInv, IInv, TypeOK
  <1>2. task[t].node = "human_confirmation" /\ task[t].rounds = <<>> /\ executions[t] = <<>>
    BY <1>1 DEF RowOK, DraftOf, HistoryOf, UnstartedOf, HasStarted
  <1>3. task' = [task EXCEPT ![t] = task'[t]] /\ task'[t] = [task[t] EXCEPT !.status = "running"]
    BY <1>1 DEF CreateRequest
  <1>4. task'[t].node = "human_confirmation" /\ task'[t].rounds = <<>>
        /\ task'[t].active \notin DOMAIN executions[t]
    BY <1>1, <1>2, <1>3 DEF TaskRecord
  <1>5. Owed(task'[t])
    BY <1>4, QuietOwed DEF Quiet
  <1>6. QED
    BY <1>3, <1>4, <1>5 DEF Settles, Undisturbed

LEMMA CancelSettles ==
  ASSUME PInv, NEW t \in Tasks, CancelUnconfirmed(t)
  PROVE  Settles(NoThread)
  <1> DEFINE rec == Finalize(task[t], "cancelled", FALSE)
  <1>1. task[t] \in TaskRecord /\ Save(t, rec, executions[t])
    BY PInvRow DEF CancelUnconfirmed
  <1>2. rec.status = "cancelled"
    BY <1>1 DEF Finalize, TaskRecord
  <1>3. task'[t] = rec
    BY <1>1, PInvRow, SaveRow
  <1>4. Owed(rec) /\ Undisturbed(NoThread, t)
    BY <1>2, <1>3 DEF Owed, Undisturbed
  <1>5. QED
    BY <1>1, <1>4, SaveSettles

LEMMA BeginSettles ==
  ASSUME PInv, NEW th \in Threads, NEW t \in Tasks, ConfirmBegin(th, t) \/ RerunBegin(th, t)
  PROVE  Settles(th) /\ StartsNoRun(th)
  <1> DEFINE confirm == [Idle EXCEPT !.pc = "confirm", !.task = t, !.sat = DependenciesSatisfied(t)]
             rerun == [Idle EXCEPT !.pc = "rerun", !.task = t, !.sat = DependenciesSatisfied(t)]
  <1>1. confirm.pc # "run" /\ rerun.pc # "run"
    BY DEF Idle
  <1>2. UNCHANGED task /\ (GoesTo(th, confirm) \/ GoesTo(th, rerun))
    BY DEF ConfirmBegin, RerunBegin
  <1> HIDE DEF confirm, rerun
  <1>3. QED
    BY <1>1, <1>2, RestsNoRun DEF Settles

(* A fresh attempt stands at the start and has no rounds.                   *)
LEMMA FreshSettles ==
  ASSUME PInv, NEW a, NEW t \in Tasks, NEW rec, NEW es, Save(t, rec, es),
         rec.rounds = <<>>, rec.node \in Early
  PROVE  Settles(a)
  <1>1. task'[t] = rec
    BY PInvRow, SaveRow
  <1>2. Owed(rec)
    BY QuietOwed DEF Quiet, Early
  <1>3. QED
    BY <1>1, <1>2, SaveSettles DEF Undisturbed

LEMMA ConfirmEndSettles ==
  ASSUME PInv, NEW th \in Threads, NEW mode, ConfirmEnd(th, mode)
  PROVE  Settles(th) /\ StartsNoRun(th)
  <1> DEFINE s == thread[th]
             t == s.task
             rec == [task[t] EXCEPT
                       !.contract = TRUE, !.active = 1,
                       !.node = IF s.sat THEN "dispatch_decision" ELSE "waiting_dependencies"]
             next == IF mode = "sync" THEN Doing("claim", t, 0, {})
                     ELSE IF s.sat THEN Doing("claim", t, 1, {}) ELSE Idle
  <1>1. s \in ThreadState /\ t \in Tasks /\ s.pc = "confirm" /\ HolderOK(th)
        /\ Save(t, rec, Append(executions[t], NewExecution(rec, NoKey, 0)))
        /\ GoesTo(th, next)
    BY DEF PInv, IInv, TypeOK, ConfirmEnd, ThreadState
  <1>2. task[t].node = "human_confirmation" /\ task[t].status = "running" /\ IInv
    BY <1>1 DEF HolderOK, PInv
  <1>3. task[t] \in TaskRecord /\ task[t].rounds = <<>>
    BY <1>1, <1>2, RunningRow DEF HasStarted
  <1>4. rec.rounds = <<>> /\ rec.node \in Early
    BY <1>3 DEF TaskRecord, Early
  <1>5. next.pc # "run"
    BY DEF Doing, Idle
  <1> HIDE DEF rec, next
  <1>6. QED
    BY <1>1, <1>4, <1>5, FreshSettles, RestsNoRun

LEMMA RerunEndSettles ==
  ASSUME PInv, NEW th \in Threads, NEW k, NEW source, RerunEnd(th, k, source)
  PROVE  Settles(th) /\ StartsNoRun(th)
  <1> DEFINE s == thread[th]
             t == s.task
             es == executions[t]
             rec == [task[t] EXCEPT
                       !.status = "running", !.active = Len(es) + 1,
                       !.node = IF s.sat THEN "dispatch_decision" ELSE "waiting_dependencies",
                       !.rounds = <<>>, !.awaiting = FALSE, !.depctx = FALSE]
             next == IF s.sat THEN Doing("claim", t, Len(es) + 1, {}) ELSE Idle
  <1>1. t \in Tasks
    BY DEF PInv, IInv, TypeOK, ThreadState
  <1>2. task[t] \in TaskRecord
    BY <1>1, PInvRow
  <1>3. rec.rounds = <<>> /\ rec.node \in Early
    BY <1>2 DEF TaskRecord, Early
  <1>4. next.pc # "run" /\ Idle.pc # "run"
    BY DEF Doing, Idle
  <1>5. CASE Save(t, rec, Append(es, NewExecution(rec, k, source))) /\ GoesTo(th, next)
    <2> HIDE DEF rec, next
    <2>1. QED
      BY <1>1, <1>3, <1>4, <1>5, FreshSettles, RestsNoRun
  <1>6. CASE UNCHANGED task /\ GoesTo(th, Idle)
    BY <1>4, <1>6, RestsNoRun DEF Settles
  <1>7. QED
    BY <1>5, <1>6 DEF RerunEnd

LEMMA ClaimBeginSettles ==
  ASSUME PInv, NEW th \in Threads, ClaimBegin(th)
  PROVE  Settles(th) /\ StartsNoRun(th)
  <1> DEFINE s == thread[th]
             d == [s EXCEPT !.pc = "claiming"]
  <1>1. UNCHANGED task /\ (GoesTo(th, Return(s)) \/ GoesTo(th, d))
    BY DEF ClaimBegin
  <1>2. Return(s).pc # "run" /\ d.pc # "run"
    BY DEF Return, Idle, PInv, IInv, TypeOK, ThreadState
  <1> HIDE DEF d
  <1>3. QED
    BY <1>1, <1>2, RestsNoRun DEF Settles

LEMMA ClaimEndSettles ==
  ASSUME PInv, NEW th \in Threads, ClaimEnd(th)
  PROVE  Settles(th) /\ StartsNoRun(th)
  <1> DEFINE s == thread[th]
             t == s.task
             rec == task[t]
             es == executions[t]
             later == [rec EXCEPT !.node = "dispatch_decision"]
             run == Doing("run", t, rec.active, s.ready)
  <1>1. s \in ThreadState /\ t \in Tasks /\ IInv /\ s.ready \in SUBSET (Tasks \X Nat)
        /\ thread \in [Threads -> ThreadState] /\ executions \in [Tasks -> Seq(Execution)]
    BY DEF PInv, IInv, TypeOK, ThreadState
  <1>2. rec \in TaskRecord /\ Owed(rec) /\ RowOK(rec, es)
    BY <1>1, PInvRow
  <1>3. CASE GoesTo(th, Return(s)) /\ UNCHANGED task
    <2>1. Return(s).pc # "run"
      BY DEF Return, Idle
    <2>2. QED
      BY <1>3, <2>1, RestsNoRun DEF Settles
  <1>4. /\ rec.status = "running" /\ rec.active = Len(es) /\ rec.active \in DOMAIN es
        /\ run.pc = "run" /\ run.task = t /\ run.exec = rec.active
        /\ HasStarted(es) <=> es[rec.active].started
        /\ ~HasStarted(es) => rec.node \in Early
    <2>1. rec.status = "running" /\ rec.active # 0
      BY <1>1 DEF ClaimEnd, HolderOK, IInv
    <2>2. rec.active = Len(es) /\ rec.active \in Nat /\ es # <<>> /\ es \in Seq(Execution) /\ rec.contract
      BY <1>1, <2>1, RunningRow
    <2>3. run.pc = "run" /\ run.task = t /\ run.exec = rec.active
      BY DEF Doing, Idle
    <2>4. ~HasStarted(es) => rec.node \in Early
      BY <1>1, <2>1, <2>2, RunningRow DEF Early
    <2>5. QED
      BY <2>1, <2>2, <2>3, <2>4 DEF HasStarted
  <1>5. Touches(th)
    BY <1>1, ClaimEndMoves
  <1> HIDE DEF run, later
  <1>6. CASE ~es[rec.active].started /\ Save(t, rec, MarkStarted(rec, es)) /\ GoesTo(th, run)
    <2>1. task'[t] = rec /\ executions'[t] = SyncProjection(rec, MarkStarted(rec, es))
      BY <1>1, <1>6, SaveRow
    <2>2. rec.status = "running" /\ rec.active = Len(es) /\ rec.active \in DOMAIN es /\ rec.node \in Early
      BY <1>4, <1>6
    <2>3. Starts(rec, es, task'[t], executions'[t])
      BY <2>1, <2>2 DEF Starts
    <2>4. executions'[t][rec.active].started /\ rec.active \in DOMAIN executions'[t]
      BY <1>2, <2>2, <2>3, StartsFacts
    <2>5. thread'[th] = run
      BY <1>1, <1>6 DEF GoesTo
    <2>6. ASSUME NEW q \in Threads, thread[q].pc = "run", thread[q].task = t, thread[q].exec = rec.active
          PROVE  FALSE
      <3>1. ClaimOK(q)
        BY DEF PInv
      <3>2. QED
        BY <1>6, <2>6, <3>1 DEF ClaimOK
    <2>7. NewClaim(th)
      BY <1>4, <1>6, <2>1, <2>2, <2>4, <2>5, <2>6 DEF NewClaim
    <2>8. Settles(th)
      BY <1>1, <1>2, <1>6, <2>1, <2>2, SaveSettles DEF Undisturbed
    <2>9. QED
      BY <2>7, <2>8 DEF StartsNoRun
  <1>7. CASE es[rec.active].started /\ ResumesAfterHumanRound(rec)
             /\ Save(t, later, es) /\ GoesTo(th, run)
    <2>1. task'[t] = later
      BY <1>1, <1>7, SaveRow
    <2>2. rec.status = "running" /\ rec.active \in DOMAIN es /\ rec.node = "context_update"
      BY <1>4, <1>7 DEF ResumesAfterHumanRound
    <2>3. later.node = "dispatch_decision" /\ later.rounds = rec.rounds /\ later.active = rec.active
      BY <1>2 DEF later, TaskRecord
    <2>4. Owed(later)
      <3>1. Quiet(rec)
        BY <1>2, <2>2, OwedQuiet
      <3>2. QED
        BY <2>3, <3>1, QuietOwed DEF Quiet
    <2>5. executions'[t][rec.active].started /\ rec.active \in DOMAIN executions'[t]
      BY <1>1, <1>5, <1>7, <2>2, StartedStays
    <2>6. thread'[th] = run
      BY <1>1, <1>7 DEF GoesTo
    <2>7. ASSUME NEW q \in Threads, thread[q].pc = "run", thread[q].task = t, thread[q].exec = rec.active
          PROVE  FALSE
      <3>1. ClaimOK(q)
        BY DEF PInv
      <3>2. QED
        BY <2>2, <2>7, <3>1 DEF ClaimOK, Early
    <2>8. NewClaim(th)
      BY <1>4, <1>7, <2>1, <2>3, <2>5, <2>6, <2>7 DEF NewClaim, Early
    <2>9. Settles(th)
      BY <1>1, <1>7, <2>1, <2>3, <2>4, SaveSettles DEF Undisturbed, Early
    <2>10. QED
      BY <2>8, <2>9 DEF StartsNoRun
  <1>8. QED
    BY <1>3, <1>6, <1>7 DEF ClaimEnd, later, run

LEMMA RunSettles ==
  ASSUME PInv, NEW th \in Threads, RunClaimed(th)
  PROVE  Settles(th) /\ StartsNoRun(th)
  <1> DEFINE s == thread[th]
             t == s.task
             rec == task[t]
  <1>1. t \in Tasks /\ IInv /\ s.pc = "run" /\ s.exec # 0
    BY DEF PInv, IInv, TypeOK, ThreadState, RunClaimed, HolderOK
  <1>2. rec \in TaskRecord
    BY <1>1, PInvRow
  <1>3. Return(s).pc # "run" /\ StartResume(s).pc # "run"
    BY DEF Return, StartResume, Idle
  <1>4. CASE UNCHANGED task /\ GoesTo(th, Return(s))
    BY <1>3, <1>4, RestsNoRun DEF Settles
  <1>5. CASE /\ Runnable(t, s.exec)
             /\ \E result \in FlowResults(t, rec) \cup {Finalize(rec, "failed", FALSE)} :
                  Save(t, result, executions[t])
             /\ GoesTo(th, StartResume(s))
    <2>1. PICK result \in FlowResults(t, rec) \cup {Finalize(rec, "failed", FALSE)} :
            Save(t, result, executions[t])
      BY <1>5
    <2>2. rec.status = "running" /\ s.exec = rec.active
      BY <1>1, <1>5 DEF Runnable
    <2>3. Quiet(rec) /\ rec.node # "human_confirmation"
      <3>1. ClaimOK(th) /\ Owed(rec)
        BY <1>1, PInvRow DEF PInv
      <3>2. rec.node \in Early
        BY <1>1, <2>2, <3>1 DEF ClaimOK
      <3>3. QED
        BY <2>2, <3>1, <3>2, OwedQuiet DEF Early
    <2>4. CASE result \in FlowResults(t, rec)
      <3>1. Owed(result)
        BY <1>1, <1>2, <2>3, <2>4, FlowOwed
      <3>2. result.active = rec.active
        BY <1>1, <1>2, <2>3, <2>4, FlowType DEF SameTask
      <3>3. QED
        BY <1>1, <1>3, <1>5, <2>1, <2>2, <3>1, <3>2, SaveRow, SaveSettles, RestsNoRun DEF Undisturbed
    <2>5. CASE result = Finalize(rec, "failed", FALSE)
      <3>1. Owed(result)
        BY <1>2, <2>3, <2>5, FinalizeOwed
      <3>2. result.active = rec.active
        BY <1>2, <2>5 DEF Finalize, TaskRecord
      <3>3. QED
        BY <1>1, <1>3, <1>5, <2>1, <2>2, <3>1, <3>2, SaveRow, SaveSettles, RestsNoRun DEF Undisturbed
    <2>6. QED
      BY <2>1, <2>4, <2>5
  <1>6. QED
    BY <1>4, <1>5 DEF RunClaimed

LEMMA ResumeSettles ==
  ASSUME PInv, NEW th \in Threads, ResumeNext(th) \/ (\E t \in Tasks : ResumeScan(th, t))
  PROVE  Settles(th) /\ StartsNoRun(th)
  <1> DEFINE s == thread[th]
  <1>1. s \in ThreadState /\ s.pc = "resume"
    BY DEF PInv, IInv, TypeOK, ResumeNext, ResumeScan
  <1>2. CASE ResumeNext(th)
    <2>1. Idle.pc # "run" /\ \A t, e, ready : Doing("claim", t, e, ready).pc # "run"
      BY DEF Doing, Idle
    <2>2. UNCHANGED task
      BY <1>2 DEF ResumeNext
    <2>3. QED
      BY <1>2, <2>1, <2>2, RestsNoRun DEF ResumeNext, Settles
  <1>3. CASE \E t \in Tasks : ResumeScan(th, t)
    <2>1. PICK t \in Tasks : ResumeScan(th, t)
      BY <1>3
    <2> DEFINE scanned == [s EXCEPT !.todo = @ \ {t}]
               released == [s EXCEPT !.pc = "release", !.task = t]
    <2>2. scanned.pc = "resume" /\ released.pc = "release"
      BY <1>1 DEF ThreadState
    <2>3. UNCHANGED task /\ (GoesTo(th, scanned) \/ GoesTo(th, released))
      BY <2>1 DEF ResumeScan
    <2> HIDE DEF scanned, released
    <2>4. QED
      BY <2>2, <2>3, RestsNoRun DEF Settles
  <1>4. QED
    BY <1>2, <1>3

LEMMA ReleaseSettles ==
  ASSUME PInv, NEW th \in Threads, Release(th)
  PROVE  Settles(th) /\ StartsNoRun(th)
  <1> DEFINE s == thread[th]
             t == s.task
             rec == [task[t] EXCEPT !.depctx = TRUE]
             d == [s EXCEPT !.pc = "resume", !.task = AnyTask, !.todo = @ \ {t},
                            !.ready = @ \cup {<<t, task[t].active>>}]
  <1>1. /\ s \in ThreadState /\ t \in Tasks /\ IInv /\ HolderOK(th) /\ s.pc = "release"
        /\ Save(t, rec, executions[t]) /\ GoesTo(th, d)
    BY DEF PInv, IInv, TypeOK, Release, ThreadState
  <1>2. d.pc = "resume"
    BY <1>1 DEF ThreadState
  <1>3. task[t] \in TaskRecord /\ Owed(task[t]) /\ task[t].node = "waiting_dependencies"
    BY <1>1, PInvRow DEF HolderOK
  <1>4. rec.rounds = task[t].rounds /\ rec.node = task[t].node /\ rec.status = task[t].status
    BY <1>3 DEF TaskRecord
  <1>5. Owed(rec)
    BY <1>3, <1>4 DEF Owed, HasRunningHuman
  <1> HIDE DEF rec, d
  <1>6. task'[t] = rec
    BY <1>1, SaveRow
  <1>7. Undisturbed(th, t)
    BY <1>3, <1>4, <1>6 DEF Undisturbed, Early
  <1>8. QED
    BY <1>1, <1>2, <1>5, <1>7, SaveSettles, RestsNoRun

LEMMA SubmitResultSettles ==
  ASSUME PInv, NEW th \in Threads, NEW t \in Tasks, NEW result \in Results,
         NEW complete, SubmitResult(th, t, result, complete)
  PROVE  Settles(th) /\ StartsNoRun(th)
  <1> DEFINE rec == task[t]
  <1>1. thread[th].pc = "idle" /\ rec.status = "running" /\ rec.node = "human_intervention"
    BY DEF SubmitResult
  <1>2. IInv /\ rec \in TaskRecord /\ Owed(rec)
    BY PInvRow
  <1>3. Quiet(rec)
    BY <1>1, <1>2, OwedQuiet
  <1>4. StartResume(Idle).pc # "run"
    BY DEF StartResume, Idle
  <1>5. ASSUME NEW out, Owed(out), out.active = rec.active, task' = [task EXCEPT ![t] = out]
        PROVE  Settles(th)
    <2>1. task'[t] = out
      BY <1>5, <1>2 DEF IInv, TypeOK
    <2>2. QED
      BY <1>1, <1>5, <2>1 DEF Settles, Undisturbed, Early
  <1>6. CASE /\ \E gaps \in BOOLEAN : Save(t, Finalize(rec, result, gaps), executions[t])
             /\ GoesTo(th, StartResume(Idle))
    <2>1. PICK gaps \in BOOLEAN : Save(t, Finalize(rec, result, gaps), executions[t])
      BY <1>6
    <2>2. Owed(Finalize(rec, result, gaps)) /\ Finalize(rec, result, gaps).active = rec.active
      <3>1. Owed(Finalize(rec, result, gaps))
        BY <1>2, <1>3, FinalizeOwed
      <3>2. Finalize(rec, result, gaps).active = rec.active
        BY <1>2 DEF Finalize, TaskRecord
      <3>3. QED
        BY <3>1, <3>2
    <2>3. QED
      BY <1>4, <1>5, <1>6, <2>1, <2>2, RestsNoRun DEF Save
  <1>7. CASE /\ \E out \in FlowResults(t, rec) : Save(t, out, MarkStarted(rec, executions[t]))
             /\ GoesTo(th, StartResume(Idle))
    <2>1. PICK out \in FlowResults(t, rec) : Save(t, out, MarkStarted(rec, executions[t]))
      BY <1>7
    <2>2. SameTask(rec, out)
      BY <1>1, <1>2, FlowType
    <2>3. Owed(out)
      BY <1>2, <1>3, FlowOwed
    <2>4. QED
      BY <1>4, <1>5, <1>7, <2>1, <2>2, <2>3, RestsNoRun DEF Save, SameTask
  <1>8. CASE /\ \E out \in LeftByRaise(t, rec) : task' = [task EXCEPT ![t] = out]
             /\ UNCHANGED thread
    <2>1. PICK out \in {rec} \cup RaisedResults(t, rec) : task' = [task EXCEPT ![t] = out]
      BY <1>8 DEF LeftByRaise
    <2>2. Owed(out)
      BY <1>2, <1>3, RaisedOwed
    <2>3. out.active = rec.active
      BY <1>2, WorkedType DEF RaisedResults, TaskRecord
    <2>4. QED
      BY <1>1, <1>5, <1>8, <2>1, <2>2, <2>3 DEF StartsNoRun
  <1>9. QED
    BY <1>6, <1>7, <1>8 DEF SubmitResult

(* A first result reaches the last round only, and what is left open there  *)
(* is what the task goes on to wait for.                                    *)
LEMMA SubtaskResultSettles ==
  ASSUME Resubmit = FALSE, PInv, NEW th \in Threads, NEW t \in Tasks,
         NEW i \in DOMAIN task[t].rounds, NEW h \in Slots, NEW result \in Results, NEW mode,
         SubmitSubtaskResult(th, t, i, h, result, mode)
  PROVE  Settles(th) /\ StartsNoRun(th)
  <1> DEFINE rec == task[t]
             posted == [rec EXCEPT !.rounds[i][h] = result]
             merged == [posted EXCEPT !.node = "context_update"]
             paused == [posted EXCEPT !.node = "human_execution"]
             rs == [rec.rounds EXCEPT ![i][h] = result]
  <1>1. thread[th].pc = "idle" /\ rec.status = "running" /\ rec.rounds[i][h] = "running"
    BY DEF SubmitSubtaskResult
  <1>2. IInv /\ rec \in TaskRecord /\ Owed(rec)
    BY PInvRow
  <1>3. /\ rec.rounds \in Seq(Round) /\ i \in 1..Len(rec.rounds)
        /\ \A j \in DOMAIN rec.rounds : j # i => ~Running(rec.rounds[j])
        /\ rec.node = "human_execution" /\ i = Len(rec.rounds)
    <2>1. rec.rounds \in Seq(Round) /\ i \in 1..Len(rec.rounds)
      BY <1>2 DEF TaskRecord
    <2>2. Running(rec.rounds[i])
      BY <1>1 DEF Running
    <2>3. rec.node = "human_execution" /\ i = Len(rec.rounds)
      BY <1>1, <1>2, <2>1, <2>2 DEF Owed, HasRunningHuman
    <2>4. QED
      BY <1>1, <1>2, <2>1, <2>3 DEF Owed
  <1>4. /\ rs \in Seq(Round) /\ Len(rs) = Len(rec.rounds)
        /\ \A j \in DOMAIN rs : j # i => rs[j] = rec.rounds[j]
    <2>1. rec.rounds[i] \in Round /\ result \in SubtaskStatus
      BY <1>3 DEF Results, SubtaskStatus
    <2>2. [rec.rounds[i] EXCEPT ![h] = result] \in Round
      BY <2>1 DEF Round
    <2>3. QED
      BY <1>3, <2>2
  <1>5. posted = [rec EXCEPT !.rounds = rs]
    OBVIOUS
  <1> HIDE DEF rs, posted
  <1>6. /\ posted \in TaskRecord /\ posted.rounds = rs /\ posted.active = rec.active
        /\ posted.contract = rec.contract /\ posted.status = "running"
    BY <1>1, <1>2, <1>4, <1>5 DEF TaskRecord
  <1>7. /\ merged \in TaskRecord /\ merged.rounds = rs /\ merged.node = "context_update"
        /\ merged.active = rec.active /\ merged.status = "running"
    BY <1>6 DEF TaskRecord, Node
  <1>8. /\ paused \in TaskRecord /\ paused.rounds = rs /\ paused.node = "human_execution"
        /\ paused.active = rec.active
    BY <1>6 DEF TaskRecord, Node
  <1>9. ~Running(rs[i]) => Quiet(merged)
    BY <1>3, <1>4, <1>7 DEF Quiet
  <1>10. Running(rs[i]) => Owed(paused)
    BY <1>3, <1>4, <1>8 DEF Owed, HasRunningHuman
  <1>11. RoundHasRunningSubtasks(posted, i) <=> Running(rs[i])
    BY <1>6 DEF RoundHasRunningSubtasks
  <1> HIDE DEF merged, paused
  <1>12. StartResume(Idle).pc # "run" /\ Doing("claim", t, 0, {}).pc # "run"
    BY DEF StartResume, Doing, Idle
  <1>13. ASSUME NEW out, Owed(out), out.active = rec.active, task' = [task EXCEPT ![t] = out]
         PROVE  Settles(th)
    <2>1. task'[t] = out
      BY <1>13, <1>2 DEF IInv, TypeOK
    <2>2. QED
      BY <1>1, <1>3, <1>13, <2>1 DEF Settles, Undisturbed, Early
  <1>14. CASE /\ result # "succeeded"
              /\ Save(t, Finalize(merged, result, FALSE), executions[t])
              /\ GoesTo(th, StartResume(Idle))
    <2>1. Owed(Finalize(merged, result, FALSE))
      BY <1>7, <1>14, FinalizeOwed DEF Results
    <2>2. Finalize(merged, result, FALSE).active = rec.active
      BY <1>7 DEF Finalize, TaskRecord
    <2>3. QED
      BY <1>12, <1>13, <1>14, <2>1, <2>2, RestsNoRun DEF Save
  <1>15. CASE RoundHasRunningSubtasks(posted, i) /\ Save(t, paused, executions[t]) /\ UNCHANGED thread
    BY <1>1, <1>8, <1>10, <1>11, <1>13, <1>15 DEF Save, StartsNoRun
  <1>16. CASE /\ ~RoundHasRunningSubtasks(posted, i) /\ Save(t, merged, executions[t])
              /\ GoesTo(th, Doing("claim", t, 0, {}))
    <2>1. Owed(merged)
      BY <1>7, <1>9, <1>11, <1>16, QuietOwed
    <2>2. QED
      BY <1>7, <1>12, <1>13, <1>16, <2>1, RestsNoRun DEF Save
  <1>17. CASE /\ ~RoundHasRunningSubtasks(posted, i)
              /\ \E out \in FlowResults(t, merged) : Save(t, out, MarkStarted(merged, executions[t]))
              /\ GoesTo(th, StartResume(Idle))
    <2>1. PICK out \in FlowResults(t, merged) : Save(t, out, MarkStarted(merged, executions[t]))
      BY <1>17
    <2>2. SameTask(merged, out)
      BY <1>7, FlowType
    <2>3. Owed(out)
      BY <1>7, <1>9, <1>11, <1>17, FlowOwed
    <2>4. QED
      BY <1>7, <1>12, <1>13, <1>17, <2>1, <2>2, <2>3, RestsNoRun DEF Save, SameTask
  <1>18. CASE /\ ~RoundHasRunningSubtasks(posted, i)
              /\ \E out \in LeftByRaise(t, merged) : task' = [task EXCEPT ![t] = out]
              /\ UNCHANGED thread
    <2>1. PICK out \in {rec} \cup RaisedResults(t, merged) : task' = [task EXCEPT ![t] = out]
      BY <1>18 DEF LeftByRaise
    <2>2. Owed(out)
      BY <1>2, <1>7, <1>9, <1>11, <1>18, RaisedOwed
    <2>3. out.active = rec.active
      BY <1>7, WorkedType DEF RaisedResults, TaskRecord
    <2>4. QED
      BY <1>1, <1>13, <1>18, <2>1, <2>2, <2>3 DEF StartsNoRun
  <1>19. QED
    BY <1>14, <1>15, <1>16, <1>17, <1>18 DEF SubmitSubtaskResult, posted, merged, paused
-----------------------------------------------------------------------------
(* The invariant and what follows from it. *)

LEMMA ThreadStepSettles ==
  ASSUME PInv, NEW th \in Threads, ThreadStep(th)
  PROVE  Settles(th) /\ StartsNoRun(th)
  BY ConfirmEndSettles, ClaimBeginSettles, ClaimEndSettles, RunSettles, ResumeSettles,
     ReleaseSettles, RerunEndSettles
     DEF ThreadStep

LEMMA RequestSettles ==
  ASSUME Resubmit = FALSE, PInv, NEW th \in Threads, NEW t \in Tasks, Request(th, t)
  PROVE  Settles(th) /\ StartsNoRun(th)
  BY BeginSettles, SubmitResultSettles, SubtaskResultSettles DEF Request

LEMMA OperationPInv ==
  ASSUME Resubmit = FALSE, PInv, Operation
  PROVE  PInv'
  <1>1. IInv
    BY DEF PInv
  <1>2. CASE \E t \in Tasks : CreateRequest(t) \/ CancelUnconfirmed(t)
    <2>1. PICK t \in Tasks : CreateRequest(t) \/ CancelUnconfirmed(t)
      BY <1>2
    <2>2. Settles(NoThread)
      BY <2>1, CreateSettles, CancelSettles
    <2>3. Touches(NoThread) /\ UNCHANGED <<lock, thread>>
      BY <1>1, <2>1, CreateTouches, CancelTouches
    <2>4. QED
      BY <2>2, <2>3, NobodyPInv
  <1>3. CASE \E th \in Threads, t \in Tasks : Request(th, t)
    BY <1>1, <1>3, RequestMoves, RequestSettles, MovesPInv
  <1>4. CASE \E th \in Threads : ThreadStep(th)
    BY <1>1, <1>4, ThreadStepMoves, ThreadStepSettles, MovesPInv
  <1>5. QED
    BY <1>2, <1>3, <1>4 DEF Operation

LEMMA CrashPInv == ASSUME PInv, Crash PROVE PInv'
  <1>1. IInv'
    BY CrashIInv DEF PInv
  <1>2. ASSUME NEW th \in Threads PROVE thread'[th].pc # "run"
    BY IdleState DEF Crash
  <1>3. ClaimExclusive' /\ \A th \in Threads : ClaimOK(th)'
    BY <1>2 DEF ClaimExclusive, ClaimOK
  <1>4. (\A t \in Tasks : Owed(task[t]))'
    BY OwedPrime DEF PInv, Crash
  <1>5. QED
    BY <1>1, <1>3, <1>4 DEF PInv

LEMMA StutterPInv == ASSUME PInv, UNCHANGED vars PROVE PInv'
  <1>1. Touches(NoThread) /\ UNCHANGED <<lock, thread>> /\ Settles(NoThread)
    BY DEF vars, Touches, Settles
  <1>2. QED
    BY <1>1, NobodyPInv

LEMMA InitPInv == Init => PInv
  <1> SUFFICES ASSUME Init PROVE PInv
    OBVIOUS
  <1>1. \A th \in Threads : thread[th].pc # "run"
    BY IdleState DEF Init
  <1>2. \A t \in Tasks : Owed(task[t])
    BY DEF Init, Absent, Owed
  <1>3. QED
    BY <1>1, <1>2, InitIInv DEF PInv, ClaimExclusive, ClaimOK

(* The claims and the pauses keep each other in order, crashes included.    *)
THEOREM PauseInvariance == ASSUME Resubmit = FALSE PROVE Spec => []PInv
  <1>1. Init => PInv
    BY InitPInv
  <1>2. PInv /\ [Next]_vars => PInv'
    BY OperationPInv, CrashPInv, StutterPInv DEF Next
  <1>3. QED
    BY <1>1, <1>2, PTL DEF Spec

(* A claim of an execution has one holder.                                  *)
THEOREM ClaimsAreExclusive == ASSUME Resubmit = FALSE PROVE Spec => []ClaimExclusive
  <1>1. PInv => ClaimExclusive
    BY DEF PInv
  <1>2. QED
    BY <1>1, PauseInvariance, PTL

(* A running task stands at human_execution exactly while a human result is *)
(* owed, and it is owed in its last round.                                  *)
THEOREM PausesAreOwed == ASSUME Resubmit = FALSE PROVE Spec => []PauseDiscipline
  <1>1. PInv => PauseDiscipline
    BY DEF PInv, Owed, PauseDiscipline
  <1>2. QED
    BY <1>1, PauseInvariance, PTL
-----------------------------------------------------------------------------
(* Nothing that can go on is left alone.  These are the facts the liveness  *)
(* of ReadyTaskRuns and FlowSettles rests on: in every state some thread    *)
(* has the task in its hands.                                               *)

\* The ways a thread may have t in its hands.
Claims(th, t) ==
  /\ thread[th].pc \in {"claim", "claiming"} /\ thread[th].task = t
  /\ thread[th].exec \in {0, task[t].active}
Carries(th, t) == <<t, task[t].active>> \in thread[th].ready
Scans(th, t) == thread[th].pc \in {"resume", "release"} /\ t \in thread[th].todo
Runs(th, t) ==
  thread[th].pc = "run" /\ thread[th].task = t /\ thread[th].exec = task[t].active

Takes(th, t) ==
  \/ Claims(th, t) \/ Carries(th, t)
  \/ task[t].node = "waiting_dependencies" /\ Scans(th, t)

(* A task that could start (Ready, the trigger of ReadyTaskRuns) is about   *)
(* to be claimed by somebody, or to be found by a scan.                     *)
ReadyHeld == \A t \in Tasks : Ready(t) => \E th \in Threads : Takes(th, t)

(* What is dispatched or started stands on prerequisites that succeeded.    *)
StandsOn(t) ==
  /\ task[t].status = "running" /\ executions[t] # <<>>
  /\ HasStarted(executions[t]) \/ task[t].node = "dispatch_decision"
  => DependenciesSatisfied(t)

(* A thread between the two halves of a confirmation, a rerun or a claim:   *)
(* what it saw of the prerequisites is still so, or somebody will look at   *)
(* the task again once its lock is free.                                    *)
Promised(th) ==
  LET t == thread[th].task IN
  /\ thread[th].pc \in {"confirm", "rerun"} =>
       /\ thread[th].ready = {}
       /\ thread[th].sat => DependenciesSatisfied(t)
       /\ ~thread[th].sat /\ DependenciesSatisfied(t) => \E q \in Threads : Scans(q, t)
  /\ thread[th].pc = "claiming" => DependenciesSatisfied(t)

HInv == /\ IInv
        /\ ReadyHeld
        /\ \A t \in Tasks : StandsOn(t)
        /\ \A th \in Threads : Promised(th)
        /\ \A th \in Threads : thread[th].pc = "idle" => thread[th].ready = {}

(* No prerequisite that has succeeded is run again.                         *)
PrerequisitesKept ==
  \A t \in Tasks : \A d \in Deps[t] :
    task[d].status = "succeeded" => task'[d].status = "succeeded"
-----------------------------------------------------------------------------
(* How a row goes on. *)

LEMMA StartableOf ==
  ASSUME NEW rec, NEW es, RowOK(rec, es)
  PROVE  /\ rec.active # 0 <=> es # <<>>
         /\ es # <<>> => es[rec.active].started = HasStarted(es)
  <1>1. es \in Seq(Execution) /\ rec.active = Len(es)
    BY DEF RowOK, HistoryOf
  <1>2. es # <<>> => es[Len(es)].started \in BOOLEAN
    <2>1. ASSUME es # <<>> PROVE es[Len(es)] \in Execution
      BY <1>1, <2>1
    <2>2. QED
      BY <2>1 DEF Execution
  <1>3. QED
    BY <1>1, <1>2 DEF HasStarted

LEMMA RowGoesOn ==
  ASSUME NEW rec, NEW es, NEW rec2, NEW es2, RowOK(rec, es),
         \/ Creates(rec, es, rec2, es2) \/ Goes(rec, es, rec2, es2)
         \/ Raises(rec, es, rec2, es2) \/ Starts(rec, es, rec2, es2),
         rec2.status = "running", es2 # <<>>
  PROVE  /\ rec.status = "running" /\ es # <<>> /\ rec2.active = rec.active
         /\ \/ Creates(rec, es, rec2, es2) \/ Goes(rec, es, rec2, es2)
            \/ Raises(rec, es, rec2, es2)
            => (HasStarted(es2) => HasStarted(es))
         /\ ~HasStarted(es2) => ~HasStarted(es) /\ rec2.node = rec.node
  <1>1. es \in Seq(Execution) /\ rec \in TaskRecord /\ rec.active = Len(es)
    BY DEF RowOK, HistoryOf
  <1>2. CASE Creates(rec, es, rec2, es2)
    <2>1. es = <<>> /\ es2 = es
      BY <1>2 DEF Creates, RowOK, DraftOf, HistoryOf
    <2>2. QED
      BY <2>1
  <1>3. CASE Goes(rec, es, rec2, es2)
    <2>1. rec.status = "running" /\ rec2.active = rec.active /\ rec2 \in TaskRecord
          /\ es2 = SyncProjection(rec2, es)
      BY <1>3 DEF Goes, Continues
    <2>2. Len(es2) = Len(es) /\ es2 \in Seq(Execution)
      BY <1>1, <2>1, SyncFacts
    <2>3. es # <<>>
      BY <1>1, <2>2
    <2>4. ~es[Len(es)].finished /\ es[Len(es)] \in Execution
      BY <1>1, <2>1, <2>3 DEF RowOK, HistoryOf
    <2>5. es2[Len(es)] = Projection(rec2, es[Len(es)])
      BY <1>1, <2>1, <2>3, <2>4, SyncFacts
    <2>6. es2[Len(es)].started = es[Len(es)].started
      BY <2>1, <2>4, <2>5, ProjectionType
    <2>7. HasStarted(es2) <=> HasStarted(es)
      BY <2>2, <2>3, <2>6 DEF HasStarted
    <2>8. QED
      BY <1>3, <2>1, <2>3, <2>7 DEF Goes
  <1>4. CASE Raises(rec, es, rec2, es2)
    BY <1>4 DEF Raises, Continues, HasStarted
  <1>5. CASE Starts(rec, es, rec2, es2)
    <2>1. HasStarted(es2)
      BY <1>5, StartsFacts DEF HasStarted
    <2>2. rec.status = "running" /\ es # <<>> /\ rec2 = rec
      BY <1>5 DEF Starts
    <2>3. QED
      BY <1>2, <1>3, <1>4, <2>1, <2>2
  <1>6. QED
    BY <1>2, <1>3, <1>4, <1>5

-----------------------------------------------------------------------------
(* What a step of a does with what a has in its hands. *)

\* What a claims or carries it keeps, unless the task is started.
KeepsHold(a) ==
  \A t \in Tasks :
    /\ a \in Threads /\ task'[t].active = task[t].active
    /\ Ready(t) /\ Ready(t)'
    /\ Claims(a, t) \/ Carries(a, t)
    => Claims(a, t)' \/ Carries(a, t)'

\* A scan passes over no task that is locked, and takes up what is ready.
LooksAtAll(a) ==
  \A t \in Tasks :
    a \in Threads /\ Scans(a, t) =>
      \/ Scans(a, t)'
      \/ /\ lock[t] = NoThread \/ (lock[t] = a /\ thread[a].pc = "release")
         /\ Ready(t) /\ task[t].node = "waiting_dependencies" => Carries(a, t)'

\* Whoever makes a task succeed scans all tasks next.
Announces(a) ==
  \A d \in Tasks :
    task[d].status # "succeeded" /\ task'[d].status = "succeeded" =>
      a \in Threads /\ thread'[a].pc = "resume" /\ Created \subseteq thread'[a].todo

\* An attempt is opened where the first half of the handler says.
OpensAsSeen(a) ==
  \A t \in Tasks :
    task'[t].active # task[t].active =>
      /\ a \in Threads
      /\ thread[a].pc \in {"confirm", "rerun"} /\ thread[a].task = t
      /\ thread[a].sat => Claims(a, t)'
      /\ ~thread[a].sat => task'[t].node = "waiting_dependencies"

\* The first half looks at the prerequisites; a thread at rest carries nothing.
LooksFirst(a) ==
  a \in Threads =>
    /\ thread'[a].pc \in {"confirm", "rerun"} =>
         /\ UNCHANGED task
         /\ thread'[a].sat <=> DependenciesSatisfied(thread'[a].task)
    /\ thread'[a].pc = "claiming" =>
         UNCHANGED task /\ DependenciesSatisfied(thread'[a].task)
    /\ thread'[a].pc \in {"idle", "confirm", "rerun"} => thread'[a].ready = {}

PassesOn(a) ==
  KeepsHold(a) /\ LooksAtAll(a) /\ Announces(a) /\ OpensAsSeen(a) /\ LooksFirst(a)

LEMMA HeldExists ==
  ASSUME IInv, NEW th \in Threads, thread[th].pc \in {"confirm", "rerun"}
  PROVE  thread[th].task \in Created /\ lock[thread[th].task] = th
  <1>1. thread[th].task \in Tasks /\ HolderOK(th)
    BY DEF IInv, TypeOK, ThreadState
  <1>2. RowOK(task[thread[th].task], executions[thread[th].task])
    BY <1>1 DEF IInv
  <1>3. QED
    BY <1>1, <1>2 DEF HolderOK, Held, RowOK, DraftOf, Created

LEMMA ReadyRow ==
  ASSUME IInv, NEW t \in Tasks
  PROVE  Ready(t) <=> /\ task[t].status = "running" /\ executions[t] # <<>>
                      /\ ~HasStarted(executions[t]) /\ DependenciesSatisfied(t)
  <1>1. RowOK(task[t], executions[t])
    BY DEF IInv
  <1>2. QED
    BY <1>1, StartableOf DEF Ready

LEMMA ReadyRowNext ==
  ASSUME IInv', NEW t \in Tasks
  PROVE  Ready(t)' <=> /\ task'[t].status = "running" /\ executions'[t] # <<>>
                       /\ ~HasStarted(executions'[t]) /\ DependenciesSatisfied(t)'
  <1>1. RowOK(task'[t], executions'[t])
    <2>1. (\A u \in Tasks : RowOK(task[u], executions[u]))'
      BY DEF IInv
    <2>2. QED
      BY <2>1 DEF RowOK, HistoryOf, DraftOf, UnstartedOf, HasStarted, KeysOf, HasBlocking
  <1>2. QED
    BY <1>1, StartableOf DEF Ready

(* A live row that was not opened just now was live before.                 *)
LEMMA LiveBefore ==
  ASSUME IInv, NEW a, Touches(a), NEW t \in Tasks,
         task'[t].status = "running", executions'[t] # <<>>
  PROVE  \/ /\ task'[t].active # task[t].active /\ ~HasStarted(executions'[t])
         \/ /\ task[t].status = "running" /\ executions[t] # <<>>
            /\ task'[t].active = task[t].active
            /\ HasStarted(executions'[t]) => HasStarted(executions[t]) \/ Claiming(t)
            /\ ~HasStarted(executions'[t]) =>
                 ~HasStarted(executions[t]) /\ task'[t].node = task[t].node
  <1>1. RowOK(task[t], executions[t])
    BY DEF IInv
  <1>2. CASE task'[t] = task[t] /\ executions'[t] = executions[t]
    BY <1>2
  <1>3. CASE Opens(task[t], executions[t], task'[t], executions'[t])
    <2>1. task[t].active = Len(executions[t]) /\ executions[t] \in Seq(Execution)
      BY <1>1 DEF RowOK, HistoryOf
    <2>2. task'[t].active = Len(executions[t]) + 1 /\ Len(executions'[t]) = Len(executions[t]) + 1
          /\ ~executions'[t][Len(executions[t]) + 1].started
      BY <1>1, <1>3, OpensFacts
    <2>3. QED
      BY <2>1, <2>2 DEF HasStarted
  <1>4. CASE \/ Creates(task[t], executions[t], task'[t], executions'[t])
             \/ Goes(task[t], executions[t], task'[t], executions'[t])
             \/ Raises(task[t], executions[t], task'[t], executions'[t])
             \/ Starts(task[t], executions[t], task'[t], executions'[t]) /\ Claiming(t)
    <2>1. /\ task[t].status = "running" /\ executions[t] # <<>> /\ task'[t].active = task[t].active
          /\ ~HasStarted(executions'[t]) => ~HasStarted(executions[t]) /\ task'[t].node = task[t].node
      BY <1>1, <1>4, RowGoesOn
    <2>2. CASE Starts(task[t], executions[t], task'[t], executions'[t]) /\ Claiming(t)
      BY <2>1, <2>2
    <2>3. CASE \/ Creates(task[t], executions[t], task'[t], executions'[t])
               \/ Goes(task[t], executions[t], task'[t], executions'[t])
               \/ Raises(task[t], executions[t], task'[t], executions'[t])
      BY <1>1, <2>1, <2>3, RowGoesOn
    <2>4. QED
      BY <1>4, <2>2, <2>3
  <1>5. \/ task'[t] = task[t] /\ executions'[t] = executions[t]
        \/ RowMoves(t)
    BY StillOrMoves
  <1>6. QED
    BY <1>2, <1>3, <1>4, <1>5 DEF RowMoves

LEMMA PassesHeld ==
  ASSUME HInv, NEW a, Touches(a), IInv', PrerequisitesKept, PassesOn(a),
         \A th \in Threads \ {a} : thread'[th] = thread[th]
  PROVE  HInv'
  <1>1. IInv /\ ReadyHeld /\ (\A t \in Tasks : StandsOn(t)) /\ (\A th \in Threads : Promised(th))
        /\ KeepsHold(a) /\ LooksAtAll(a) /\ Announces(a) /\ OpensAsSeen(a) /\ LooksFirst(a)
        /\ Deps \in [Tasks -> SUBSET Tasks]
    BY DepsAssumption DEF HInv, PassesOn
  <1>2. ASSUME NEW t \in Tasks, DependenciesSatisfied(t) PROVE DependenciesSatisfied(t)'
    BY <1>2 DEF DependenciesSatisfied, PrerequisitesKept
  <1>3. ASSUME NEW t \in Created, ~DependenciesSatisfied(t), DependenciesSatisfied(t)'
        PROVE  a \in Threads /\ Scans(a, t)'
    <2>1. t \in Tasks
      BY DEF Created
    <2>2. PICK d \in Deps[t] : task[d].status # "succeeded" /\ task'[d].status = "succeeded"
      BY <1>3 DEF DependenciesSatisfied
    <2>3. d \in Tasks
      BY <1>1, <2>1
    <2>4. QED
      BY <1>1, <2>2, <2>3 DEF Announces, Scans
  <1>4. ASSUME NEW t \in Tasks, NEW q \in Threads, Scans(q, t)
        PROVE  \/ Scans(q, t)' \/ lock[t] = NoThread
               \/ lock[t] = q /\ thread[q].pc = "release"
    <2>1. CASE q = a
      BY <1>1, <1>4, <2>1 DEF LooksAtAll
    <2>2. CASE q # a
      BY <1>4, <2>2 DEF Scans
    <2>3. QED
      BY <2>1, <2>2
  <1>5. ASSUME NEW t \in Tasks, Ready(t)' PROVE \E th \in Threads : Takes(th, t)'
    <2>1. task'[t].status = "running" /\ executions'[t] # <<>> /\ ~HasStarted(executions'[t])
          /\ DependenciesSatisfied(t)'
      BY <1>5, ReadyRowNext
    <2>2. CASE task'[t].active # task[t].active
      <3>1. a \in Threads /\ thread[a].pc \in {"confirm", "rerun"} /\ thread[a].task = t
        BY <1>1, <2>2 DEF OpensAsSeen
      <3>2. t \in Created /\ lock[t] = a /\ a # NoThread /\ Promised(a)
            /\ thread[a].pc # "release"
        BY <1>1, <3>1, HeldExists, NoThreadAssumption
      <3>3. CASE thread[a].sat
        <4>1. Claims(a, t)'
          BY <1>1, <2>2, <3>3 DEF OpensAsSeen
        <4>2. QED
          BY <3>1, <4>1 DEF Takes
      <3>4. CASE ~thread[a].sat
        <4>1. task'[t].node = "waiting_dependencies"
          BY <1>1, <2>2, <3>4 DEF OpensAsSeen
        <4>2. \E q \in Threads : Scans(q, t)'
          <5>1. CASE DependenciesSatisfied(t)
            <6>1. PICK q \in Threads : Scans(q, t)
              BY <3>1, <3>2, <3>4, <5>1 DEF Promised
            <6>2. QED
              BY <1>4, <3>2, <6>1
          <5>2. CASE ~DependenciesSatisfied(t)
            BY <1>3, <2>1, <3>2, <5>2
          <5>3. QED
            BY <5>1, <5>2
        <4>3. QED
          BY <4>1, <4>2 DEF Takes
      <3>5. QED
        BY <3>3, <3>4
    <2>3. CASE task'[t].active = task[t].active
      <3>1. task[t].status = "running" /\ executions[t] # <<>> /\ ~HasStarted(executions[t])
            /\ task'[t].node = task[t].node
        BY <1>1, <2>1, <2>3, LiveBefore
      <3>2. CASE DependenciesSatisfied(t)
        <4>1. Ready(t)
          BY <1>1, <3>1, <3>2, ReadyRow
        <4>2. PICK th \in Threads : Takes(th, t)
          BY <1>1, <4>1 DEF ReadyHeld
        <4>3. CASE th = a
          <5>1. CASE Claims(a, t) \/ Carries(a, t)
            <6>1. Claims(a, t)' \/ Carries(a, t)'
              BY <1>1, <1>5, <2>3, <4>1, <4>3, <5>1 DEF KeepsHold
            <6>2. QED
              BY <4>3, <6>1 DEF Takes
          <5>2. CASE task[t].node = "waiting_dependencies" /\ Scans(a, t)
            <6>1. Scans(a, t)' \/ Carries(a, t)'
              BY <1>1, <4>1, <4>3, <5>2 DEF LooksAtAll
            <6>2. QED
              BY <3>1, <4>3, <5>2, <6>1 DEF Takes
          <5>3. QED
            BY <4>2, <4>3, <5>1, <5>2 DEF Takes
        <4>4. CASE th # a
          <5>1. thread'[th] = thread[th]
            BY <4>4
          <5>2. Takes(th, t)'
            BY <2>3, <3>1, <4>2, <5>1 DEF Takes, Claims, Carries, Scans
          <5>3. QED
            BY <5>2
        <4>5. QED
          BY <4>3, <4>4
      <3>3. CASE ~DependenciesSatisfied(t)
        <4>1. task[t].node = "waiting_dependencies"
          <5>1. RowOK(task[t], executions[t]) /\ StandsOn(t)
            BY <1>1 DEF IInv
          <5>2. QED
            BY <3>1, <3>3, <5>1 DEF RowOK, UnstartedOf, StandsOn
        <4>2. t \in Created
          BY <3>1 DEF Created
        <4>3. a \in Threads /\ Scans(a, t)'
          BY <1>3, <2>1, <3>3, <4>2
        <4>4. QED
          BY <3>1, <4>1, <4>3 DEF Takes
      <3>4. QED
        BY <3>2, <3>3
    <2>4. QED
      BY <2>2, <2>3
  <1>6. ASSUME NEW t \in Tasks PROVE StandsOn(t)'
    <2> SUFFICES ASSUME task'[t].status = "running", executions'[t] # <<>>,
                        HasStarted(executions'[t]) \/ task'[t].node = "dispatch_decision"
                 PROVE  DependenciesSatisfied(t)'
      BY DEF StandsOn, HasStarted
    <2>1. CASE task'[t].active # task[t].active
      <3>1. ~HasStarted(executions'[t])
        BY <1>1, <2>1, LiveBefore
      <3>2. a \in Threads /\ thread[a].pc \in {"confirm", "rerun"} /\ thread[a].task = t
            /\ thread[a].sat
        BY <1>1, <2>1, <3>1 DEF OpensAsSeen
      <3>3. DependenciesSatisfied(t)
        BY <1>1, <3>2 DEF Promised
      <3>4. QED
        BY <1>2, <3>3
    <2>2. CASE task'[t].active = task[t].active
      <3>1. /\ task[t].status = "running" /\ executions[t] # <<>>
            /\ HasStarted(executions'[t]) => HasStarted(executions[t]) \/ Claiming(t)
            /\ ~HasStarted(executions'[t]) => task'[t].node = task[t].node
        BY <1>1, <2>2, LiveBefore
      <3>2. DependenciesSatisfied(t)
        <4>1. Claiming(t) => DependenciesSatisfied(t)
          BY <1>1 DEF Claiming, Promised
        <4>2. QED
          BY <1>1, <3>1, <4>1 DEF StandsOn
      <3>3. QED
        BY <1>2, <3>2
    <2>3. QED
      BY <2>1, <2>2
  <1>7. ASSUME NEW th \in Threads PROVE Promised(th)'
    <2>1. PICK t \in Tasks : t = thread'[th].task
      BY DEF HInv, IInv, TypeOK, ThreadState
    <2>2. ASSUME thread'[th].pc = "claiming" PROVE DependenciesSatisfied(t)'
      <3>1. CASE th = a
        <4>1. UNCHANGED task /\ DependenciesSatisfied(t)
          BY <1>1, <2>1, <2>2, <3>1 DEF LooksFirst
        <4>2. QED
          BY <4>1 DEF DependenciesSatisfied
      <3>2. CASE th # a
        <4>1. thread'[th] = thread[th] /\ Promised(th) /\ thread[th].task = t
          BY <1>1, <2>1, <3>2
        <4>2. QED
          BY <1>2, <2>2, <4>1 DEF Promised
      <3>3. QED
        BY <3>1, <3>2
    <2>3. ASSUME thread'[th].pc \in {"confirm", "rerun"}
          PROVE  /\ thread'[th].ready = {}
                 /\ thread'[th].sat => DependenciesSatisfied(t)'
                 /\ ~thread'[th].sat /\ DependenciesSatisfied(t)'
                      => \E q \in Threads : Scans(q, t)'
      <3>1. CASE th = a
        <4>1. UNCHANGED task /\ (thread'[a].sat <=> DependenciesSatisfied(t))
              /\ thread'[a].ready = {}
          BY <1>1, <2>1, <2>3, <3>1 DEF LooksFirst
        <4>2. DependenciesSatisfied(t)' <=> DependenciesSatisfied(t)
          BY <4>1 DEF DependenciesSatisfied
        <4>3. QED
          BY <3>1, <4>1, <4>2
      <3>2. CASE th # a
        <4>1. thread'[th] = thread[th] /\ Promised(th) /\ thread[th].task = t
          BY <1>1, <2>1, <3>2
        <4>2. t \in Created /\ lock[t] = th /\ th # NoThread
          BY <1>1, <2>3, <4>1, HeldExists, NoThreadAssumption
        <4>3. thread[th].sat => DependenciesSatisfied(t)'
          BY <1>2, <2>3, <4>1, <4>2 DEF Promised
        <4>4. ASSUME ~thread[th].sat, DependenciesSatisfied(t)'
              PROVE  \E q \in Threads : Scans(q, t)'
          <5>1. CASE DependenciesSatisfied(t)
            <6>1. PICK q \in Threads : Scans(q, t)
              BY <2>3, <4>1, <4>4, <5>1 DEF Promised
            <6>2. QED
              BY <1>4, <2>3, <4>1, <4>2, <6>1
          <5>2. CASE ~DependenciesSatisfied(t)
            BY <1>3, <4>2, <4>4, <5>2
          <5>3. QED
            BY <5>1, <5>2
        <4>5. QED
          BY <2>3, <4>1, <4>3, <4>4 DEF Promised
      <3>3. QED
        BY <3>1, <3>2
    <2>4. QED
      BY <2>1, <2>2, <2>3 DEF Promised, DependenciesSatisfied, Scans
  <1>8. ASSUME NEW th \in Threads, thread'[th].pc = "idle" PROVE thread'[th].ready = {}
    BY <1>1, <1>8 DEF LooksFirst, HInv
  <1>9. ReadyHeld'
    BY <1>5 DEF ReadyHeld
  <1>10. QED
    BY <1>6, <1>7, <1>8, <1>9 DEF HInv

-----------------------------------------------------------------------------
(* Every handler passes on what it has in hand. *)

\* No attempt is opened, and no task succeeds.
LEMMA QuietPasses ==
  ASSUME NEW a, KeepsHold(a), LooksAtAll(a), LooksFirst(a),
         \A t \in Tasks : /\ task'[t].active = task[t].active
                          /\ task'[t].status = "succeeded" => task[t].status = "succeeded"
  PROVE  PassesOn(a)
  BY DEF PassesOn, Announces, OpensAsSeen

LEMMA OneRow ==
  ASSUME IInv, NEW t \in Tasks, NEW rec, task' = [task EXCEPT ![t] = rec]
  PROVE  task'[t] = rec /\ \A u \in Tasks : u # t => task'[u] = task[u]
  BY DEF IInv, TypeOK

LEMMA ThreadGoes ==
  ASSUME IInv, NEW a \in Threads, NEW s, GoesTo(a, s)
  PROVE  thread'[a] = s /\ \A th \in Threads \ {a} : thread'[th] = thread[th]
  BY DEF IInv, TypeOK, GoesTo

(* A result was saved, and a scan over all tasks is next.                   *)
LEMMA ResultPasses ==
  ASSUME HInv, NEW a \in Threads, thread[a].pc \in {"idle", "run"},
         NEW t \in Tasks, NEW rec, task' = [task EXCEPT ![t] = rec], rec.active = task[t].active,
         NEW s, GoesTo(a, StartResume(s)), s.ready = thread[a].ready
  PROVE  PassesOn(a)
  <1>1. IInv
    BY DEF HInv
  <1>2. thread'[a].pc = "resume" /\ thread'[a].todo = Created /\ thread'[a].ready = thread[a].ready
    <2>1. /\ StartResume(s).pc = "resume" /\ StartResume(s).todo = Created
          /\ StartResume(s).ready = s.ready
      BY DEF StartResume, Idle
    <2>2. thread'[a] = StartResume(s)
      BY <1>1, ThreadGoes
    <2>3. QED
      BY <2>1, <2>2
  <1>3. \A u \in Tasks : task'[u].active = task[u].active
    BY <1>1, OneRow
  <1>4. KeepsHold(a)
    BY <1>2 DEF KeepsHold, Claims, Carries
  <1>5. LooksAtAll(a) /\ Announces(a) /\ OpensAsSeen(a) /\ LooksFirst(a)
    BY <1>2, <1>3 DEF LooksAtAll, Scans, Announces, OpensAsSeen, LooksFirst
  <1>6. QED
    BY <1>4, <1>5 DEF PassesOn

(* A thread that held nothing goes on with nothing in its hands.            *)
LEMMA EmptyHanded ==
  ASSUME NEW a \in Threads, thread[a].pc \in {"idle", "confirm", "rerun"}, thread[a].ready = {},
         thread'[a].pc \in {"idle", "claim"}, thread'[a].ready = {}
  PROVE  KeepsHold(a) /\ LooksAtAll(a) /\ LooksFirst(a)
  BY DEF KeepsHold, LooksAtAll, LooksFirst, Claims, Carries, Scans

LEMMA CreatePasses ==
  ASSUME HInv, NEW t \in Tasks, CreateRequest(t)
  PROVE  PassesOn(NoThread)
  <1> DEFINE rec == [task[t] EXCEPT !.status = "running"]
  <1>1. IInv /\ task \in [Tasks -> TaskRecord] /\ NoThread \notin Threads
    BY NoThreadAssumption DEF HInv, IInv, TypeOK
  <1>2. task' = [task EXCEPT ![t] = rec] /\ rec.active = task[t].active /\ rec.status = "running"
    BY <1>1 DEF CreateRequest, TaskRecord
  <1> HIDE DEF rec
  <1>3. task'[t] = rec /\ \A u \in Tasks : u # t => task'[u] = task[u]
    BY <1>1, <1>2, OneRow
  <1>4. KeepsHold(NoThread) /\ LooksAtAll(NoThread) /\ LooksFirst(NoThread)
    BY <1>1 DEF KeepsHold, LooksAtAll, LooksFirst
  <1>5. QED
    BY <1>2, <1>3, <1>4, QuietPasses

LEMMA CancelPasses ==
  ASSUME HInv, NEW t \in Tasks, CancelUnconfirmed(t)
  PROVE  PassesOn(NoThread)
  <1> DEFINE rec == Finalize(task[t], "cancelled", FALSE)
  <1>1. IInv /\ task[t] \in TaskRecord /\ NoThread \notin Threads
    BY NoThreadAssumption DEF HInv, IInv, TypeOK
  <1>2. task' = [task EXCEPT ![t] = rec] /\ rec.active = task[t].active /\ rec.status = "cancelled"
    BY <1>1 DEF CancelUnconfirmed, Save, Finalize, TaskRecord
  <1> HIDE DEF rec
  <1>3. task'[t] = rec /\ \A u \in Tasks : u # t => task'[u] = task[u]
    BY <1>1, <1>2, OneRow
  <1>4. KeepsHold(NoThread) /\ LooksAtAll(NoThread) /\ LooksFirst(NoThread)
    BY <1>1 DEF KeepsHold, LooksAtAll, LooksFirst
  <1>5. QED
    BY <1>2, <1>3, <1>4, QuietPasses

LEMMA BeginPasses ==
  ASSUME HInv, NEW a \in Threads, NEW t \in Tasks, ConfirmBegin(a, t) \/ RerunBegin(a, t)
  PROVE  PassesOn(a)
  <1> DEFINE confirm == [Idle EXCEPT !.pc = "confirm", !.task = t, !.sat = DependenciesSatisfied(t)]
             rerun == [Idle EXCEPT !.pc = "rerun", !.task = t, !.sat = DependenciesSatisfied(t)]
  <1>1. IInv /\ UNCHANGED task /\ (GoesTo(a, confirm) \/ GoesTo(a, rerun))
    BY DEF ConfirmBegin, RerunBegin, HInv
  <1>2. /\ confirm.task = t /\ confirm.sat = DependenciesSatisfied(t) /\ confirm.ready = {}
        /\ rerun.task = t /\ rerun.sat = DependenciesSatisfied(t) /\ rerun.ready = {}
        /\ confirm.pc = "confirm" /\ rerun.pc = "rerun"
    BY DEF Idle
  <1>3. thread[a].pc = "idle" /\ thread[a].ready = {}
    BY DEF ConfirmBegin, RerunBegin, HInv
  <1> HIDE DEF confirm, rerun
  <1>4. /\ thread'[a].task = t /\ thread'[a].sat = DependenciesSatisfied(t)
        /\ thread'[a].ready = {} /\ thread'[a].pc \in {"confirm", "rerun"}
    BY <1>1, <1>2, ThreadGoes
  <1>5. LooksFirst(a)
    BY <1>1, <1>4 DEF LooksFirst
  <1>6. KeepsHold(a) /\ LooksAtAll(a)
    BY <1>3 DEF KeepsHold, LooksAtAll, Claims, Carries, Scans
  <1>7. QED
    BY <1>1, <1>5, <1>6, QuietPasses

LEMMA ConfirmEndPasses ==
  ASSUME HInv, NEW a \in Threads, NEW mode, ConfirmEnd(a, mode)
  PROVE  PassesOn(a)
  <1> DEFINE s == thread[a]
             t == s.task
             rec == [task[t] EXCEPT
                       !.contract = TRUE, !.active = 1,
                       !.node = IF s.sat THEN "dispatch_decision" ELSE "waiting_dependencies"]
             next == IF mode = "sync" THEN Doing("claim", t, 0, {})
                     ELSE IF s.sat THEN Doing("claim", t, 1, {}) ELSE Idle
  <1>1. IInv /\ t \in Tasks /\ s.pc = "confirm" /\ s.ready = {} /\ GoesTo(a, next) /\ HolderOK(a)
        /\ task' = [task EXCEPT ![t] = rec] /\ task[t] \in TaskRecord
    BY DEF HInv, Promised, IInv, TypeOK, ConfirmEnd, ThreadState, Save
  <1>2. /\ rec.active = 1
        /\ rec.node = IF s.sat THEN "dispatch_decision" ELSE "waiting_dependencies"
        /\ rec.status = task[t].status
    BY <1>1 DEF TaskRecord
  <1>3. /\ next.pc \in {"idle", "claim"} /\ next.ready = {}
        /\ s.sat => next.pc = "claim" /\ next.task = t /\ next.exec \in {0, 1}
    BY DEF Doing, Idle
  <1>4. task[t].status = "running"
    BY <1>1 DEF HolderOK
  <1> HIDE DEF rec, next
  <1>5. thread'[a] = next /\ task'[t] = rec /\ \A u \in Tasks : u # t => task'[u] = task[u]
    BY <1>1, ThreadGoes, OneRow
  <1>6. KeepsHold(a) /\ LooksAtAll(a) /\ LooksFirst(a)
    BY <1>1, <1>3, <1>5, EmptyHanded
  <1>7. Announces(a)
    BY <1>2, <1>4, <1>5 DEF Announces
  <1>8. OpensAsSeen(a)
    BY <1>1, <1>2, <1>3, <1>5 DEF OpensAsSeen, Claims
  <1>9. QED
    BY <1>6, <1>7, <1>8 DEF PassesOn

LEMMA RerunEndPasses ==
  ASSUME HInv, NEW a \in Threads, NEW k, NEW source, RerunEnd(a, k, source)
  PROVE  PassesOn(a)
  <1> DEFINE s == thread[a]
             t == s.task
             es == executions[t]
             rec == [task[t] EXCEPT
                       !.status = "running", !.active = Len(es) + 1,
                       !.node = IF s.sat THEN "dispatch_decision" ELSE "waiting_dependencies",
                       !.rounds = <<>>, !.awaiting = FALSE, !.depctx = FALSE]
             next == IF s.sat THEN Doing("claim", t, Len(es) + 1, {}) ELSE Idle
  <1>1. IInv /\ t \in Tasks /\ s.pc = "rerun" /\ s.ready = {} /\ task[t] \in TaskRecord
    BY DEF HInv, Promised, IInv, TypeOK, RerunEnd, ThreadState
  <1>2. Idle.pc = "idle" /\ Idle.ready = {}
    BY DEF Idle
  <1>3. CASE UNCHANGED task /\ GoesTo(a, Idle)
    <2>1. thread'[a] = Idle
      BY <1>1, <1>3, ThreadGoes
    <2>2. KeepsHold(a) /\ LooksAtAll(a) /\ LooksFirst(a)
      BY <1>1, <1>2, <2>1, EmptyHanded
    <2>3. QED
      BY <1>3, <2>2, QuietPasses
  <1>4. CASE Save(t, rec, Append(es, NewExecution(rec, k, source))) /\ GoesTo(a, next)
    <2>1. /\ rec.active = Len(es) + 1
          /\ rec.node = IF s.sat THEN "dispatch_decision" ELSE "waiting_dependencies"
          /\ rec.status = "running"
      BY <1>1 DEF TaskRecord
    <2>2. /\ next.pc \in {"idle", "claim"} /\ next.ready = {}
          /\ s.sat => next.pc = "claim" /\ next.task = t /\ next.exec = Len(es) + 1
      BY DEF Doing, Idle
    <2>3. task' = [task EXCEPT ![t] = rec]
      BY <1>4 DEF Save
    <2> HIDE DEF rec, next
    <2>4. thread'[a] = next /\ task'[t] = rec /\ \A u \in Tasks : u # t => task'[u] = task[u]
      BY <1>1, <1>4, <2>3, ThreadGoes, OneRow
    <2>5. KeepsHold(a) /\ LooksAtAll(a) /\ LooksFirst(a)
      BY <1>1, <2>2, <2>4, EmptyHanded
    <2>6. Announces(a)
      BY <2>1, <2>4 DEF Announces
    <2>7. OpensAsSeen(a)
      BY <1>1, <2>1, <2>2, <2>4 DEF OpensAsSeen, Claims
    <2>8. QED
      BY <2>5, <2>6, <2>7 DEF PassesOn
  <1>5. QED
    BY <1>3, <1>4 DEF RerunEnd

LEMMA ReturnState ==
  ASSUME NEW s, s.ready # {} \/ s.ready = {}
  PROVE  /\ Return(s).ready = s.ready /\ Return(s).pc \in {"idle", "resume"}
         /\ Return(s).pc = "idle" => s.ready = {}
  BY DEF Return, Idle

LEMMA ClaimBeginPasses ==
  ASSUME HInv, NEW a \in Threads, ClaimBegin(a)
  PROVE  PassesOn(a)
  <1> DEFINE s == thread[a]
             t == s.task
             may == Runnable(t, s.exec) /\ DependenciesSatisfied(t)
             d == [s EXCEPT !.pc = "claiming"]
  <1>1. IInv /\ s \in ThreadState /\ t \in Tasks /\ s.pc = "claim" /\ UNCHANGED task
        /\ RowOK(task[t], executions[t])
    BY DEF HInv, IInv, TypeOK, ClaimBegin, ThreadState
  <1>2. LooksAtAll(a)
    BY <1>1 DEF LooksAtAll, Scans
  <1>3. CASE ~may /\ GoesTo(a, Return(s))
    <2>1. thread'[a].ready = s.ready /\ thread'[a].pc \in {"idle", "resume"}
          /\ (thread'[a].pc = "idle" => s.ready = {})
      BY <1>1, <1>3, ThreadGoes, ReturnState
    <2>2. ~(Ready(t) /\ Claims(a, t))
      <3> SUFFICES ASSUME Ready(t), Claims(a, t) PROVE may
        BY <1>3
      <3>1. task[t].status = "running" /\ task[t].active # 0 /\ DependenciesSatisfied(t)
        BY DEF Ready
      <3>2. task[t].active = Len(executions[t]) /\ executions[t] # <<>>
        BY <1>1, <3>1, RunningRow
      <3>3. executions[t][task[t].active].status = "running"
            /\ ~executions[t][task[t].active].finished
        BY <1>1, <3>1, <3>2 DEF RowOK, HistoryOf
      <3>4. QED
        BY <3>1, <3>3 DEF Runnable, Claims
    <2>3. KeepsHold(a)
      BY <1>1, <2>1, <2>2 DEF KeepsHold, Claims, Carries
    <2>4. LooksFirst(a)
      BY <2>1 DEF LooksFirst
    <2>5. QED
      BY <1>1, <1>2, <2>3, <2>4, QuietPasses
  <1>4. CASE may /\ GoesTo(a, d)
    <2>1. d.pc = "claiming" /\ d.task = t /\ d.exec = s.exec /\ d.ready = s.ready
      BY <1>1 DEF ThreadState
    <2> HIDE DEF d
    <2>2. thread'[a] = d
      BY <1>1, <1>4, ThreadGoes
    <2>3. KeepsHold(a)
      BY <1>1, <2>1, <2>2 DEF KeepsHold, Claims, Carries
    <2>4. LooksFirst(a)
      BY <1>1, <1>4, <2>1, <2>2 DEF LooksFirst
    <2>5. QED
      BY <1>1, <1>2, <2>3, <2>4, QuietPasses
  <1>5. QED
    BY <1>3, <1>4 DEF ClaimBegin

LEMMA ClaimEndPasses ==
  ASSUME HInv, NEW a \in Threads, ClaimEnd(a)
  PROVE  PassesOn(a)
  <1> DEFINE s == thread[a]
             t == s.task
             rec == task[t]
             es == executions[t]
             later == [rec EXCEPT !.node = "dispatch_decision"]
             run == Doing("run", t, rec.active, s.ready)
  <1>1. IInv /\ t \in Tasks /\ s.pc = "claiming" /\ rec \in TaskRecord /\ RowOK(rec, es)
        /\ rec.status = "running" /\ rec.active # 0
    BY DEF HInv, IInv, TypeOK, ClaimEnd, ThreadState, HolderOK
  <1>2. run.pc = "run" /\ run.ready = s.ready
    BY DEF Doing, Idle
  <1>3. later.active = rec.active /\ later.status = rec.status
    BY <1>1 DEF TaskRecord
  <1> HIDE DEF run, later
  <1>4. LooksAtAll(a)
    BY <1>1 DEF LooksAtAll, Scans
  <1>5. ASSUME GoesTo(a, run)
        PROVE  /\ LooksFirst(a)
               /\ \A u \in Tasks : task'[u].active = task[u].active /\ Carries(a, u) => Carries(a, u)'
    <2>1. thread'[a] = run
      BY <1>1, <1>5, ThreadGoes
    <2>2. QED
      BY <1>2, <2>1 DEF LooksFirst, Carries
  <1>6. CASE GoesTo(a, Return(s)) /\ UNCHANGED <<task, executions>>
             /\ es[rec.active].started
    <2>1. thread'[a].ready = s.ready /\ thread'[a].pc \in {"idle", "resume"}
          /\ (thread'[a].pc = "idle" => s.ready = {})
      BY <1>1, <1>6, ThreadGoes, ReturnState
    <2>2. LooksFirst(a)
      BY <2>1 DEF LooksFirst
    <2>3. KeepsHold(a)
      BY <1>1, <1>6, <2>1 DEF KeepsHold, Claims, Carries, Ready
    <2>4. QED
      BY <1>4, <1>6, <2>2, <2>3, QuietPasses
  <1>7. CASE ~es[rec.active].started /\ Save(t, rec, MarkStarted(rec, es)) /\ GoesTo(a, run)
    <2>1. task' = task
      BY <1>1, <1>7 DEF Save, HInv, IInv, TypeOK
    <2>2. PICK u \in Tasks : u = t
      BY <1>1
    <2>3. ~Ready(u)'
      <3>1. rec.status = "running" /\ rec.active # 0
        BY <1>1
      <3>2. rec.active = Len(es) /\ es # <<>>
        BY <1>1, <3>1, RunningRow
      <3>3. executions'[t] = SyncProjection(rec, MarkStarted(rec, es))
        BY <1>1, <1>7, SaveRow
      <3>4. Starts(rec, es, rec, executions'[t])
        BY <3>1, <3>2, <3>3 DEF Starts
      <3>5. executions'[t][rec.active].started
        BY <1>1, <3>2, <3>4, StartsFacts
      <3>6. QED
        BY <2>1, <2>2, <3>5 DEF Ready
    <2>4. KeepsHold(a)
      BY <1>1, <1>5, <1>7, <2>2, <2>3 DEF KeepsHold, Claims
    <2>5. QED
      BY <1>4, <1>5, <1>7, <2>1, <2>4, QuietPasses
  <1>8. CASE es[rec.active].started /\ Save(t, later, es) /\ GoesTo(a, run)
    <2>1. task' = [task EXCEPT ![t] = later]
      BY <1>8 DEF Save
    <2>2. task'[t] = later /\ \A u \in Tasks : u # t => task'[u] = task[u]
      BY <1>1, <2>1, OneRow
    <2>3. ~Ready(t)
      BY <1>8 DEF Ready
    <2>4. KeepsHold(a)
      BY <1>1, <1>5, <1>8, <2>3 DEF KeepsHold, Claims
    <2>5. \A u \in Tasks : task'[u].active = task[u].active /\ task'[u].status = task[u].status
      BY <1>3, <2>2
    <2>6. QED
      BY <1>4, <1>5, <1>8, <2>4, <2>5, QuietPasses
  <1>9. QED
    BY <1>6, <1>7, <1>8 DEF ClaimEnd, run, later

LEMMA RunPasses ==
  ASSUME HInv, NEW a \in Threads, RunClaimed(a)
  PROVE  PassesOn(a)
  <1> DEFINE s == thread[a]
             t == s.task
             rec == task[t]
  <1>1. IInv /\ t \in Tasks /\ s.pc = "run" /\ rec \in TaskRecord
    BY DEF HInv, IInv, TypeOK, RunClaimed, ThreadState
  <1>2. CASE GoesTo(a, Return(s)) /\ UNCHANGED <<task, executions>>
    <2>1. thread'[a].ready = s.ready /\ thread'[a].pc \in {"idle", "resume"}
          /\ (thread'[a].pc = "idle" => s.ready = {})
      BY <1>1, <1>2, ThreadGoes, ReturnState
    <2>2. KeepsHold(a) /\ LooksAtAll(a) /\ LooksFirst(a)
      BY <1>1, <1>2, <2>1 DEF KeepsHold, LooksAtAll, LooksFirst, Claims, Carries, Scans
    <2>3. QED
      BY <1>2, <2>2, QuietPasses
  <1>3. CASE /\ Runnable(t, s.exec)
             /\ \E result \in FlowResults(t, rec) \cup {Finalize(rec, "failed", FALSE)} :
                  Save(t, result, executions[t])
             /\ GoesTo(a, StartResume(s))
    <2>1. PICK result \in FlowResults(t, rec) \cup {Finalize(rec, "failed", FALSE)} :
            Save(t, result, executions[t])
      BY <1>3
    <2>2. rec.node # "human_confirmation"
      BY <1>1, <1>3, RunningRow DEF Runnable
    <2>3. result.active = rec.active
      <3>1. CASE result \in FlowResults(t, rec)
        BY <1>1, <2>2, <3>1, FlowType DEF SameTask
      <3>2. CASE result = Finalize(rec, "failed", FALSE)
        BY <1>1, <3>2 DEF Finalize, TaskRecord
      <3>3. QED
        BY <2>1, <3>1, <3>2
    <2>4. task' = [task EXCEPT ![t] = result]
      BY <2>1 DEF Save
    <2>5. QED
      BY <1>1, <1>3, <2>3, <2>4, ResultPasses
  <1>4. QED
    BY <1>2, <1>3 DEF RunClaimed

LEMMA ResumeScanPasses ==
  ASSUME HInv, NEW a \in Threads, NEW t \in Tasks, ResumeScan(a, t)
  PROVE  PassesOn(a)
  <1> DEFINE s == thread[a]
             scanned == [s EXCEPT !.todo = @ \ {t}]
             released == [s EXCEPT !.pc = "release", !.task = t]
  <1>1. IInv /\ s \in ThreadState /\ s.pc = "resume" /\ lock[t] = NoThread /\ UNCHANGED task
    BY DEF HInv, IInv, TypeOK, ResumeScan, Free
  <1>2. scanned.pc = "resume" /\ scanned.todo = s.todo \ {t} /\ scanned.ready = s.ready
    BY <1>1 DEF ThreadState
  <1>3. released.pc = "release" /\ released.todo = s.todo /\ released.ready = s.ready
    BY <1>1 DEF ThreadState
  <1> HIDE DEF scanned, released
  <1>4. CASE /\ ~(/\ task[t].node = "waiting_dependencies" /\ task[t].status = "running"
                  /\ DependenciesSatisfied(t))
             /\ GoesTo(a, scanned)
    <2>1. thread'[a] = scanned
      BY <1>1, <1>4, ThreadGoes
    <2>2. LooksAtAll(a)
      BY <1>1, <1>2, <1>4, <2>1 DEF LooksAtAll, Scans, Ready
    <2>3. KeepsHold(a) /\ LooksFirst(a)
      BY <1>1, <1>2, <2>1 DEF KeepsHold, LooksFirst, Claims, Carries
    <2>4. QED
      BY <1>1, <2>2, <2>3, QuietPasses
  <1>5. CASE GoesTo(a, released)
    <2>1. thread'[a] = released
      BY <1>1, <1>5, ThreadGoes
    <2>2. LooksAtAll(a)
      BY <1>1, <1>3, <2>1 DEF LooksAtAll, Scans
    <2>3. KeepsHold(a) /\ LooksFirst(a)
      BY <1>1, <1>3, <2>1 DEF KeepsHold, LooksFirst, Claims, Carries
    <2>4. QED
      BY <1>1, <2>2, <2>3, QuietPasses
  <1>6. QED
    BY <1>4, <1>5 DEF ResumeScan, scanned, released

LEMMA ReleasePasses ==
  ASSUME HInv, NEW a \in Threads, Release(a)
  PROVE  PassesOn(a)
  <1> DEFINE s == thread[a]
  <1>0. PICK t \in Tasks : t = s.task
    BY DEF HInv, IInv, TypeOK, ThreadState
  <1> DEFINE rec == [task[t] EXCEPT !.depctx = TRUE]
             d == [s EXCEPT !.pc = "resume", !.task = AnyTask, !.todo = @ \ {t},
                            !.ready = @ \cup {<<t, task[t].active>>}]
  <1>1. /\ IInv /\ s \in ThreadState /\ s.pc = "release" /\ lock[t] = a
        /\ task[t] \in TaskRecord /\ task' = [task EXCEPT ![t] = rec] /\ GoesTo(a, d)
    BY <1>0 DEF HInv, IInv, TypeOK, Release, ThreadState, HolderOK, Held, Save
  <1>2. d.pc = "resume" /\ d.todo = s.todo \ {t} /\ d.ready = s.ready \cup {<<t, task[t].active>>}
    BY <1>1 DEF ThreadState
  <1>3. rec.active = task[t].active /\ rec.status = task[t].status
    BY <1>1 DEF TaskRecord
  <1> HIDE DEF rec, d
  <1>4. thread'[a] = d
    BY <1>1, ThreadGoes
  <1>5. task'[t] = rec /\ \A u \in Tasks : u # t => task'[u] = task[u]
    BY <1>1, OneRow
  <1>6. Carries(a, t)'
    BY <1>2, <1>3, <1>4, <1>5 DEF Carries
  <1>7. LooksAtAll(a)
    BY <1>1, <1>2, <1>4, <1>6 DEF LooksAtAll, Scans
  <1>8. KeepsHold(a) /\ LooksFirst(a)
    BY <1>1, <1>2, <1>4 DEF KeepsHold, LooksFirst, Claims, Carries
  <1>9. \A u \in Tasks : task'[u].active = task[u].active /\ task'[u].status = task[u].status
    BY <1>3, <1>5
  <1>10. QED
    BY <1>7, <1>8, <1>9, QuietPasses

LEMMA ResumeNextPasses ==
  ASSUME HInv, NEW a \in Threads, ResumeNext(a)
  PROVE  PassesOn(a)
  <1> DEFINE s == thread[a]
  <1>1. IInv /\ s.pc = "resume" /\ s.todo = {} /\ UNCHANGED task /\ s.ready \subseteq Tasks \X Nat
    BY DEF HInv, IInv, TypeOK, ResumeNext, ThreadState
  <1>2. LooksAtAll(a)
    BY <1>1 DEF LooksAtAll, Scans
  <1>3. CASE s.ready = {} /\ GoesTo(a, Idle)
    <2>1. thread'[a].pc = "idle" /\ thread'[a].ready = {}
      BY <1>1, <1>3, ThreadGoes DEF Idle
    <2>2. KeepsHold(a) /\ LooksFirst(a)
      BY <1>1, <1>3, <2>1 DEF KeepsHold, LooksFirst, Claims, Carries
    <2>3. QED
      BY <1>1, <1>2, <2>2, QuietPasses
  <1>4. CASE \E r \in s.ready : GoesTo(a, Doing("claim", r[1], r[2], s.ready \ {r}))
    <2>1. PICK r \in s.ready : GoesTo(a, Doing("claim", r[1], r[2], s.ready \ {r}))
      BY <1>4
    <2> DEFINE d == Doing("claim", r[1], r[2], s.ready \ {r})
    <2>2. d.pc = "claim" /\ d.task = r[1] /\ d.exec = r[2] /\ d.ready = s.ready \ {r}
      BY DEF Doing, Idle
    <2> HIDE DEF d
    <2>3. thread'[a] = d
      BY <1>1, <2>1, ThreadGoes DEF d
    <2>4. ASSUME NEW u \in Tasks, Carries(a, u) PROVE Claims(a, u)' \/ Carries(a, u)'
      <3>1. CASE <<u, task[u].active>> = r
        BY <1>1, <2>2, <2>3, <3>1 DEF Claims
      <3>2. CASE <<u, task[u].active>> # r
        BY <1>1, <2>2, <2>3, <2>4, <3>2 DEF Carries
      <3>3. QED
        BY <3>1, <3>2
    <2>5. KeepsHold(a)
      BY <1>1, <2>4 DEF KeepsHold, Claims
    <2>6. LooksFirst(a)
      BY <2>2, <2>3 DEF LooksFirst
    <2>7. QED
      BY <1>1, <1>2, <2>5, <2>6, QuietPasses
  <1>5. QED
    BY <1>3, <1>4 DEF ResumeNext

LEMMA IdlePasses ==
  ASSUME HInv, NEW a \in Threads, thread[a].pc = "idle",
         NEW t \in Tasks, NEW rec, task' = [task EXCEPT ![t] = rec],
         rec.active = task[t].active, rec.status = "running",
         UNCHANGED thread \/ GoesTo(a, Doing("claim", t, 0, {}))
  PROVE  PassesOn(a)
  <1>1. IInv /\ thread[a].ready = {}
    BY DEF HInv
  <1>2. thread'[a].pc \in {"idle", "claim"} /\ thread'[a].ready = {}
    <2>1. Doing("claim", t, 0, {}).pc = "claim" /\ Doing("claim", t, 0, {}).ready = {}
      BY DEF Doing, Idle
    <2>2. QED
      BY <1>1, <2>1, ThreadGoes
  <1>3. \A u \in Tasks : /\ task'[u].active = task[u].active
                         /\ task'[u].status = "succeeded" => task[u].status = "succeeded"
    BY <1>1, OneRow
  <1>4. QED
    BY <1>1, <1>2, <1>3, EmptyHanded, QuietPasses

LEMMA RaisedSame ==
  ASSUME NEW t \in Tasks, NEW rec \in TaskRecord, NEW out \in RaisedResults(t, rec)
  PROVE  out.active = rec.active /\ out.status = rec.status
  <1>1. PICK w \in Worked(t, rec), n \in {"dispatch_decision", "subtask_execution", "completion_judge"} :
          out = [w EXCEPT !.node = n]
    BY DEF RaisedResults
  <1>2. QED
    BY <1>1, WorkedType DEF TaskRecord

LEMMA SubmitResultPasses ==
  ASSUME HInv, NEW a \in Threads, NEW t \in Tasks, NEW result, NEW complete,
         SubmitResult(a, t, result, complete)
  PROVE  PassesOn(a)
  <1> DEFINE rec == task[t]
  <1>1. rec \in TaskRecord /\ thread[a].pc = "idle" /\ thread[a].ready = Idle.ready
        /\ rec.status = "running" /\ rec.node = "human_intervention"
    BY DEF SubmitResult, HInv, IInv, TypeOK, Idle
  <1>2. CASE /\ \E gaps \in BOOLEAN : Save(t, Finalize(rec, result, gaps), executions[t])
             /\ GoesTo(a, StartResume(Idle))
    <2>1. PICK gaps \in BOOLEAN : task' = [task EXCEPT ![t] = Finalize(rec, result, gaps)]
      BY <1>2 DEF Save
    <2>2. Finalize(rec, result, gaps).active = rec.active
      BY <1>1 DEF Finalize, TaskRecord
    <2>3. QED
      BY <1>1, <1>2, <2>1, <2>2, ResultPasses
  <1>3. CASE /\ \E out \in FlowResults(t, rec) : Save(t, out, MarkStarted(rec, executions[t]))
             /\ GoesTo(a, StartResume(Idle))
    <2>1. PICK out \in FlowResults(t, rec) : task' = [task EXCEPT ![t] = out]
      BY <1>3 DEF Save
    <2>2. out.active = rec.active
      BY <1>1, FlowType DEF SameTask
    <2>3. QED
      BY <1>1, <1>3, <2>1, <2>2, ResultPasses
  <1>4. CASE /\ \E out \in LeftByRaise(t, rec) : task' = [task EXCEPT ![t] = out]
             /\ UNCHANGED thread
    <2>1. PICK out \in {rec} \cup RaisedResults(t, rec) : task' = [task EXCEPT ![t] = out]
      BY <1>4 DEF LeftByRaise
    <2>2. out.active = rec.active /\ out.status = "running"
      BY <1>1, RaisedSame
    <2>3. QED
      BY <1>1, <1>4, <2>1, <2>2, IdlePasses
  <1>5. QED
    BY <1>2, <1>3, <1>4 DEF SubmitResult

LEMMA SubtaskResultPasses ==
  ASSUME HInv, NEW a \in Threads, NEW t \in Tasks, NEW i \in DOMAIN task[t].rounds,
         NEW h \in Slots, NEW result \in Results, NEW mode,
         SubmitSubtaskResult(a, t, i, h, result, mode)
  PROVE  PassesOn(a)
  <1> DEFINE posted == [task[t] EXCEPT !.rounds[i][h] = result]
             merged == [posted EXCEPT !.node = "context_update"]
             paused == [posted EXCEPT !.node = "human_execution"]
             rs == [task[t].rounds EXCEPT ![i][h] = result]
  <1>1. task[t] \in TaskRecord /\ thread[a].pc = "idle" /\ thread[a].ready = Idle.ready
        /\ task[t].status = "running"
    BY DEF SubmitSubtaskResult, HInv, IInv, TypeOK, Idle
  <1>2. rs \in Seq(Round)
    <2>1. task[t].rounds \in Seq(Round) /\ task[t].rounds[i] \in Round /\ result \in SubtaskStatus
      BY <1>1 DEF TaskRecord, Results, SubtaskStatus
    <2>2. [task[t].rounds[i] EXCEPT ![h] = result] \in Round
      BY <2>1 DEF Round
    <2>3. QED
      BY <2>1, <2>2
  <1>3. posted = [task[t] EXCEPT !.rounds = rs]
    OBVIOUS
  <1> HIDE DEF rs, posted
  <1>4. posted \in TaskRecord /\ posted.status = "running" /\ posted.active = task[t].active
    BY <1>1, <1>2, <1>3 DEF TaskRecord
  <1>5. /\ merged \in TaskRecord /\ merged.status = "running" /\ merged.active = task[t].active
        /\ merged.node = "context_update"
        /\ paused.status = "running" /\ paused.active = task[t].active
    BY <1>4 DEF TaskRecord, Node
  <1> HIDE DEF merged, paused
  <1>6. CASE /\ Save(t, Finalize(merged, result, FALSE), executions[t])
             /\ GoesTo(a, StartResume(Idle))
    <2>1. task' = [task EXCEPT ![t] = Finalize(merged, result, FALSE)]
      BY <1>6 DEF Save
    <2>2. Finalize(merged, result, FALSE).active = task[t].active
      BY <1>5 DEF Finalize, TaskRecord
    <2>3. QED
      BY <1>1, <1>6, <2>1, <2>2, ResultPasses
  <1>7. CASE Save(t, paused, executions[t]) /\ UNCHANGED thread
    BY <1>1, <1>5, <1>7, IdlePasses DEF Save
  <1>8. CASE Save(t, merged, executions[t]) /\ GoesTo(a, Doing("claim", t, 0, {}))
    BY <1>1, <1>5, <1>8, IdlePasses DEF Save
  <1>9. CASE /\ \E out \in FlowResults(t, merged) : Save(t, out, MarkStarted(merged, executions[t]))
             /\ GoesTo(a, StartResume(Idle))
    <2>1. PICK out \in FlowResults(t, merged) : task' = [task EXCEPT ![t] = out]
      BY <1>9 DEF Save
    <2>2. out.active = task[t].active
      BY <1>5, FlowType DEF SameTask
    <2>3. QED
      BY <1>1, <1>9, <2>1, <2>2, ResultPasses
  <1>10. CASE /\ \E out \in LeftByRaise(t, merged) : task' = [task EXCEPT ![t] = out]
              /\ UNCHANGED thread
    <2>1. PICK out \in {task[t]} \cup RaisedResults(t, merged) : task' = [task EXCEPT ![t] = out]
      BY <1>10 DEF LeftByRaise
    <2>2. out.active = task[t].active /\ out.status = "running"
      BY <1>1, <1>5, <2>1, RaisedSame
    <2>3. QED
      BY <1>1, <1>10, <2>1, <2>2, IdlePasses
  <1>11. QED
    BY <1>6, <1>7, <1>8, <1>9, <1>10 DEF SubmitSubtaskResult, posted, merged, paused
-----------------------------------------------------------------------------
(* The invariant of a server that is not killed. *)

LEMMA RequestPasses ==
  ASSUME HInv, NEW a \in Threads, NEW t \in Tasks, Request(a, t)
  PROVE  PassesOn(a)
  BY BeginPasses, SubmitResultPasses, SubtaskResultPasses DEF Request

LEMMA ThreadStepPasses ==
  ASSUME HInv, NEW a \in Threads, ThreadStep(a)
  PROVE  PassesOn(a)
  BY ConfirmEndPasses, ClaimBeginPasses, ClaimEndPasses, RunPasses, ResumeScanPasses,
     ReleasePasses, ResumeNextPasses, RerunEndPasses DEF ThreadStep

LEMMA MovesHeld ==
  ASSUME HInv, NEW a \in Threads, Touches(a), Moves(a), PassesOn(a), PrerequisitesKept
  PROVE  HInv'
  <1>1. IInv /\ thread \in [Threads -> ThreadState]
    BY DEF HInv, IInv, TypeOK
  <1>2. \A th \in Threads \ {a} : thread'[th] = thread[th]
    BY <1>1 DEF Moves
  <1>3. IInv'
    BY <1>1, MovesHold
  <1>4. QED
    BY <1>2, <1>3, PassesHeld

LEMMA NobodyHeld ==
  ASSUME HInv, Touches(NoThread), UNCHANGED <<lock, thread>>, PassesOn(NoThread), PrerequisitesKept
  PROVE  HInv'
  <1>1. IInv'
    BY NobodyHold DEF HInv
  <1>2. QED
    BY <1>1, PassesHeld

LEMMA OperationHeld ==
  ASSUME HInv, Operation, PrerequisitesKept
  PROVE  HInv'
  <1>1. IInv
    BY DEF HInv
  <1>2. CASE \E t \in Tasks : CreateRequest(t) \/ CancelUnconfirmed(t)
    <2>1. PICK t \in Tasks : CreateRequest(t) \/ CancelUnconfirmed(t)
      BY <1>2
    <2>2. Touches(NoThread) /\ UNCHANGED <<lock, thread>>
      BY <1>1, <2>1, CreateTouches, CancelTouches
    <2>3. PassesOn(NoThread)
      BY <2>1, CreatePasses, CancelPasses
    <2>4. QED
      BY <2>2, <2>3, NobodyHeld
  <1>3. CASE \E th \in Threads, t \in Tasks : Request(th, t)
    BY <1>1, <1>3, RequestMoves, RequestPasses, MovesHeld
  <1>4. CASE \E th \in Threads : ThreadStep(th)
    BY <1>1, <1>4, ThreadStepMoves, ThreadStepPasses, MovesHeld
  <1>5. QED
    BY <1>2, <1>3, <1>4 DEF Operation

LEMMA StutterHeld == ASSUME HInv, UNCHANGED vars PROVE HInv'
  <1>1. IInv'
    BY StutterIInv DEF HInv
  <1>2. (\A t \in Tasks : Ready(t)' <=> Ready(t)) /\ (\A th \in Threads, t \in Tasks : Takes(th, t)' <=> Takes(th, t))
    BY DEF vars, Ready, DependenciesSatisfied, Takes, Claims, Carries, Scans
  <1>3. ReadyHeld'
    BY <1>2 DEF HInv, ReadyHeld
  <1>4. \A t \in Tasks : StandsOn(t)'
    BY DEF HInv, vars, StandsOn, HasStarted, DependenciesSatisfied
  <1>5. \A th \in Threads : Promised(th)'
    BY DEF HInv, vars, Promised, DependenciesSatisfied, Scans
  <1>6. QED
    BY <1>1, <1>3, <1>4, <1>5 DEF HInv, vars

LEMMA InitHeld == Init => HInv
  <1> SUFFICES ASSUME Init PROVE HInv
    OBVIOUS
  <1>1. \A th \in Threads : thread[th] = Idle
    BY DEF Init
  <1>2. Idle.pc = "idle" /\ Idle.ready = {}
    BY DEF Idle
  <1>3. \A t \in Tasks : task[t].status = "absent"
    BY DEF Init, Absent
  <1>4. QED
    BY <1>1, <1>2, <1>3, InitIInv DEF HInv, ReadyHeld, Ready, StandsOn, Promised

(* While no prerequisite is rerun, a task that could start is always in the *)
(* hands of a thread: about to be claimed, carried by a resume loop, or     *)
(* still on the list of a scan.  This is what ReadyTaskRuns rests on; the   *)
(* run of TaskService_rerun_strands.cfg shows what a rerun does to it.      *)
THEOREM ReadyTasksAreHeld ==
  Init /\ [][Operation]_vars /\ [][PrerequisitesKept]_vars => []ReadyHeld
  <1>1. Init => HInv
    BY InitHeld
  <1>2. HInv /\ [Operation]_vars /\ [PrerequisitesKept]_vars => HInv'
    BY OperationHeld, StutterHeld
  <1>3. HInv => ReadyHeld
    BY DEF HInv
  <1>4. QED
    BY <1>1, <1>2, <1>3, PTL

NobodyReruns == \A th \in Threads : thread[th].pc # "rerun"

\* a goes on with something else than a rerun, or stays where it is.
StartsNoRerun(a) ==
  UNCHANGED thread \/ \E s : GoesTo(a, s) /\ s.pc # "rerun"

LEMMA PlainStates ==
  /\ \A s : Return(s).pc # "rerun" /\ StartResume(s).pc # "rerun"
  /\ \A t, e, ready : /\ Doing("claim", t, e, ready).pc # "rerun"
                      /\ Doing("run", t, e, ready).pc # "rerun"
  /\ Idle.pc # "rerun"
  BY DEF Return, StartResume, Doing, Idle

LEMMA StepStartsNoRerun ==
  ASSUME IInv, NEW a \in Threads, ThreadStep(a)
  PROVE  StartsNoRerun(a)
  <1>1. CASE \E mode \in {"sync", "async"} : ConfirmEnd(a, mode)
    BY <1>1, PlainStates DEF ConfirmEnd, StartsNoRerun
  <1>2. CASE ClaimBegin(a) \/ ClaimEnd(a)
    <2> DEFINE d == [thread[a] EXCEPT !.pc = "claiming"]
    <2>1. d.pc = "claiming"
      BY DEF IInv, TypeOK, ThreadState
    <2> HIDE DEF d
    <2>2. CASE ClaimBegin(a)
      BY <2>1, <2>2, PlainStates DEF ClaimBegin, StartsNoRerun, d
    <2>3. CASE ClaimEnd(a)
      BY <2>3, PlainStates DEF ClaimEnd, StartsNoRerun
    <2>4. QED
      BY <1>2, <2>2, <2>3
  <1>3. CASE RunClaimed(a)
    BY <1>3, PlainStates DEF RunClaimed, StartsNoRerun
  <1>4. CASE (\E t \in Tasks : ResumeScan(a, t)) \/ Release(a)
    <2> DEFINE scanned(t) == [thread[a] EXCEPT !.todo = @ \ {t}]
               released(t) == [thread[a] EXCEPT !.pc = "release", !.task = t]
               done(t) == [thread[a] EXCEPT !.pc = "resume", !.task = AnyTask, !.todo = @ \ {t},
                                            !.ready = @ \cup {<<t, task[t].active>>}]
    <2>1. \A t : scanned(t).pc = thread[a].pc /\ released(t).pc = "release" /\ done(t).pc = "resume"
      BY DEF IInv, TypeOK, ThreadState
    <2>2. CASE Release(a)
      <3>1. GoesTo(a, done(thread[a].task))
        BY <2>2 DEF Release
      <3> HIDE DEF done
      <3>2. QED
        BY <2>1, <3>1 DEF StartsNoRerun
    <2>3. CASE \E t \in Tasks : ResumeScan(a, t)
      <3>1. PICK t \in Tasks : /\ thread[a].pc = "resume"
                               /\ GoesTo(a, scanned(t)) \/ GoesTo(a, released(t))
        BY <2>3 DEF ResumeScan
      <3> HIDE DEF scanned, released
      <3>2. QED
        BY <2>1, <3>1 DEF StartsNoRerun
    <2>4. QED
      BY <1>4, <2>2, <2>3
  <1>5. CASE ResumeNext(a)
    <2>1. CASE GoesTo(a, Idle)
      BY <2>1, PlainStates DEF StartsNoRerun
    <2>2. CASE \E r \in thread[a].ready :
                 GoesTo(a, Doing("claim", r[1], r[2], thread[a].ready \ {r}))
      <3>1. PICK r : GoesTo(a, Doing("claim", r[1], r[2], thread[a].ready \ {r}))
        BY <2>2
      <3>2. QED
        BY <3>1, PlainStates DEF StartsNoRerun
    <2>3. QED
      BY <1>5, <2>1, <2>2 DEF ResumeNext
  <1>6. CASE \E k \in Keys, source \in DOMAIN executions[thread[a].task] : RerunEnd(a, k, source)
    BY <1>6, PlainStates DEF RerunEnd, StartsNoRerun
  <1>7. QED
    BY <1>1, <1>2, <1>3, <1>4, <1>5, <1>6 DEF ThreadStep

\* With one attempt a task, a rerun is never begun.
LEMMA RequestStartsNoRerun ==
  ASSUME IInv, \A u \in Tasks : MaxAttempts[u] <= 1, NEW a \in Threads, NEW t \in Tasks, Request(a, t)
  PROVE  StartsNoRerun(a)
  <1>1. CASE ConfirmBegin(a, t)
    <2> DEFINE s == [Idle EXCEPT !.pc = "confirm", !.task = t, !.sat = DependenciesSatisfied(t)]
    <2>1. GoesTo(a, s) /\ s.pc = "confirm"
      BY <1>1 DEF ConfirmBegin, Idle
    <2> HIDE DEF s
    <2>2. QED
      BY <2>1 DEF StartsNoRerun
  <1>2. CASE \E result \in Results, complete \in BOOLEAN : SubmitResult(a, t, result, complete)
    BY <1>2, PlainStates DEF SubmitResult, StartsNoRerun
  <1>3. CASE \E i \in DOMAIN task[t].rounds, h \in Slots, result \in Results, mode \in {"sync", "async"} :
               SubmitSubtaskResult(a, t, i, h, result, mode)
    <2>1. \/ UNCHANGED thread \/ GoesTo(a, StartResume(Idle))
          \/ GoesTo(a, Doing("claim", t, 0, {}))
      <3>1. PICK i \in DOMAIN task[t].rounds, h \in Slots, result \in Results, mode \in {"sync", "async"} :
              SubmitSubtaskResult(a, t, i, h, result, mode)
        BY <1>3
      <3>2. QED
        BY <3>1, Zenon DEF SubmitSubtaskResult
    <2>2. QED
      BY <2>1, PlainStates DEF StartsNoRerun
  <1>4. CASE RerunBegin(a, t)
    <2>1. RowOK(task[t], executions[t])
      BY DEF IInv
    <2>2. executions[t] \in Seq(Execution) /\ task[t].active = Len(executions[t])
      BY <2>1 DEF RowOK, HistoryOf
    <2>3. task[t].active # 0 /\ Len(executions[t]) < MaxAttempts[t]
      BY <1>4 DEF RerunBegin, RerunAllowed
    <2>4. QED
      BY <2>2, <2>3, BoundsAssumption
  <1>5. QED
    BY <1>1, <1>2, <1>3, <1>4 DEF Request

LEMMA OneAttempt ==
  ASSUME IInv, \A t \in Tasks : MaxAttempts[t] <= 1, NobodyReruns, [Operation]_vars
  PROVE  NobodyReruns'
  <1>1. CASE UNCHANGED thread
    BY <1>1 DEF NobodyReruns
  <1>2. ASSUME NEW a \in Threads, StartsNoRerun(a) PROVE NobodyReruns'
    BY <1>2, ThreadGoes DEF StartsNoRerun, NobodyReruns
  <1>3. CASE \E t \in Tasks : CreateRequest(t) \/ CancelUnconfirmed(t)
    BY <1>1, <1>3 DEF CreateRequest, CancelUnconfirmed
  <1>4. CASE \E th \in Threads, t \in Tasks : Request(th, t)
    BY <1>2, <1>4, RequestStartsNoRerun
  <1>5. CASE \E th \in Threads : ThreadStep(th)
    BY <1>2, <1>5, StepStartsNoRerun
  <1>6. QED
    BY <1>1, <1>3, <1>4, <1>5 DEF Operation, vars

\* Then what has succeeded stays.
LEMMA SuccessStays ==
  ASSUME HInv, NobodyReruns, NEW a, Touches(a), PassesOn(a)
  PROVE  PrerequisitesKept
  <1>1. ASSUME NEW d \in Tasks, task[d].status = "succeeded" PROVE task'[d].status = "succeeded"
    <2>1. IInv /\ RowOK(task[d], executions[d])
      BY DEF HInv, IInv
    <2>2. CASE Opens(task[d], executions[d], task'[d], executions'[d])
      <3>1. task'[d].active = Len(executions[d]) + 1 /\ task[d].active = Len(executions[d])
            /\ executions[d] \in Seq(Execution)
        BY <2>1, <2>2, OpensFacts DEF RowOK, HistoryOf
      <3>2. a \in Threads /\ thread[a].pc \in {"confirm", "rerun"} /\ thread[a].task = d
        BY <3>1 DEF PassesOn, OpensAsSeen
      <3>3. thread[a].pc = "confirm" /\ HolderOK(a)
        BY <2>1, <3>2 DEF NobodyReruns, IInv
      <3>4. QED
        BY <1>1, <3>2, <3>3 DEF HolderOK
    <2>3. \/ task'[d] = task[d] /\ executions'[d] = executions[d]
          \/ RowMoves(d)
      BY <2>1, StillOrMoves
    <2>4. QED
      BY <1>1, <2>2, <2>3 DEF RowMoves, Creates, Goes, Raises, Starts, Continues
  <1>2. QED
    BY <1>1, DepsAssumption DEF PrerequisitesKept

LEMMA OneAttemptKept ==
  ASSUME HInv, NobodyReruns, Operation
  PROVE  PrerequisitesKept
  <1>1. IInv
    BY DEF HInv
  <1>2. CASE \E t \in Tasks : CreateRequest(t) \/ CancelUnconfirmed(t)
    BY <1>1, <1>2, CreateTouches, CancelTouches, CreatePasses, CancelPasses, SuccessStays
  <1>3. CASE \E th \in Threads, t \in Tasks : Request(th, t)
    BY <1>1, <1>3, RequestMoves, RequestPasses, SuccessStays
  <1>4. CASE \E th \in Threads : ThreadStep(th)
    BY <1>1, <1>4, ThreadStepMoves, ThreadStepPasses, SuccessStays
  <1>5. QED
    BY <1>2, <1>3, <1>4 DEF Operation

(* With one attempt a task no assumption on the behaviour is left.          *)
THEOREM OneAttemptHeld ==
  ASSUME \A t \in Tasks : MaxAttempts[t] <= 1
  PROVE  UpSpec => []ReadyHeld
  <1>1. Init => HInv /\ NobodyReruns
    <2>1. Idle.pc = "idle"
      BY DEF Idle
    <2>2. QED
      BY <2>1, InitHeld DEF Init, NobodyReruns
  <1>2. HInv /\ NobodyReruns /\ [Operation]_vars => HInv' /\ NobodyReruns'
    <2> SUFFICES ASSUME HInv, NobodyReruns, [Operation]_vars PROVE HInv' /\ NobodyReruns'
      OBVIOUS
    <2>1. NobodyReruns'
      BY OneAttempt DEF HInv
    <2>2. HInv'
      BY OneAttemptKept, OperationHeld, StutterHeld
    <2>3. QED
      BY <2>1, <2>2
  <1>3. HInv => ReadyHeld
    BY DEF HInv
  <1>4. QED
    BY <1>1, <1>2, <1>3, PTL DEF UpSpec

-----------------------------------------------------------------------------
(* The same for a flow under way, in the database, where a flow that raises *)
(* leaves nothing behind.                                                   *)

(* A confirmed task that neither ended nor waits is in the hands of a       *)
(* thread: Settled is the target of FlowSettles.                            *)
UnsettledHeld ==
  \A t \in Tasks : ~Settled(t) =>
    \E th \in Threads : Claims(th, t) \/ Carries(th, t) \/ Runs(th, t)

(* Of a started execution: it runs before its first round and after every   *)
(* claim, and a round that was merged waits for the claim of its poster.    *)
GoingOn(t) ==
  task[t].status = "running" =>
    /\ ~task[t].contract => task[t].node = "human_confirmation"
    /\ task[t].node = "context_update" => ResumesAfterHumanRound(task[t])
    /\ HasStarted(executions[t]) =>
         /\ task[t].node \in Early => \E th \in Threads : Runs(th, t)
         /\ task[t].node = "context_update" => \E th \in Threads : Claims(th, t)
         /\ task[t].node \notin {"subtask_execution", "completion_judge"}

FInv == PInv /\ HInv /\ \A t \in Tasks : GoingOn(t)

\* What a step of a leaves of the row of t is in order, thanks to a.
LeftWell(a, t) ==
  task'[t].status = "running" =>
    /\ task'[t].contract \/ task'[t].node = "human_confirmation"
    /\ \/ task'[t].node \in {"human_confirmation", "human_execution", "human_intervention"}
       \/ task'[t].node \in Early /\ ~HasStarted(executions'[t])
       \/ task'[t].node \in Early /\ a \in Threads /\ Runs(a, t)'
       \/ /\ task'[t].node = "context_update" /\ ResumesAfterHumanRound(task'[t])
          /\ a \in Threads /\ Claims(a, t)'

Undone(a, t) ==
  /\ task'[t].status = task[t].status /\ task'[t].node = task[t].node
  /\ task'[t].active = task[t].active /\ task'[t].contract = task[t].contract
  /\ task'[t].rounds = task[t].rounds
  /\ HasStarted(executions'[t]) <=> HasStarted(executions[t])

\* a has nothing to do with t.
NotMine(a, t) ==
  a \in Threads /\ task[t].status = "running" /\ HasStarted(executions[t]) =>
    ~Runs(a, t) /\ ~(Claims(a, t) /\ task[t].node = "context_update")

LeavesWell(a) == \A t \in Tasks : LeftWell(a, t) \/ (Undone(a, t) /\ NotMine(a, t))

LEMMA LeavesGoing ==
  ASSUME FInv, NEW a, LeavesWell(a), \A th \in Threads \ {a} : thread'[th] = thread[th],
         NEW t \in Tasks
  PROVE  GoingOn(t)'
  <1> SUFFICES ASSUME task'[t].status = "running"
               PROVE  /\ ~task'[t].contract => task'[t].node = "human_confirmation"
                      /\ task'[t].node = "context_update" => ResumesAfterHumanRound(task'[t])
                      /\ HasStarted(executions'[t]) =>
                           /\ task'[t].node \in Early => \E th \in Threads : Runs(th, t)'
                           /\ task'[t].node = "context_update" => \E th \in Threads : Claims(th, t)'
                           /\ task'[t].node \notin {"subtask_execution", "completion_judge"}
    BY DEF GoingOn, HasStarted, ResumesAfterHumanRound, Human, Running
  <1>1. CASE LeftWell(a, t)
    BY <1>1 DEF LeftWell, Early
  <1>2. CASE Undone(a, t) /\ NotMine(a, t)
    <2>1. GoingOn(t) /\ task[t].status = "running"
      BY <1>2 DEF FInv, Undone
    <2>2. ResumesAfterHumanRound(task[t]) => ResumesAfterHumanRound(task'[t])
      BY <1>2 DEF Undone, ResumesAfterHumanRound
    <2>3. ASSUME NEW th \in Threads, Runs(th, t), HasStarted(executions[t]) PROVE Runs(th, t)'
      <3>1. th # a
        BY <1>2, <2>1, <2>3 DEF NotMine
      <3>2. QED
        BY <1>2, <2>3, <3>1 DEF Undone, Runs
    <2>4. ASSUME NEW th \in Threads, Claims(th, t), HasStarted(executions[t]),
                 task[t].node = "context_update"
          PROVE  Claims(th, t)'
      <3>1. th # a
        BY <1>2, <2>1, <2>4 DEF NotMine
      <3>2. QED
        BY <1>2, <2>4, <3>1 DEF Undone, Claims
    <2>5. QED
      BY <1>2, <2>1, <2>2, <2>3, <2>4 DEF GoingOn, Undone
  <1>3. QED
    BY <1>1, <1>2 DEF LeavesWell

LEMMA SaveOthers ==
  ASSUME IInv, NEW t \in Tasks, NEW rec, NEW es, Save(t, rec, es)
  PROVE  \A u \in Tasks : u # t => task'[u] = task[u] /\ executions'[u] = executions[u]
  BY DEF Save, IInv, TypeOK

\* One row is saved, by a thread that is not in charge of another one.
LEMMA SaveLeaves ==
  ASSUME IInv, NEW a, NEW t \in Tasks, NEW rec, NEW es, Save(t, rec, es), LeftWell(a, t),
         a \in Threads => thread[a].pc \notin {"run", "claim", "claiming"} \/ thread[a].task = t
  PROVE  LeavesWell(a)
  <1>1. \A u \in Tasks : u # t => Undone(a, u)
    BY SaveOthers DEF Undone
  <1>2. \A u \in Tasks : u # t => NotMine(a, u)
    BY DEF NotMine, Runs, Claims
  <1>3. ASSUME NEW u \in Tasks PROVE LeftWell(a, u) \/ (Undone(a, u) /\ NotMine(a, u))
    <2>1. CASE u = t
      BY <2>1
    <2>2. CASE u # t
      BY <1>1, <1>2, <2>2
    <2>3. QED
      BY <2>1, <2>2
  <1>4. QED
    BY <1>3 DEF LeavesWell

LEMMA IdleLeaves ==
  ASSUME NEW a, UNCHANGED <<task, executions>>,
         a \in Threads => thread[a].pc \notin {"run", "claim", "claiming"}
  PROVE  LeavesWell(a)
  BY DEF LeavesWell, Undone, NotMine, Runs, Claims

LEMMA FinalizeSettled ==
  ASSUME NEW rec \in TaskRecord, NEW gaps, NEW candidate \in {"succeeded", "cancelled"} \cup Failures
  PROVE  \/ Finalize(rec, candidate, gaps).status # "running"
         \/ Finalize(rec, candidate, gaps).node = "human_intervention"
  BY FailuresAssumption DEF Finalize, TaskRecord

(* The flow leaves a task that waits for a human, or is over.               *)
LEMMA FlowSettled ==
  ASSUME NEW t \in Tasks, NEW rec \in TaskRecord, NEW result \in FlowResults(t, rec)
  PROVE  \/ result.status # "running"
         \/ result.node \in {"human_execution", "human_intervention"}
  <1>1. CASE WaitsForHuman(t, rec)
    BY <1>1 DEF FlowResults, WaitsForHuman
  <1>2. CASE result \in Pauses(t, rec)
    <2>1. PICK H : result = [AddRound(rec, H) EXCEPT !.node = "human_execution"]
      BY <1>2 DEF Pauses
    <2>2. QED
      BY <2>1, AddRoundType DEF TaskRecord
  <1>3. CASE result \in FailedRounds(t, rec)
    <2>1. PICK H : result = Finalize(AddRound(rec, H), "failed", FALSE)
      BY <1>3 DEF FailedRounds
    <2>2. QED
      BY <2>1, AddRoundType, FinalizeSettled, FailuresAssumption
  <1>4. CASE result \in Proposals(t, rec)
    <2>1. PICK w \in Worked(t, rec), gaps \in BOOLEAN : result = Finalize(w, "succeeded", gaps)
      BY <1>4 DEF Proposals
    <2>2. QED
      BY <2>1, WorkedType, FinalizeSettled
  <1>5. CASE result \in DeadEnds(t, rec)
    <2>1. CASE \E f \in Failures : result = Finalize(rec, f, FALSE)
      BY <2>1, FinalizeSettled
    <2>2. CASE \E w \in Worked(t, rec) : result = [w EXCEPT !.node = "human_intervention"]
      BY <2>2, WorkedType DEF TaskRecord
    <2>3. QED
      BY <1>5, <2>1, <2>2 DEF DeadEnds
  <1>6. QED
    BY <1>1, <1>2, <1>3, <1>4, <1>5 DEF FlowResults

LEMMA FRow ==
  ASSUME FInv, NEW t \in Tasks
  PROVE  /\ IInv /\ HInv /\ PInv /\ task[t] \in TaskRecord /\ RowOK(task[t], executions[t])
         /\ Owed(task[t]) /\ StandsOn(t) /\ GoingOn(t)
         /\ executions[t] \in Seq(Execution) /\ task[t].active = Len(executions[t])
  BY DEF FInv, HInv, PInv, IInv, TypeOK, RowOK, HistoryOf

\* The result of a flow or a verdict is saved.
LEMMA ResultLeaves ==
  ASSUME FInv, NEW a \in Threads, NEW t \in Tasks, NEW rec, NEW es, Save(t, rec, es),
         rec.contract \/ rec.status # "running",
         rec.status # "running" \/ rec.node \in {"human_execution", "human_intervention"},
         thread[a].pc = "idle" \/ thread[a].task = t
  PROVE  LeavesWell(a)
  <1>1. IInv /\ task'[t] = rec
    BY FRow, SaveRow
  <1>2. LeftWell(a, t)
    BY <1>1 DEF LeftWell
  <1>3. QED
    BY <1>1, <1>2, SaveLeaves

LEMMA CreateLeaves ==
  ASSUME FInv, NEW t \in Tasks, CreateRequest(t)
  PROVE  LeavesWell(NoThread)
  <1> DEFINE rec == [task[t] EXCEPT !.status = "running"]
  <1>1. IInv /\ task[t] \in TaskRecord /\ RowOK(task[t], executions[t])
        /\ task' = [task EXCEPT ![t] = rec] /\ UNCHANGED executions
    BY FRow DEF CreateRequest
  <1>2. rec.node = "human_confirmation"
    BY <1>1 DEF CreateRequest, RowOK, DraftOf, TaskRecord
  <1> HIDE DEF rec
  <1>3. task'[t] = rec /\ \A u \in Tasks : u # t => task'[u] = task[u]
    BY <1>1, OneRow
  <1>4. LeftWell(NoThread, t)
    BY <1>2, <1>3 DEF LeftWell
  <1>5. ASSUME NEW u \in Tasks, u # t PROVE Undone(NoThread, u) /\ NotMine(NoThread, u)
    BY <1>1, <1>3, <1>5, NoThreadAssumption DEF Undone, NotMine
  <1>6. ASSUME NEW u \in Tasks
        PROVE  LeftWell(NoThread, u) \/ (Undone(NoThread, u) /\ NotMine(NoThread, u))
    <2>1. CASE u = t
      BY <1>4, <2>1
    <2>2. CASE u # t
      BY <1>5, <2>2
    <2>3. QED
      BY <2>1, <2>2
  <1>7. QED
    BY <1>6 DEF LeavesWell

LEMMA CancelLeaves ==
  ASSUME FInv, NEW t \in Tasks, CancelUnconfirmed(t)
  PROVE  LeavesWell(NoThread)
  <1> DEFINE rec == Finalize(task[t], "cancelled", FALSE)
  <1>1. IInv /\ task[t] \in TaskRecord /\ Save(t, rec, executions[t])
    BY FRow DEF CancelUnconfirmed
  <1>2. rec.status = "cancelled"
    BY <1>1 DEF Finalize, TaskRecord
  <1> HIDE DEF rec
  <1>3. LeftWell(NoThread, t)
    BY <1>1, <1>2, SaveRow DEF LeftWell
  <1>4. QED
    BY <1>1, <1>3, SaveLeaves, NoThreadAssumption

LEMMA BeginLeaves ==
  ASSUME NEW a \in Threads, NEW t \in Tasks, ConfirmBegin(a, t) \/ RerunBegin(a, t)
  PROVE  LeavesWell(a)
  BY IdleLeaves DEF ConfirmBegin, RerunBegin

\* A fresh attempt has not started.
LEMMA FreshLeaves ==
  ASSUME FInv, NEW a \in Threads, NEW t \in Tasks, NEW rec, NEW es, Save(t, rec, es),
         Touches(a), rec.active # task[t].active, rec.node \in Early, rec.contract,
         thread[a].task = t
  PROVE  LeavesWell(a)
  <1>1. IInv /\ task'[t] = rec
    BY FRow, SaveRow
  <1>2. RowOK(task'[t], executions'[t])
    BY <1>1, TouchesRows
  <1>3. task'[t].status = "running" => ~HasStarted(executions'[t])
    BY <1>1, <1>2, LiveBefore DEF RowOK, HistoryOf
  <1>4. LeftWell(a, t)
    BY <1>1, <1>3 DEF LeftWell
  <1>5. QED
    BY <1>1, <1>4, SaveLeaves

LEMMA ConfirmEndLeaves ==
  ASSUME FInv, NEW a \in Threads, NEW mode, ConfirmEnd(a, mode)
  PROVE  LeavesWell(a)
  <1> DEFINE s == thread[a]
             t == s.task
             rec == [task[t] EXCEPT
                       !.contract = TRUE, !.active = 1,
                       !.node = IF s.sat THEN "dispatch_decision" ELSE "waiting_dependencies"]
  <1>1. IInv /\ t \in Tasks /\ s.pc = "confirm" /\ HolderOK(a) /\ task[t] \in TaskRecord
        /\ Save(t, rec, Append(executions[t], NewExecution(rec, NoKey, 0)))
    BY DEF FInv, HInv, IInv, TypeOK, ConfirmEnd, ThreadState
  <1>2. task[t].active = 0
    BY <1>1, RunningRow DEF HolderOK
  <1>3. rec.active = 1 /\ rec.node \in Early /\ rec.contract
    BY <1>1 DEF TaskRecord, Early
  <1>4. Touches(a)
    BY <1>1, ConfirmEndMoves
  <1> HIDE DEF rec
  <1>5. QED
    BY <1>1, <1>2, <1>3, <1>4, FreshLeaves

LEMMA RerunEndLeaves ==
  ASSUME FInv, NEW a \in Threads, NEW k \in Keys, NEW source \in Nat, RerunEnd(a, k, source)
  PROVE  LeavesWell(a)
  <1> DEFINE s == thread[a]
             t == s.task
             es == executions[t]
             rec == [task[t] EXCEPT
                       !.status = "running", !.active = Len(es) + 1,
                       !.node = IF s.sat THEN "dispatch_decision" ELSE "waiting_dependencies",
                       !.rounds = <<>>, !.awaiting = FALSE, !.depctx = FALSE]
  <1>1. IInv /\ t \in Tasks /\ s.pc = "rerun" /\ HolderOK(a)
    BY DEF FInv, HInv, IInv, TypeOK, RerunEnd, ThreadState
  <1>2. task[t] \in TaskRecord /\ task[t].contract /\ task[t].active = Len(es) /\ es \in Seq(Execution)
    BY <1>1, FRow DEF HolderOK
  <1>3. Touches(a)
    BY <1>1, RerunEndMoves
  <1>4. CASE UNCHANGED <<task, executions>>
    BY <1>1, <1>4, IdleLeaves
  <1>5. CASE Save(t, rec, Append(es, NewExecution(rec, k, source)))
    <2>1. rec.active = Len(es) + 1 /\ rec.node \in Early /\ rec.contract
      BY <1>2 DEF TaskRecord, Early
    <2> HIDE DEF rec
    <2>2. rec.active # task[t].active
      BY <1>2, <2>1
    <2>3. QED
      BY <1>1, <1>3, <1>5, <2>1, <2>2, FreshLeaves
  <1>6. QED
    BY <1>4, <1>5 DEF RerunEnd

LEMMA ClaimBeginLeaves ==
  ASSUME FInv, NEW a \in Threads, ClaimBegin(a)
  PROVE  LeavesWell(a)
  <1> DEFINE s == thread[a]
  <1>1. PICK t \in Tasks : t = s.task
    BY DEF FInv, HInv, IInv, TypeOK, ThreadState
  <1> DEFINE rec == task[t]
             es == executions[t]
             may == Runnable(t, s.exec) /\ DependenciesSatisfied(t)
             d == [s EXCEPT !.pc = "claiming"]
  <1>2. /\ IInv /\ s.pc = "claim" /\ RowOK(rec, es) /\ GoingOn(t) /\ StandsOn(t)
        /\ es \in Seq(Execution) /\ rec.active = Len(es) /\ s \in ThreadState
        /\ UNCHANGED <<task, executions>> /\ task \in [Tasks -> TaskRecord]
    BY <1>1, FRow DEF ClaimBegin, IInv, TypeOK
  <1>3. \A u \in Tasks : Undone(a, u)
    BY <1>2 DEF Undone
  <1>4. \A u \in Tasks : u # t => NotMine(a, u)
    BY <1>1, <1>2 DEF NotMine, Runs, Claims
  <1>5. ~Runs(a, t)
    BY <1>2 DEF Runs
  <1>6. ASSUME rec.status = "running", HasStarted(es), Claims(a, t), rec.node = "context_update"
        PROVE  LeftWell(a, t)
    <2>1. es # <<>> /\ rec.active # 0 /\ es[rec.active].status = "running"
          /\ ~es[rec.active].finished /\ rec.contract
      BY <1>2, <1>6 DEF RowOK, HistoryOf, HasStarted
    <2>2. DependenciesSatisfied(t)
      BY <1>2, <1>6, <2>1 DEF StandsOn
    <2>3. may /\ s.exec \in {0, rec.active}
      BY <1>6, <2>1, <2>2 DEF Runnable, Claims
    <2>4. ResumesAfterHumanRound(rec)
      BY <1>2, <1>6 DEF GoingOn
    <2>5. GoesTo(a, d) /\ d.pc = "claiming" /\ d.task = t /\ d.exec = s.exec
      BY <1>1, <1>2, <2>3 DEF ClaimBegin, ThreadState
    <2> HIDE DEF d
    <2>6. thread'[a] = d
      BY <1>2, <2>5, ThreadGoes
    <2>7. Claims(a, t)'
      BY <1>2, <2>3, <2>5, <2>6 DEF Claims
    <2>8. QED
      BY <1>2, <1>6, <2>1, <2>4, <2>7 DEF LeftWell
  <1>7. ASSUME NEW u \in Tasks PROVE LeftWell(a, u) \/ (Undone(a, u) /\ NotMine(a, u))
    <2>1. CASE u = t
      BY <1>3, <1>5, <1>6, <2>1 DEF NotMine
    <2>2. CASE u # t
      BY <1>3, <1>4, <2>2
    <2>3. QED
      BY <2>1, <2>2
  <1>8. QED
    BY <1>7 DEF LeavesWell

LEMMA ClaimEndLeaves ==
  ASSUME FInv, NEW a \in Threads, ClaimEnd(a)
  PROVE  LeavesWell(a)
  <1> DEFINE s == thread[a]
  <1>1. PICK t \in Tasks : t = s.task
    BY DEF FInv, HInv, IInv, TypeOK, ThreadState
  <1> DEFINE rec == task[t]
             es == executions[t]
             later == [rec EXCEPT !.node = "dispatch_decision"]
             run == Doing("run", t, rec.active, s.ready)
  <1>2. /\ IInv /\ s.pc = "claiming" /\ HolderOK(a) /\ rec \in TaskRecord /\ RowOK(rec, es)
        /\ GoingOn(t) /\ es \in Seq(Execution) /\ rec.active = Len(es)
    BY FRow DEF ClaimEnd, IInv
  <1>3. run.pc = "run" /\ run.task = t /\ run.exec = rec.active
    BY DEF Doing, Idle
  <1>4. later.active = rec.active /\ later.contract = rec.contract /\ later.node = "dispatch_decision"
    BY <1>2 DEF TaskRecord
  <1> HIDE DEF run, later
  <1>5. /\ rec.status = "running" /\ rec.active # 0 /\ rec.contract
        /\ HasStarted(es) <=> es[rec.active].started
        /\ ~HasStarted(es) => rec.node \in Early
    <2>1. rec.status = "running" /\ rec.active # 0
      BY <1>1, <1>2 DEF HolderOK
    <2>2. rec.contract /\ es # <<>> /\ (~HasStarted(es) => rec.node \in Early)
      BY <1>2, <2>1, RunningRow DEF Early
    <2>3. QED
      BY <1>2, <2>1, <2>2 DEF HasStarted
  <1>6. ASSUME GoesTo(a, run), NEW r, r.active = rec.active, task'[t] = r
        PROVE  Runs(a, t)'
    <2>1. thread'[a] = run
      BY <1>2, <1>6, ThreadGoes
    <2>2. QED
      BY <1>3, <1>6, <2>1 DEF Runs
  <1>7. CASE UNCHANGED <<task, executions>> /\ ~ResumesAfterHumanRound(rec)
    <2>1. rec.node # "context_update"
      BY <1>2, <1>5, <1>7 DEF GoingOn
    <2>2. \A u \in Tasks : NotMine(a, u)
      BY <1>1, <1>2, <2>1 DEF NotMine, Runs, Claims
    <2>3. \A u \in Tasks : Undone(a, u)
      BY <1>7 DEF Undone
    <2>4. QED
      BY <2>2, <2>3 DEF LeavesWell
  <1>8. CASE ~es[rec.active].started /\ Save(t, rec, MarkStarted(rec, es)) /\ GoesTo(a, run)
    <2>1. task'[t] = rec
      BY <1>2, <1>8, SaveRow
    <2>2. Runs(a, t)' /\ rec.node \in Early /\ rec.contract
      BY <1>5, <1>6, <1>8, <2>1
    <2>3. LeftWell(a, t)
      BY <2>1, <2>2 DEF LeftWell
    <2>4. QED
      BY <1>1, <1>2, <1>8, <2>3, SaveLeaves
  <1>9. CASE Save(t, later, es) /\ GoesTo(a, run)
    <2>1. task'[t] = later
      BY <1>2, <1>9, SaveRow
    <2>2. Runs(a, t)' /\ rec.contract
      BY <1>4, <1>5, <1>6, <1>9, <2>1
    <2>3. LeftWell(a, t)
      BY <1>4, <2>1, <2>2 DEF LeftWell, Early
    <2>4. QED
      BY <1>1, <1>2, <1>9, <2>3, SaveLeaves
  <1>10. QED
    BY <1>1, <1>7, <1>8, <1>9 DEF ClaimEnd, run, later

LEMMA RunLeaves ==
  ASSUME FInv, NEW a \in Threads, RunClaimed(a)
  PROVE  LeavesWell(a)
  <1> DEFINE s == thread[a]
             t == s.task
             rec == task[t]
             es == executions[t]
  <1>1. t \in Tasks /\ IInv /\ s.pc = "run"
    BY DEF FInv, HInv, IInv, TypeOK, ThreadState, RunClaimed
  <1>2. rec \in TaskRecord /\ RowOK(rec, es) /\ es \in Seq(Execution) /\ rec.active = Len(es)
    BY <1>1, FRow
  <1>3. CASE ~(Runnable(t, s.exec) /\ es[rec.active].started) /\ UNCHANGED <<task, executions>>
    <2>1. ~(rec.status = "running" /\ HasStarted(es) /\ s.exec = rec.active)
      <3> SUFFICES ASSUME rec.status = "running", HasStarted(es), s.exec = rec.active PROVE FALSE
        OBVIOUS
      <3>1. es # <<>> /\ rec.active # 0 /\ es[rec.active].status = "running"
            /\ ~es[rec.active].finished /\ es[rec.active].started
        BY <1>2 DEF RowOK, HistoryOf, HasStarted
      <3>2. QED
        BY <1>3, <3>1 DEF Runnable
    <2>2. \A u \in Tasks : NotMine(a, u)
      BY <1>1, <2>1 DEF NotMine, Runs, Claims
    <2>3. \A u \in Tasks : Undone(a, u)
      BY <1>3 DEF Undone
    <2>4. QED
      BY <2>2, <2>3 DEF LeavesWell
  <1>4. CASE /\ Runnable(t, s.exec)
             /\ \E result \in FlowResults(t, rec) \cup {Finalize(rec, "failed", FALSE)} :
                  Save(t, result, es)
    <2>1. PICK result \in FlowResults(t, rec) \cup {Finalize(rec, "failed", FALSE)} :
            Save(t, result, es)
      BY <1>4
    <2>2. rec.contract /\ rec.node # "human_confirmation"
      BY <1>1, <1>4, RunningRow DEF Runnable
    <2>3. /\ result.contract = rec.contract
          /\ result.status # "running" \/ result.node \in {"human_execution", "human_intervention"}
      <3>1. CASE result \in FlowResults(t, rec)
        BY <1>1, <1>2, <2>2, <3>1, FlowType, FlowSettled DEF SameTask
      <3>2. CASE result = Finalize(rec, "failed", FALSE)
        BY <1>2, <3>2 DEF Finalize, TaskRecord
      <3>3. QED
        BY <2>1, <3>1, <3>2
    <2>4. QED
      BY <1>1, <2>1, <2>2, <2>3, ResultLeaves
  <1>5. QED
    BY <1>3, <1>4 DEF RunClaimed

LEMMA ResumeScanLeaves ==
  ASSUME NEW a \in Threads, NEW t \in Tasks, ResumeScan(a, t)
  PROVE  LeavesWell(a)
  BY IdleLeaves DEF ResumeScan

LEMMA ReleaseLeaves ==
  ASSUME FInv, NEW a \in Threads, Release(a)
  PROVE  LeavesWell(a)
  <1>0. PICK t \in Tasks : t = thread[a].task
    BY DEF FInv, HInv, IInv, TypeOK, ThreadState
  <1> DEFINE rec == [task[t] EXCEPT !.depctx = TRUE]
             es == executions[t]
  <1>1. IInv /\ task[t] \in TaskRecord /\ RowOK(task[t], es) /\ thread[a].pc = "release"
        /\ es \in Seq(Execution) /\ task[t].active = Len(es) /\ HolderOK(a)
    BY FRow DEF Release, IInv
  <1>2. \A u \in Tasks : NotMine(a, u)
    BY <1>1 DEF NotMine, Runs, Claims
  <1>3. Save(t, rec, es) /\ task[t].status = "running"
    BY <1>0, <1>1 DEF Release, HolderOK
  <1>4. LeavesWell(a)
    <2>1. /\ rec.status = task[t].status /\ rec.node = task[t].node /\ rec.active = task[t].active
          /\ rec.contract = task[t].contract /\ rec.rounds = task[t].rounds /\ rec \in TaskRecord
      BY <1>1 DEF TaskRecord
    <2> HIDE DEF rec
    <2>2. task'[t] = rec /\ executions'[t] = SyncProjection(rec, es)
      BY <1>1, <1>3, SaveRow
    <2>3. HasStarted(executions'[t]) <=> HasStarted(es)
      <3>1. CASE es = <<>>
        <4>1. Len(es) = 0 /\ rec.active = 0
          BY <1>1, <2>1, <3>1
        <4>2. SyncProjection(rec, es) = es
          BY <4>1 DEF SyncProjection
        <4>3. executions'[t] = es
          BY <2>2, <4>2
        <4>4. QED
          BY <4>3
      <3>2. CASE es # <<>>
        <4>1. ~es[Len(es)].finished /\ es[Len(es)] \in Execution
          BY <1>1, <1>3, <3>2 DEF RowOK, HistoryOf
        <4>2. /\ executions'[t] \in Seq(Execution) /\ Len(executions'[t]) = Len(es)
              /\ executions'[t][Len(es)] = Projection(rec, es[Len(es)])
          <5> DEFINE sp == SyncProjection(rec, es)
          <5>1. rec \in TaskRecord /\ es \in Seq(Execution) /\ rec.active = Len(es)
            BY <1>1, <2>1
          <5>2. sp \in Seq(Execution) /\ Len(sp) = Len(es) /\ sp[Len(es)] = Projection(rec, es[Len(es)])
            BY <3>2, <4>1, <5>1, SyncFacts
          <5> HIDE DEF sp
          <5>3. executions'[t] = sp
            BY <2>2 DEF sp
          <5>4. QED
            BY <5>2, <5>3
        <4>3. Projection(rec, es[Len(es)]).started = es[Len(es)].started
          BY <2>1, <4>1, ProjectionType
        <4>4. QED
          BY <1>1, <3>2, <4>2, <4>3 DEF HasStarted
      <3>3. QED
        BY <3>1, <3>2
    <2>4. Undone(a, t)
      BY <2>1, <2>2, <2>3 DEF Undone
    <2>5. \A u \in Tasks : u # t => Undone(a, u)
      BY <1>1, <1>3, SaveOthers DEF Undone
    <2>6. ASSUME NEW u \in Tasks PROVE Undone(a, u)
      <3>1. CASE u = t
        BY <2>4, <3>1
      <3>2. CASE u # t
        BY <2>5, <3>2
      <3>3. QED
        BY <3>1, <3>2
    <2>7. QED
      BY <1>2, <2>6 DEF LeavesWell
  <1>5. QED
    BY <1>4

LEMMA ResumeNextLeaves ==
  ASSUME NEW a \in Threads, ResumeNext(a)
  PROVE  LeavesWell(a)
  BY IdleLeaves DEF ResumeNext

LEMMA SubmitResultLeaves ==
  ASSUME Durable, FInv, NEW a \in Threads, NEW t \in Tasks, NEW result \in Results, NEW complete,
         SubmitResult(a, t, result, complete)
  PROVE  LeavesWell(a)
  <1> DEFINE rec == task[t]
  <1>1. rec \in TaskRecord /\ thread[a].pc = "idle" /\ rec.contract
        /\ rec.node = "human_intervention"
    BY FRow DEF SubmitResult
  <1>2. CASE \E gaps \in BOOLEAN : Save(t, Finalize(rec, result, gaps), executions[t])
    <2>1. PICK gaps \in BOOLEAN : Save(t, Finalize(rec, result, gaps), executions[t])
      BY <1>2
    <2>2. Finalize(rec, result, gaps).contract = rec.contract
          /\ (\/ Finalize(rec, result, gaps).status # "running"
              \/ Finalize(rec, result, gaps).node = "human_intervention")
      BY <1>1, FinalizeType, FinalizeSettled DEF Results
    <2>3. QED
      BY <1>1, <2>1, <2>2, ResultLeaves
  <1>3. CASE \E out \in FlowResults(t, rec) : Save(t, out, MarkStarted(rec, executions[t]))
    <2>1. PICK out \in FlowResults(t, rec) : Save(t, out, MarkStarted(rec, executions[t]))
      BY <1>3
    <2>2. out.contract = rec.contract
          /\ (out.status # "running" \/ out.node \in {"human_execution", "human_intervention"})
      BY <1>1, FlowType, FlowSettled DEF SameTask
    <2>3. QED
      BY <1>1, <2>1, <2>2, ResultLeaves
  <1>4. CASE /\ \E out \in LeftByRaise(t, rec) : task' = [task EXCEPT ![t] = out]
             /\ UNCHANGED executions
    <2>1. task' = task
      BY <1>4 DEF LeftByRaise, FInv, HInv, IInv, TypeOK
    <2>2. QED
      BY <1>1, <1>4, <2>1, IdleLeaves
  <1>5. QED
    BY <1>2, <1>3, <1>4 DEF SubmitResult

(* A first result reaches the last round; who posts the last one of it      *)
(* claims the execution, and what is claimed can be resumed.                *)
LEMMA SubtaskResultLeaves ==
  ASSUME Durable, Resubmit = FALSE, FInv, NEW a \in Threads, NEW t \in Tasks,
         NEW i \in DOMAIN task[t].rounds, NEW h \in Slots, NEW result \in Results, NEW mode,
         SubmitSubtaskResult(a, t, i, h, result, mode)
  PROVE  LeavesWell(a)
  <1> DEFINE rec == task[t]
             posted == [rec EXCEPT !.rounds[i][h] = result]
             merged == [posted EXCEPT !.node = "context_update"]
             paused == [posted EXCEPT !.node = "human_execution"]
             rs == [rec.rounds EXCEPT ![i][h] = result]
  <1>1. thread[a].pc = "idle" /\ rec.status = "running" /\ rec.rounds[i][h] = "running"
    BY DEF SubmitSubtaskResult
  <1>2. IInv /\ rec \in TaskRecord /\ Owed(rec) /\ GoingOn(t)
    BY FRow
  <1>3. rec.rounds \in Seq(Round) /\ i = Len(rec.rounds) /\ i \in 1..Len(rec.rounds)
        /\ rec.node = "human_execution"
    <2>1. rec.rounds \in Seq(Round) /\ i \in 1..Len(rec.rounds)
      BY <1>2 DEF TaskRecord
    <2>2. Running(rec.rounds[i])
      BY <1>1 DEF Running
    <2>3. QED
      BY <1>1, <1>2, <2>1, <2>2 DEF Owed, HasRunningHuman
  <1>4. rec.contract
    BY <1>1, <1>2, <1>3 DEF GoingOn
  <1>5. rs \in Seq(Round) /\ Len(rs) = Len(rec.rounds) /\ rs[i][h] = result
    <2>1. rec.rounds[i] \in Round /\ result \in SubtaskStatus
      BY <1>3 DEF Results, SubtaskStatus
    <2>2. [rec.rounds[i] EXCEPT ![h] = result] \in Round
          /\ [rec.rounds[i] EXCEPT ![h] = result][h] = result
      BY <2>1 DEF Round
    <2>3. QED
      BY <1>3, <2>2
  <1>6. posted = [rec EXCEPT !.rounds = rs]
    OBVIOUS
  <1> HIDE DEF rs, posted
  <1>7. /\ posted \in TaskRecord /\ posted.rounds = rs /\ posted.contract
        /\ posted.status = "running" /\ posted.active = rec.active
    BY <1>1, <1>2, <1>4, <1>5, <1>6 DEF TaskRecord
  <1>8. /\ merged \in TaskRecord /\ merged.rounds = rs /\ merged.node = "context_update"
        /\ merged.contract /\ merged.status = "running"
    BY <1>7 DEF TaskRecord, Node
  <1>9. paused.node = "human_execution" /\ paused.contract
    BY <1>7 DEF TaskRecord
  <1>10. RoundHasRunningSubtasks(posted, i) <=> Running(rs[i])
    BY <1>7 DEF RoundHasRunningSubtasks
  <1> HIDE DEF merged, paused
  <1>11. CASE /\ result # "succeeded"
              /\ Save(t, Finalize(merged, result, FALSE), executions[t])
    <2>1. Finalize(merged, result, FALSE).status # "running"
      BY <1>8, <1>11, FailuresAssumption DEF Finalize, TaskRecord, Results
    <2>2. QED
      BY <1>1, <1>11, <2>1, ResultLeaves
  <1>12. CASE Save(t, paused, executions[t])
    BY <1>1, <1>9, <1>12, ResultLeaves
  <1>13. CASE /\ result = "succeeded" /\ ~RoundHasRunningSubtasks(posted, i)
              /\ Save(t, merged, executions[t])
              /\ GoesTo(a, Doing("claim", t, 0, {}))
    <2>1. ResumesAfterHumanRound(merged)
      <3>1. ~Running(rs[i]) /\ Human(rs[i])
        BY <1>5, <1>10, <1>13 DEF Human
      <3>2. QED
        BY <1>3, <1>5, <1>8, <3>1 DEF ResumesAfterHumanRound
    <2>2. task'[t] = merged
      BY <1>2, <1>13, SaveRow
    <2>3. Claims(a, t)'
      <3>1. thread'[a] = Doing("claim", t, 0, {})
        BY <1>2, <1>13, ThreadGoes
      <3>2. QED
        BY <3>1 DEF Claims, Doing, Idle
    <2>4. LeftWell(a, t)
      BY <1>8, <2>1, <2>2, <2>3 DEF LeftWell
    <2>5. QED
      BY <1>1, <1>2, <1>13, <2>4, SaveLeaves
  <1>14. CASE \E out \in FlowResults(t, merged) : Save(t, out, MarkStarted(merged, executions[t]))
    <2>1. PICK out \in FlowResults(t, merged) : Save(t, out, MarkStarted(merged, executions[t]))
      BY <1>14
    <2>2. out.contract /\ (out.status # "running" \/ out.node \in {"human_execution", "human_intervention"})
      BY <1>8, FlowType, FlowSettled DEF SameTask
    <2>3. QED
      BY <1>1, <2>1, <2>2, ResultLeaves
  <1>15. CASE /\ \E out \in LeftByRaise(t, merged) : task' = [task EXCEPT ![t] = out]
              /\ UNCHANGED executions
    <2>1. task' = task
      BY <1>15 DEF LeftByRaise, FInv, HInv, IInv, TypeOK
    <2>2. QED
      BY <1>1, <1>15, <2>1, IdleLeaves
  <1>16. QED
    BY <1>11, <1>12, <1>13, <1>14, <1>15 DEF SubmitSubtaskResult, posted, merged, paused
-----------------------------------------------------------------------------
(* The invariant, and what it says of tasks under way. *)

LEMMA RequestLeaves ==
  ASSUME Durable, Resubmit = FALSE, FInv, NEW a \in Threads, NEW t \in Tasks, Request(a, t)
  PROVE  LeavesWell(a)
  BY BeginLeaves, SubmitResultLeaves, SubtaskResultLeaves DEF Request

LEMMA ThreadStepLeaves ==
  ASSUME FInv, NEW a \in Threads, ThreadStep(a)
  PROVE  LeavesWell(a)
  <1>1. ASSUME NEW k \in Keys, NEW source \in DOMAIN executions[thread[a].task],
               RerunEnd(a, k, source)
        PROVE  LeavesWell(a)
    <2>1. source \in Nat
      BY DEF FInv, HInv, IInv, TypeOK, ThreadState
    <2>2. QED
      BY <1>1, <2>1, RerunEndLeaves
  <1>2. QED
    BY <1>1, ConfirmEndLeaves, ClaimBeginLeaves, ClaimEndLeaves, RunLeaves, ResumeScanLeaves,
       ReleaseLeaves, ResumeNextLeaves DEF ThreadStep

LEMMA OperationGoesOn ==
  ASSUME Durable, Resubmit = FALSE, FInv, Operation, NEW t \in Tasks
  PROVE  GoingOn(t)'
  <1>1. IInv
    BY DEF FInv, HInv
  <1>2. CASE \E u \in Tasks : CreateRequest(u) \/ CancelUnconfirmed(u)
    <2>1. LeavesWell(NoThread)
      BY <1>2, CreateLeaves, CancelLeaves
    <2>2. UNCHANGED thread
      BY <1>2 DEF CreateRequest, CancelUnconfirmed
    <2>3. QED
      BY <2>1, <2>2, LeavesGoing
  <1>3. ASSUME NEW a \in Threads, LeavesWell(a), Moves(a) PROVE GoingOn(t)'
    <2>1. \A th \in Threads \ {a} : thread'[th] = thread[th]
      BY <1>1, <1>3 DEF Moves, IInv, TypeOK
    <2>2. QED
      BY <1>3, <2>1, LeavesGoing
  <1>4. CASE \E th \in Threads, u \in Tasks : Request(th, u)
    BY <1>1, <1>3, <1>4, RequestMoves, RequestLeaves
  <1>5. CASE \E th \in Threads : ThreadStep(th)
    BY <1>1, <1>3, <1>5, ThreadStepMoves, ThreadStepLeaves
  <1>6. QED
    BY <1>2, <1>4, <1>5 DEF Operation

LEMMA OperationFInv ==
  ASSUME Durable, Resubmit = FALSE, FInv, [Operation]_vars, [PrerequisitesKept]_vars
  PROVE  FInv'
  <1>1. CASE UNCHANGED vars
    <2>1. HInv' /\ PInv'
      BY <1>1, StutterHeld, StutterPInv DEF FInv
    <2>2. ASSUME NEW t \in Tasks PROVE GoingOn(t)'
      <3>1. LeavesWell(NoThread) /\ \A th \in Threads \ {NoThread} : thread'[th] = thread[th]
        BY <1>1, IdleLeaves, NoThreadAssumption DEF vars
      <3>2. QED
        BY <3>1, LeavesGoing
    <2>3. QED
      BY <2>1, <2>2 DEF FInv
  <1>2. CASE Operation /\ ~UNCHANGED vars
    <2>1. HInv' /\ PInv'
      BY <1>2, OperationHeld, OperationPInv DEF FInv
    <2>2. QED
      BY <1>2, <2>1, OperationGoesOn DEF FInv
  <1>3. QED
    BY <1>1, <1>2

LEMMA FInvHolds ==
  ASSUME FInv
  PROVE  UnsettledHeld
  <1> SUFFICES ASSUME NEW t \in Tasks, ~Settled(t)
               PROVE  \E th \in Threads : Claims(th, t) \/ Carries(th, t) \/ Runs(th, t)
    BY DEF UnsettledHeld
  <1>1. /\ HInv /\ IInv /\ GoingOn(t) /\ RowOK(task[t], executions[t]) /\ StandsOn(t)
        /\ task[t] \in TaskRecord
    BY FRow
  <1>2. task[t].status = "running"
        /\ task[t].node \in {"dispatch_decision", "subtask_execution", "context_update", "completion_judge"}
    BY <1>1 DEF Settled, TaskRecord, Node
  <1>3. task[t].contract /\ executions[t] # <<>>
    BY <1>1, <1>2 DEF GoingOn, RowOK, HistoryOf
  <1>4. CASE HasStarted(executions[t])
    BY <1>1, <1>2, <1>4 DEF GoingOn, Early
  <1>5. CASE ~HasStarted(executions[t])
    <2>1. task[t].node = "dispatch_decision"
      BY <1>1, <1>2, <1>3, <1>5 DEF RowOK, UnstartedOf
    <2>2. DependenciesSatisfied(t)
      BY <1>1, <1>2, <1>3, <2>1 DEF StandsOn
    <2>3. Ready(t)
      BY <1>1, <1>2, <1>3, <1>5, <2>2, ReadyRow
    <2>4. QED
      BY <1>1, <2>1, <2>3 DEF HInv, ReadyHeld, Takes
  <1>6. QED
    BY <1>4, <1>5

(* While no prerequisite is rerun and no result posted twice, a confirmed   *)
(* task that neither ended nor waits for somebody is always in the hands of *)
(* a thread that will claim it, or has claimed it and runs its flow: what   *)
(* FlowSettles rests on, for any number of tasks, threads and rounds.       *)
THEOREM UnsettledTasksAreHeld ==
  ASSUME Resubmit = FALSE, Durable
  PROVE  Init /\ [][Operation]_vars /\ [][PrerequisitesKept]_vars => []UnsettledHeld
  <1>1. Init => FInv
    <2>1. Init => \A t \in Tasks : GoingOn(t)
      BY DEF Init, Absent, GoingOn
    <2>2. QED
      BY <2>1, InitPInv, InitHeld DEF FInv
  <1>2. FInv /\ [Operation]_vars /\ [PrerequisitesKept]_vars => FInv'
    BY OperationFInv
  <1>3. FInv => UnsettledHeld
    BY FInvHolds
  <1>4. QED
    BY <1>1, <1>2, <1>3, PTL

(* With one attempt a task no assumption on the behaviour is left here      *)
(* either.                                                                  *)
THEOREM OneAttemptUnsettledHeld ==
  ASSUME Resubmit = FALSE, Durable, \A t \in Tasks : MaxAttempts[t] <= 1
  PROVE  UpSpec => []UnsettledHeld
  <1>1. Init => FInv /\ NobodyReruns
    <2>1. Init => \A t \in Tasks : GoingOn(t)
      BY DEF Init, Absent, GoingOn
    <2>2. Idle.pc = "idle"
      BY DEF Idle
    <2>3. QED
      BY <2>1, <2>2, InitPInv, InitHeld DEF FInv, Init, NobodyReruns
  <1>2. FInv /\ NobodyReruns /\ [Operation]_vars => FInv' /\ NobodyReruns'
    <2> SUFFICES ASSUME FInv, NobodyReruns, [Operation]_vars PROVE FInv' /\ NobodyReruns'
      OBVIOUS
    <2>1. HInv /\ IInv
      BY DEF FInv, HInv
    <2>2. NobodyReruns'
      BY <2>1, OneAttempt
    <2>3. [PrerequisitesKept]_vars
      BY <2>1, OneAttemptKept
    <2>4. QED
      BY <2>2, <2>3, OperationFInv
  <1>3. FInv => UnsettledHeld
    BY FInvHolds
  <1>4. QED
    BY <1>1, <1>2, <1>3, PTL DEF UpSpec
=============================================================================
