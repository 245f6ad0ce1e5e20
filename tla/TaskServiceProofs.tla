-------------------------- MODULE TaskServiceProofs --------------------------
(* Proofs about TaskService for every set of tasks, threads and keys and    *)
(* every bound.                                                             *)
EXTENDS TaskService, SequenceTheorems, TLAPS

(* Finalization and the flow leave the identity of a task alone: its        *)
(* contract and active execution stay, and its status stays or ends.        *)
SameTask(rec, result) ==
  /\ result \in TaskRecord
  /\ result.active = rec.active
  /\ result.contract = rec.contract
  /\ result.node # "human_confirmation"
  /\ result.status \in {rec.status, "succeeded"} \cup Failures

LEMMA FinalizeType ==
  ASSUME NEW rec \in TaskRecord, NEW gaps,
         NEW candidate \in {"succeeded", "cancelled"} \cup Failures
  PROVE  /\ Finalize(rec, candidate, gaps) \in TaskRecord
         /\ Finalize(rec, candidate, gaps).active = rec.active
         /\ Finalize(rec, candidate, gaps).contract = rec.contract
         /\ Finalize(rec, candidate, gaps).rounds = rec.rounds
         /\ Finalize(rec, candidate, gaps).node \in {"human_intervention", "completion_judge"}
         /\ Finalize(rec, candidate, gaps).status \in {rec.status, candidate}
  BY FailuresAssumption DEF Finalize, TaskRecord, Node, Status

LEMMA NewRoundType == ASSUME NEW H PROVE NewRound(H) \in Round
  BY DEF NewRound, Round, SubtaskStatus

LEMMA AddRoundType ==
  ASSUME NEW rec \in TaskRecord, NEW H
  PROVE  /\ AddRound(rec, H) \in TaskRecord
         /\ AddRound(rec, H).active = rec.active
         /\ AddRound(rec, H).contract = rec.contract
         /\ AddRound(rec, H).status = rec.status
         /\ AddRound(rec, H).node = rec.node
  BY NewRoundType DEF AddRound, TaskRecord

LEMMA WorkedType ==
  ASSUME NEW t \in Tasks, NEW rec \in TaskRecord, NEW w \in Worked(t, rec)
  PROVE  /\ w \in TaskRecord
         /\ w.active = rec.active
         /\ w.contract = rec.contract
         /\ w.status = rec.status
         /\ w.node = rec.node
  <1>1. CASE w = rec
    BY <1>1
  <1>2. CASE \E H : w = AddRound(rec, H)
    BY <1>2, AddRoundType
  <1>3. QED
    BY <1>1, <1>2 DEF Worked

(* A finalized version of a task is the same task.                          *)
LEMMA FinalizeSame ==
  ASSUME NEW rec \in TaskRecord, NEW w \in TaskRecord, NEW gaps,
         NEW candidate \in {"succeeded"} \cup Failures,
         w.active = rec.active, w.contract = rec.contract, w.status = rec.status
  PROVE  SameTask(rec, Finalize(w, candidate, gaps))
  BY FinalizeType DEF SameTask

LEMMA FlowType ==
  ASSUME NEW t \in Tasks, NEW rec \in TaskRecord, rec.node # "human_confirmation",
         NEW result \in FlowResults(t, rec)
  PROVE  SameTask(rec, result)
  <1>1. CASE result = rec
    BY <1>1 DEF SameTask
  <1>2. CASE result \in Pauses(t, rec)
    <2>1. PICK H : result = [AddRound(rec, H) EXCEPT !.node = "human_execution"]
      BY <1>2 DEF Pauses
    <2>2. QED
      BY <2>1, AddRoundType DEF SameTask, TaskRecord, Node
  <1>3. CASE result \in FailedRounds(t, rec)
    <2>1. PICK H : result = Finalize(AddRound(rec, H), "failed", FALSE)
      BY <1>3 DEF FailedRounds
    <2>2. QED
      BY <2>1, AddRoundType, FinalizeSame, FailuresAssumption
  <1>4. CASE result \in Proposals(t, rec)
    <2>1. PICK w \in Worked(t, rec), gaps \in BOOLEAN : result = Finalize(w, "succeeded", gaps)
      BY <1>4 DEF Proposals
    <2>2. QED
      BY <2>1, WorkedType, FinalizeSame
  <1>5. CASE result \in DeadEnds(t, rec)
    <2>1. CASE \E f \in Failures : result = Finalize(rec, f, FALSE)
      BY <2>1, FinalizeSame
    <2>2. CASE \E w \in Worked(t, rec) : result = [w EXCEPT !.node = "human_intervention"]
      <3>1. PICK w \in Worked(t, rec) : result = [w EXCEPT !.node = "human_intervention"]
        BY <2>2
      <3>2. QED
        BY <3>1, WorkedType DEF SameTask, TaskRecord, Node
    <2>3. QED
      BY <1>5, <2>1, <2>2 DEF DeadEnds
  <1>6. QED
    BY <1>1, <1>2, <1>3, <1>4, <1>5 DEF FlowResults
-----------------------------------------------------------------------------
(* The projection of a task onto its executions reaches the last one only,  *)
(* and only while it is open.                                               *)
LEMMA ProjectionType ==
  ASSUME NEW rec \in TaskRecord, NEW e \in Execution
  PROVE  /\ Projection(rec, e) \in Execution
         /\ Projection(rec, e).status = rec.status
         /\ Projection(rec, e).node = rec.node
         /\ Projection(rec, e).rounds = rec.rounds
         /\ Projection(rec, e).finished <=> rec.status # "running"
         /\ Projection(rec, e).started = e.started
         /\ Projection(rec, e).key = e.key
  BY DEF Projection, TaskRecord, Execution

LEMMA SyncFacts ==
  ASSUME NEW rec \in TaskRecord, NEW es \in Seq(Execution), rec.active = Len(es)
  PROVE  /\ SyncProjection(rec, es) \in Seq(Execution)
         /\ Len(SyncProjection(rec, es)) = Len(es)
         /\ \A n \in 1..Len(es) :
              n # Len(es) \/ es[n].finished => SyncProjection(rec, es)[n] = es[n]
         /\ es # <<>> /\ ~es[Len(es)].finished =>
              SyncProjection(rec, es)[Len(es)] = Projection(rec, es[Len(es)])
  <1>1. CASE rec.active = 0 \/ es[rec.active].finished
    <2>1. SyncProjection(rec, es) = es
      BY <1>1 DEF SyncProjection
    <2>2. es # <<>> => rec.active # 0
      OBVIOUS
    <2>3. QED
      BY <1>1, <2>1, <2>2
  <1>2. CASE ~(rec.active = 0 \/ es[rec.active].finished)
    <2>1. SyncProjection(rec, es) = [es EXCEPT ![Len(es)] = Projection(rec, es[Len(es)])]
      BY <1>2 DEF SyncProjection
    <2>2. Len(es) \in 1..Len(es) /\ es[Len(es)] \in Execution
      BY <1>2
    <2>3. Projection(rec, es[Len(es)]) \in Execution
      BY <2>2, ProjectionType
    <2> DEFINE e == Projection(rec, es[Len(es)])
    <2> HIDE DEF e
    <2>4. QED
      BY <1>2, <2>1, <2>2, <2>3 DEF e
  <1>3. QED
    BY <1>1, <1>2

LEMMA MarkStartedFacts ==
  ASSUME NEW rec \in TaskRecord, NEW es \in Seq(Execution), rec.active = Len(es)
  PROVE  /\ MarkStarted(rec, es) \in Seq(Execution)
         /\ Len(MarkStarted(rec, es)) = Len(es)
         /\ \A n \in 1..Len(es) : n # Len(es) => MarkStarted(rec, es)[n] = es[n]
         /\ es # <<>> => MarkStarted(rec, es)[Len(es)] = [es[Len(es)] EXCEPT !.started = TRUE]
         /\ es = <<>> \/ es[Len(es)].started => MarkStarted(rec, es) = es
  <1> DEFINE e == [es[Len(es)] EXCEPT !.started = TRUE]
  <1>1. MarkStarted(rec, es) = [es EXCEPT ![Len(es)] = e]
    BY DEF MarkStarted
  <1>2. CASE es = <<>>
    <2>1. MarkStarted(rec, es) = es
      BY <1>2 DEF MarkStarted
    <2>2. QED
      BY <1>2, <2>1
  <1>3. CASE es # <<>>
    <2>1. Len(es) \in 1..Len(es) /\ es[Len(es)] \in Execution
      BY <1>3
    <2>2. e \in Execution /\ (es[Len(es)].started => e = es[Len(es)])
      BY <2>1 DEF Execution
    <2> HIDE DEF e
    <2>3. [es EXCEPT ![Len(es)] = e] \in Seq(Execution)
          /\ Len([es EXCEPT ![Len(es)] = e]) = Len(es)
          /\ \A n \in 1..Len(es) : n # Len(es) => [es EXCEPT ![Len(es)] = e][n] = es[n]
          /\ [es EXCEPT ![Len(es)] = e][Len(es)] = e
      BY <2>1, <2>2
    <2>4. e = es[Len(es)] => [es EXCEPT ![Len(es)] = e] = es
      OBVIOUS
    <2>5. QED
      BY <1>1, <1>3, <2>2, <2>3, <2>4 DEF e
  <1>4. QED
    BY <1>2, <1>3
-----------------------------------------------------------------------------
(* The inductive invariant.  A row is a task with its executions; every     *)
(* step of the system changes one row at most.                              *)

HasStarted(es) == es # <<>> /\ es[Len(es)].started

(* Before its confirmation a task has no contract, and only an absent task  *)
(* or a running one can be a draft.                                         *)
DraftOf(rec) ==
  /\ rec.node = "human_confirmation" => ~rec.contract /\ rec.status \in {"absent", "running"}
  /\ rec.status = "absent" => rec.node = "human_confirmation"

(* Nothing has been worked on before an execution is started.               *)
UnstartedOf(rec, es) ==
  ~HasStarted(es) =>
    /\ rec.rounds = <<>>
    /\ es # <<>> => rec.node \in {"waiting_dependencies", "dispatch_decision"}
                    /\ rec.status = "running"

KeysOf(es) ==
  \A m, n \in DOMAIN es : es[m].key = es[n].key /\ es[m].key # NoKey => m = n

RowOK(rec, es) ==
  /\ rec \in TaskRecord
  /\ es \in Seq(Execution)
  /\ HistoryOf(rec, es)
  /\ DraftOf(rec)
  /\ UnstartedOf(rec, es)
  /\ KeysOf(es)
  /\ rec.status = "succeeded" => es # <<>> /\ ~HasBlocking(rec)

\* Between the two halves of a handler.
Held == {"confirm", "rerun", "claiming", "release"}

PrerequisitesHadSuccess(t) == \A d \in Deps[t] : HasSucceeded(d)

(* What a thread has checked in the first half of a handler is still so, of  *)
(* its own task; of the prerequisites only that they once succeeded.        *)
HolderOK(th) ==
  LET t == thread[th].task IN
  /\ thread[th].pc \in Held => lock[t] = th
  /\ thread[th].pc = "confirm" =>
       task[t].node = "human_confirmation" /\ task[t].status = "running"
  /\ thread[th].pc = "rerun" => task[t].contract /\ task[t].status # "running"
  /\ thread[th].pc = "claiming" =>
       task[t].status = "running" /\ task[t].active # 0 /\ PrerequisitesHadSuccess(t)
  /\ thread[th].pc = "release" =>
       task[t].status = "running" /\ task[t].node = "waiting_dependencies"
  /\ thread[th].pc = "run" => thread[th].exec # 0

IInv == /\ TypeOK
        /\ \A t \in Tasks : RowOK(task[t], executions[t])
        /\ \A th \in Threads : HolderOK(th)
-----------------------------------------------------------------------------
(* The five things a step may do to a row. *)

Creates(rec, es, rec2, es2) ==
  rec.status = "absent" /\ rec2 = [rec EXCEPT !.status = "running"] /\ es2 = es

\* The task of a running row goes on as rec2.
Continues(rec, rec2) ==
  /\ rec.status = "running"
  /\ rec2 \in TaskRecord
  /\ rec2.active = rec.active /\ rec2.contract = rec.contract
  /\ rec2.node # "human_confirmation" /\ rec2.status # "absent"
  /\ rec2.status = "succeeded" => ~HasBlocking(rec2)
  /\ rec2.status = "cancelled" => ~rec.contract

Goes(rec, es, rec2, es2) ==
  /\ Continues(rec, rec2)
  /\ ~HasStarted(es) =>
       /\ rec2.rounds = rec.rounds /\ rec2.status # "succeeded"
       /\ es # <<>> => rec2.node = rec.node /\ rec2.status = "running"
  /\ es2 = SyncProjection(rec2, es)

Raises(rec, es, rec2, es2) ==
  /\ Continues(rec, rec2)
  /\ HasStarted(es)
  /\ rec2.status = "running"
  /\ es2 = es

Starts(rec, es, rec2, es2) ==
  /\ rec.status = "running" /\ es # <<>>
  /\ rec2 = rec
  /\ es2 = SyncProjection(rec, MarkStarted(rec, es))

Opens(rec, es, rec2, es2) ==
  \E k \in Keys \cup {NoKey}, source \in Nat :
    /\ rec2 \in TaskRecord
    /\ rec2.status = "running" /\ rec2.contract /\ rec2.active = Len(es) + 1
    /\ rec2.node \in {"waiting_dependencies", "dispatch_decision"}
    /\ rec2.rounds = <<>>
    /\ \A n \in DOMAIN es : es[n].finished
    /\ k = NoKey <=> es = <<>>
    /\ ~KeyUsed(es, k)
    /\ es2 = SyncProjection(rec2, Append(es, NewExecution(rec2, k, source)))

LEMMA CreatesRow ==
  ASSUME NEW rec, NEW es, NEW rec2, NEW es2, RowOK(rec, es), Creates(rec, es, rec2, es2)
  PROVE  RowOK(rec2, es2)
  <1>1. rec \in TaskRecord /\ rec.node = "human_confirmation" /\ es = <<>>
    BY DEF RowOK, Creates, DraftOf, HistoryOf
  <1>2. rec2 \in TaskRecord /\ rec2.status = "running" /\ rec2.node = rec.node
        /\ rec2.contract = rec.contract /\ rec2.active = rec.active /\ rec2.rounds = rec.rounds
    BY <1>1 DEF Creates, TaskRecord, Status
  <1>3. QED
    BY <1>1, <1>2 DEF RowOK, Creates, DraftOf, HistoryOf, UnstartedOf, KeysOf

LEMMA GoesRow ==
  ASSUME NEW rec, NEW es, NEW rec2, NEW es2, RowOK(rec, es), Goes(rec, es, rec2, es2)
  PROVE  RowOK(rec2, es2)
  <1>1. rec \in TaskRecord /\ rec2 \in TaskRecord /\ es \in Seq(Execution)
        /\ rec2.active = Len(es) /\ rec2.contract = rec.contract
    BY DEF RowOK, Goes, Continues, HistoryOf
  <1>2. es2 \in Seq(Execution) /\ Len(es2) = Len(es)
    BY <1>1, SyncFacts DEF Goes
  <1>3. \A n \in 1..Len(es) : n # Len(es) => es2[n] = es[n]
    BY <1>1, SyncFacts DEF Goes
  <1>4. CASE es = <<>>
    <2>1. es2 = <<>>
      BY <1>2, <1>4
    <2>2. QED
      BY <1>1, <1>4, <2>1 DEF RowOK, Goes, Continues, DraftOf, HistoryOf, UnstartedOf, HasStarted, KeysOf
  <1>5. CASE es # <<>>
    <2>1. es[Len(es)] \in Execution /\ ~es[Len(es)].finished /\ Len(es) \in 1..Len(es)
      BY <1>1, <1>5 DEF RowOK, HistoryOf, Goes, Continues
    <2>2. es2[Len(es)] = Projection(rec2, es[Len(es)])
      BY <1>1, <1>5, <2>1, SyncFacts DEF Goes
    <2>3. /\ es2[Len(es)].status = rec2.status
          /\ es2[Len(es)].finished <=> rec2.status # "running"
          /\ es2[Len(es)].started = es[Len(es)].started
          /\ es2[Len(es)].key = es[Len(es)].key
      BY <1>1, <2>1, <2>2, ProjectionType
    <2>4. HistoryOf(rec2, es2)
      <3>1. HistoryOf(rec, es)
        BY DEF RowOK
      <3>2. ASSUME NEW n \in DOMAIN es2
            PROVE  /\ es2[n].finished <=> es2[n].status # "running"
                   /\ n < Len(es2) => es2[n].finished
        <4>1. CASE n = Len(es)
          BY <1>2, <2>3, <4>1
        <4>2. CASE n # Len(es)
          BY <1>1, <1>2, <1>3, <3>1, <4>2 DEF HistoryOf
        <4>3. QED
          BY <4>1, <4>2
      <3>3. rec2.contract <=> es2 # <<>>
        BY <1>1, <1>2, <1>5, <3>1 DEF HistoryOf
      <3>4. QED
        BY <1>1, <1>2, <2>3, <3>2, <3>3 DEF HistoryOf
    <2>5. DraftOf(rec2)
      BY DEF Goes, Continues, DraftOf
    <2>6. UnstartedOf(rec2, es2)
      BY <1>2, <1>5, <2>3 DEF RowOK, Goes, UnstartedOf, HasStarted
    <2>7. KeysOf(es2)
      <3>1. \A n \in 1..Len(es) : es2[n].key = es[n].key
        BY <1>3, <2>3
      <3>2. QED
        BY <1>1, <1>2, <3>1 DEF RowOK, KeysOf
    <2>8. QED
      BY <1>1, <1>2, <1>5, <2>4, <2>5, <2>6, <2>7 DEF RowOK, Goes, Continues
  <1>6. QED
    BY <1>4, <1>5

LEMMA RaisesRow ==
  ASSUME NEW rec, NEW es, NEW rec2, NEW es2, RowOK(rec, es), Raises(rec, es, rec2, es2)
  PROVE  RowOK(rec2, es2)
  <1>1. HistoryOf(rec2, es2)
    BY DEF RowOK, Raises, Continues, HistoryOf
  <1>2. QED
    BY <1>1 DEF RowOK, Raises, Continues, DraftOf, UnstartedOf

(* An execution that gets started changes in nothing else.                  *)
LEMMA StartsFacts ==
  ASSUME NEW rec, NEW es, NEW rec2, NEW es2, RowOK(rec, es), Starts(rec, es, rec2, es2)
  PROVE  /\ es2 \in Seq(Execution) /\ Len(es2) = Len(es) /\ Len(es) \in 1..Len(es)
         /\ \A n \in 1..Len(es) : n # Len(es) => es2[n] = es[n]
         /\ es2[Len(es)].status = "running"
         /\ ~es[Len(es)].finished /\ ~es2[Len(es)].finished
         /\ es2[Len(es)].started
         /\ es2[Len(es)].key = es[Len(es)].key
  <1> DEFINE ms == MarkStarted(rec, es)
  <1>1. rec \in TaskRecord /\ es \in Seq(Execution) /\ rec.active = Len(es)
        /\ rec.status = "running" /\ es # <<>> /\ Len(es) \in 1..Len(es)
    BY DEF RowOK, Starts, HistoryOf
  <1>2. es[Len(es)] \in Execution /\ ~es[Len(es)].finished
    BY <1>1 DEF RowOK, HistoryOf
  <1>3. ms \in Seq(Execution) /\ Len(ms) = Len(es)
        /\ (\A n \in 1..Len(es) : n # Len(es) => ms[n] = es[n])
        /\ ms[Len(es)] = [es[Len(es)] EXCEPT !.started = TRUE]
    BY <1>1, MarkStartedFacts
  <1>4. ms[Len(es)] \in Execution /\ ~ms[Len(es)].finished /\ ms[Len(es)].started
        /\ ms[Len(es)].key = es[Len(es)].key
    BY <1>2, <1>3 DEF Execution
  <1>5. es2 = SyncProjection(rec, ms)
    BY DEF Starts
  <1> HIDE DEF ms
  <1>6. /\ es2 \in Seq(Execution) /\ Len(es2) = Len(es)
        /\ \A n \in 1..Len(es) : n # Len(es) => es2[n] = es[n]
        /\ es2[Len(es)] = Projection(rec, ms[Len(es)])
    <2>1. ms # <<>> /\ rec.active = Len(ms) /\ ~ms[Len(ms)].finished
      BY <1>1, <1>3, <1>4
    <2> DEFINE sp == SyncProjection(rec, ms)
    <2>2. /\ sp \in Seq(Execution) /\ Len(sp) = Len(ms)
          /\ \A n \in 1..Len(ms) : n # Len(ms) => sp[n] = ms[n]
          /\ sp[Len(ms)] = Projection(rec, ms[Len(ms)])
      BY <1>1, <1>3, <2>1, SyncFacts
    <2>3. QED
      BY <1>1, <1>3, <1>5, <2>2
  <1>7. /\ es2[Len(es)].status = "running" /\ ~es2[Len(es)].finished
        /\ es2[Len(es)].started <=> ms[Len(es)].started
        /\ es2[Len(es)].key = ms[Len(es)].key
    BY <1>1, <1>4, <1>6, ProjectionType
  <1>8. QED
    BY <1>1, <1>2, <1>4, <1>6, <1>7

LEMMA StartsRow ==
  ASSUME NEW rec, NEW es, NEW rec2, NEW es2, RowOK(rec, es), Starts(rec, es, rec2, es2)
  PROVE  RowOK(rec2, es2)
  <1>1. rec2 = rec /\ rec \in TaskRecord /\ es \in Seq(Execution) /\ rec.status = "running"
        /\ rec.active = Len(es) /\ es # <<>> /\ HistoryOf(rec, es) /\ KeysOf(es)
    BY DEF RowOK, Starts, HistoryOf
  <1>2. HistoryOf(rec, es2)
    <2>1. ASSUME NEW n \in DOMAIN es2
          PROVE  /\ es2[n].finished <=> es2[n].status # "running"
                 /\ n < Len(es2) => es2[n].finished
      <3>1. CASE n = Len(es)
        BY <3>1, StartsFacts
      <3>2. CASE n # Len(es)
        BY <1>1, <3>2, StartsFacts DEF HistoryOf
      <3>3. QED
        BY <3>1, <3>2
    <2>2. QED
      BY <1>1, <2>1, StartsFacts DEF HistoryOf
  <1>3. UnstartedOf(rec, es2)
    BY <1>1, StartsFacts DEF UnstartedOf, HasStarted
  <1>4. KeysOf(es2)
    <2>1. \A n \in 1..Len(es) : es2[n].key = es[n].key
      BY StartsFacts
    <2>2. QED
      BY <1>1, <2>1, StartsFacts DEF KeysOf
  <1>5. QED
    BY <1>1, <1>2, <1>3, <1>4, StartsFacts DEF RowOK

(* A new execution comes after finished ones, open, unstarted and under a   *)
(* key of its own.                                                          *)
LEMMA OpensFacts ==
  ASSUME NEW rec, NEW es, NEW rec2, NEW es2, RowOK(rec, es), Opens(rec, es, rec2, es2)
  PROVE  /\ es2 \in Seq(Execution) /\ Len(es2) = Len(es) + 1
         /\ \A n \in 1..Len(es) : es2[n] = es[n] /\ es[n].finished
         /\ es2[Len(es) + 1].status = "running"
         /\ ~es2[Len(es) + 1].finished /\ ~es2[Len(es) + 1].started
         /\ es2[Len(es) + 1].key \in Keys \cup {NoKey}
         /\ es2[Len(es) + 1].key = NoKey <=> es = <<>>
         /\ \A n \in 1..Len(es) : es[n].key # es2[Len(es) + 1].key
         /\ rec2 \in TaskRecord /\ rec2.active = Len(es) + 1
  <1>1. PICK k \in Keys \cup {NoKey}, source \in Nat :
          /\ k = NoKey <=> es = <<>>
          /\ ~KeyUsed(es, k)
          /\ es2 = SyncProjection(rec2, Append(es, NewExecution(rec2, k, source)))
    BY DEF Opens
  <1>2. rec2 \in TaskRecord /\ rec2.status = "running" /\ rec2.active = Len(es) + 1
        /\ es \in Seq(Execution) /\ \A n \in 1..Len(es) : es[n].finished
    BY DEF Opens, RowOK
  <1> DEFINE e == NewExecution(rec2, k, source)
             as == Append(es, e)
  <1>3. e \in Execution /\ e.key = k /\ ~e.finished /\ ~e.started
    BY <1>2 DEF NewExecution, Execution, TaskRecord
  <1> HIDE DEF e
  <1>4. as \in Seq(Execution) /\ Len(as) = Len(es) + 1 /\ as[Len(es) + 1] = e
        /\ (\A n \in 1..Len(es) : as[n] = es[n]) /\ as # <<>>
    BY <1>2, <1>3
  <1> HIDE DEF as
  <1>5. es2 = SyncProjection(rec2, as)
    BY <1>1 DEF e, as
  <1>6. /\ es2 \in Seq(Execution) /\ Len(es2) = Len(es) + 1
        /\ \A n \in 1..Len(es) : es2[n] = es[n]
        /\ es2[Len(es) + 1] = Projection(rec2, e)
    <2>1. rec2.active = Len(as) /\ ~as[Len(as)].finished
      BY <1>2, <1>3, <1>4
    <2> DEFINE sp == SyncProjection(rec2, as)
    <2>2. /\ sp \in Seq(Execution) /\ Len(sp) = Len(as)
          /\ \A n \in 1..Len(as) : n # Len(as) => sp[n] = as[n]
          /\ sp[Len(as)] = Projection(rec2, as[Len(as)])
      BY <1>2, <1>4, <2>1, SyncFacts
    <2> HIDE DEF sp
    <2>3. Len(es) \in Nat /\ Len(es) + 1 \in 1..Len(as)
      BY <1>2, <1>4
    <2>4. \A n \in 1..Len(es) : sp[n] = es[n]
      <3>1. \A n \in 1..Len(es) : n \in 1..Len(as) /\ n # Len(as)
        BY <1>4, <2>3
      <3>2. QED
        BY <1>4, <2>2, <3>1
    <2>5. sp[Len(es) + 1] = Projection(rec2, e)
      BY <1>4, <2>2
    <2>6. QED
      BY <1>4, <1>5, <2>2, <2>4, <2>5 DEF sp
  <1>7. /\ es2[Len(es) + 1].key = k
        /\ es2[Len(es) + 1].status = "running"
        /\ ~es2[Len(es) + 1].finished
        /\ ~es2[Len(es) + 1].started
    BY <1>2, <1>3, <1>6, ProjectionType
  <1>8. \A n \in 1..Len(es) : es[n].key # k
    BY <1>1, <1>2 DEF KeyUsed
  <1>9. QED
    BY <1>1, <1>2, <1>6, <1>7, <1>8

LEMMA OpensRow ==
  ASSUME NEW rec, NEW es, NEW rec2, NEW es2, RowOK(rec, es), Opens(rec, es, rec2, es2)
  PROVE  RowOK(rec2, es2)
  <1>1. rec2 \in TaskRecord /\ rec2.status = "running" /\ rec2.active = Len(es) + 1
        /\ rec2.contract /\ rec2.rounds = <<>>
        /\ rec2.node \in {"waiting_dependencies", "dispatch_decision"}
    BY DEF Opens
  <1>2. es \in Seq(Execution) /\ HistoryOf(rec, es) /\ KeysOf(es)
    BY DEF RowOK
  <1>3. HistoryOf(rec2, es2)
    <2>1. ASSUME NEW n \in DOMAIN es2
          PROVE  /\ es2[n].finished <=> es2[n].status # "running"
                 /\ n < Len(es2) => es2[n].finished
      <3>1. CASE n = Len(es) + 1
        BY <1>2, <3>1, OpensFacts
      <3>2. CASE n # Len(es) + 1
        BY <1>2, <3>2, OpensFacts DEF HistoryOf
      <3>3. QED
        BY <3>1, <3>2
    <2>2. QED
      BY <1>1, <1>2, <2>1, OpensFacts DEF HistoryOf
  <1>4. UnstartedOf(rec2, es2) /\ DraftOf(rec2)
    BY <1>1 DEF UnstartedOf, DraftOf
  <1>5. KeysOf(es2)
    BY <1>2, OpensFacts DEF KeysOf
  <1>6. QED
    BY <1>1, <1>3, <1>4, <1>5, OpensFacts DEF RowOK
-----------------------------------------------------------------------------
(* What a step does, summarized: thread a changes one row at most, a row    *)
(* nobody else holds, and then moves on.                                    *)

Claiming(t) == \E th \in Threads : thread[th].pc = "claiming" /\ thread[th].task = t

RowMoves(t) ==
  \/ Creates(task[t], executions[t], task'[t], executions'[t])
  \/ Goes(task[t], executions[t], task'[t], executions'[t])
  \/ Raises(task[t], executions[t], task'[t], executions'[t])
  \/ Opens(task[t], executions[t], task'[t], executions'[t])
  \/ /\ Starts(task[t], executions[t], task'[t], executions'[t])
     /\ Claiming(t)

Touches(a) ==
  \/ UNCHANGED <<task, executions>>
  \/ \E t \in Tasks :
       /\ lock[t] \in {NoThread, a} \/ task[t].status = "absent"
       /\ RowMoves(t)
       /\ task' = [task EXCEPT ![t] = task'[t]]
       /\ executions' = [executions EXCEPT ![t] = executions'[t]]

\* a takes a task for the second half of a handler.
Grabs(a, s) ==
  /\ lock[s.task] = NoThread
  /\ lock' = [lock EXCEPT ![s.task] = a]
  /\ UNCHANGED <<task, executions>>
  /\ \/ /\ s.pc = "confirm"
        /\ task[s.task].node = "human_confirmation" /\ task[s.task].status = "running"
     \/ s.pc = "rerun" /\ task[s.task].contract /\ task[s.task].status # "running"
     \/ /\ s.pc = "claiming"
        /\ task[s.task].status = "running" /\ task[s.task].active # 0
        /\ PrerequisitesHadSuccess(s.task)
     \/ /\ s.pc = "release"
        /\ task[s.task].status = "running" /\ task[s.task].node = "waiting_dependencies"

\* a goes on, and gives back the task it held.
Drops(a, s) ==
  /\ s.pc \notin Held /\ (s.pc = "run" => s.exec # 0)
  /\ \/ lock' = lock
     \/ /\ thread[a].pc \in Held
        /\ lock' = [lock EXCEPT ![thread[a].task] = NoThread]

Moves(a) ==
  \E s \in ThreadState :
    thread' = [thread EXCEPT ![a] = s] /\ (Grabs(a, s) \/ Drops(a, s))

LEMMA RowMovesRow ==
  ASSUME NEW t \in Tasks, RowOK(task[t], executions[t]), RowMoves(t)
  PROVE  RowOK(task'[t], executions'[t])
  BY CreatesRow, GoesRow, RaisesRow, OpensRow, StartsRow DEF RowMoves

LEMMA TouchesRows ==
  ASSUME IInv, NEW a, Touches(a)
  PROVE  /\ task' \in [Tasks -> TaskRecord]
         /\ executions' \in [Tasks -> Seq(Execution)]
         /\ \A t \in Tasks : RowOK(task'[t], executions'[t])
  <1>1. /\ task \in [Tasks -> TaskRecord] /\ executions \in [Tasks -> Seq(Execution)]
        /\ \A t \in Tasks : RowOK(task[t], executions[t])
    BY DEF IInv, TypeOK
  <1>2. CASE UNCHANGED <<task, executions>>
    BY <1>1, <1>2
  <1>3. CASE ~UNCHANGED <<task, executions>>
    <2>1. PICK t \in Tasks :
            /\ RowMoves(t)
            /\ task' = [task EXCEPT ![t] = task'[t]]
            /\ executions' = [executions EXCEPT ![t] = executions'[t]]
      BY <1>3 DEF Touches
    <2>2. RowOK(task'[t], executions'[t])
      BY <1>1, <2>1, RowMovesRow
    <2>3. task'[t] \in TaskRecord /\ executions'[t] \in Seq(Execution)
      BY <2>2 DEF RowOK
    <2>4. \A u \in Tasks : u # t => task'[u] = task[u] /\ executions'[u] = executions[u]
      BY <1>1, <2>1
    <2>5. \A u \in Tasks : RowOK(task'[u], executions'[u])
      BY <1>1, <2>2, <2>4
    <2>6. QED
      BY <1>1, <2>1, <2>3, <2>5
  <1>4. QED
    BY <1>2, <1>3

LEMMA RowFreezes ==
  ASSUME NEW t \in Tasks, RowOK(task[t], executions[t]), RowMoves(t)
  PROVE  \A n \in DOMAIN executions[t] :
           /\ n \in DOMAIN executions'[t]
           /\ executions[t][n].finished => executions'[t][n] = executions[t][n]
  <1> DEFINE es == executions[t]
             es2 == executions'[t]
  <1>1. es \in Seq(Execution)
    BY DEF RowOK
  <1>2. CASE es2 = es
    BY <1>2
  <1>3. CASE Goes(task[t], es, task'[t], es2)
    <2>1. task'[t] \in TaskRecord /\ task'[t].active = Len(es) /\ es2 = SyncProjection(task'[t], es)
      BY <1>3 DEF Goes, Continues, RowOK, HistoryOf
    <2>2. QED
      BY <1>1, <2>1, SyncFacts
  <1>4. CASE Opens(task[t], es, task'[t], es2)
    BY <1>1, <1>4, OpensFacts
  <1>5. CASE Starts(task[t], es, task'[t], es2)
    BY <1>1, <1>5, StartsFacts
  <1>6. QED
    BY <1>2, <1>3, <1>4, <1>5 DEF RowMoves, Creates, Raises

(* Only the row that moves changes.                                         *)
LEMMA StillOrMoves ==
  ASSUME IInv, NEW a, Touches(a), NEW t \in Tasks
  PROVE  \/ task'[t] = task[t] /\ executions'[t] = executions[t]
         \/ RowMoves(t)
  BY DEF Touches, IInv, TypeOK

(* What has succeeded once stays recorded.                                  *)
LEMMA HadSuccessStays ==
  ASSUME IInv, NEW a, Touches(a), NEW t \in Tasks, PrerequisitesHadSuccess(t)
  PROVE  PrerequisitesHadSuccess(t)'
  <1>1. ASSUME NEW d \in Deps[t]
        PROVE  HasSucceeded(d)'
    <2>1. d \in Tasks /\ RowOK(task[d], executions[d])
      BY DepsAssumption DEF IInv
    <2>2. PICK n \in DOMAIN executions[d] : executions[d][n].status = "succeeded"
      BY DEF PrerequisitesHadSuccess, HasSucceeded
    <2>3. executions[d][n].finished
      BY <2>1, <2>2 DEF RowOK, HistoryOf
    <2>4. n \in DOMAIN executions'[d] /\ executions'[d][n] = executions[d][n]
      BY <2>1, <2>3, StillOrMoves, RowFreezes
    <2>5. QED
      BY <2>2, <2>4 DEF HasSucceeded
  <1>2. QED
    BY <1>1 DEF PrerequisitesHadSuccess

(* A succeeded task has an execution that says so.                          *)
LEMMA SatisfiedHadSuccess ==
  ASSUME IInv, NEW t \in Tasks, DependenciesSatisfied(t)
  PROVE  PrerequisitesHadSuccess(t)
  <1>1. ASSUME NEW d \in Deps[t]
        PROVE  HasSucceeded(d)
    <2>1. RowOK(task[d], executions[d]) /\ task[d].status = "succeeded"
      BY DepsAssumption DEF IInv, DependenciesSatisfied
    <2>2. executions[d] \in Seq(Execution) /\ executions[d] # <<>>
          /\ executions[d][Len(executions[d])].status = "succeeded"
      BY <2>1 DEF RowOK, HistoryOf
    <2>3. Len(executions[d]) \in DOMAIN executions[d]
      BY <2>2
    <2>4. QED
      BY <2>2, <2>3 DEF HasSucceeded
  <1>2. QED
    BY <1>1 DEF PrerequisitesHadSuccess

(* What another thread holds is left alone.                                 *)
LEMMA HeldStays ==
  ASSUME IInv, NEW a, Touches(a), NEW th \in Threads, th # a,
         thread[th].pc \in Held
  PROVE  task'[thread[th].task] = task[thread[th].task]
  <1> DEFINE held == thread[th].task
  <1>1. held \in Tasks /\ lock[held] = th /\ th # NoThread /\ task \in [Tasks -> TaskRecord]
        /\ RowOK(task[held], executions[held])
    BY NoThreadAssumption DEF IInv, TypeOK, HolderOK, ThreadState
  <1>2. task[held].status # "absent"
    BY <1>1 DEF IInv, HolderOK, RowOK, DraftOf, Held
  <1>3. QED
    BY <1>1, <1>2 DEF Touches

LEMMA RowsPrime ==
  ASSUME \A t \in Tasks : RowOK(task'[t], executions'[t])
  PROVE  (\A t \in Tasks : RowOK(task[t], executions[t]))'
  BY DEF RowOK, HistoryOf, DraftOf, UnstartedOf, HasStarted, KeysOf, HasBlocking

(* A thread that is not the acting one keeps what it has checked.           *)
LEMMA OthersHold ==
  ASSUME IInv, NEW a, Touches(a), NEW th \in Threads, th # a,
         thread'[th] = thread[th],
         thread[th].pc \in Held => lock'[thread[th].task] = th
  PROVE  HolderOK(th)'
  <1>1. HolderOK(th)
    BY DEF IInv
  <1>2. CASE thread[th].pc \in Held
    <2>1. thread[th].task \in Tasks
      BY DEF IInv, TypeOK, ThreadState
    <2>2. task'[thread[th].task] = task[thread[th].task]
      BY <1>2, HeldStays
    <2>3. PrerequisitesHadSuccess(thread[th].task) => PrerequisitesHadSuccess(thread[th].task)'
      BY <2>1, HadSuccessStays
    <2>4. (thread[th].task)' = thread[th].task
      OBVIOUS
    <2>5. QED
      BY <1>1, <1>2, <2>2, <2>3, <2>4 DEF HolderOK, PrerequisitesHadSuccess
  <1>3. CASE thread[th].pc \notin Held
    BY <1>1, <1>3 DEF HolderOK, Held
  <1>4. QED
    BY <1>2, <1>3

LEMMA MovesHold ==
  ASSUME IInv, NEW a \in Threads, Touches(a), Moves(a)
  PROVE  IInv'
  <1>1. PICK s \in ThreadState :
          thread' = [thread EXCEPT ![a] = s] /\ (Grabs(a, s) \/ Drops(a, s))
    BY DEF Moves
  <1>2. lock \in [Tasks -> Threads \cup {NoThread}] /\ thread \in [Threads -> ThreadState]
        /\ task \in [Tasks -> TaskRecord]
    BY DEF IInv, TypeOK
  <1>3. s.task \in Tasks /\ thread[a].task \in Tasks
    BY <1>2 DEF ThreadState
  <1>4. lock' \in [Tasks -> Threads \cup {NoThread}]
    BY <1>1, <1>2 DEF Grabs, Drops
  <1>5. thread' \in [Threads -> ThreadState]
    BY <1>1, <1>2
  <1>6. TypeOK'
    BY <1>4, <1>5, TouchesRows DEF TypeOK
  <1>7. (\A t \in Tasks : RowOK(task[t], executions[t]))'
    BY TouchesRows, RowsPrime
  <1>8. ASSUME NEW th \in Threads PROVE HolderOK(th)'
    <2>1. CASE th = a
      <3>1. thread'[th] = s
        BY <1>1, <1>2, <2>1
      <3>2. CASE Grabs(a, s)
        BY <1>2, <1>3, <2>1, <3>1, <3>2 DEF Grabs, HolderOK, Held, PrerequisitesHadSuccess, HasSucceeded
      <3>3. CASE Drops(a, s)
        BY <3>1, <3>3 DEF Drops, HolderOK, Held
      <3>4. QED
        BY <1>1, <3>2, <3>3
    <2>2. CASE th # a
      <3>1. thread'[th] = thread[th]
        BY <1>1, <1>2, <2>2
      <3>2. HolderOK(th) /\ HolderOK(a) /\ th # NoThread /\ thread[th].task \in Tasks
        BY <1>2, NoThreadAssumption DEF IInv, ThreadState
      <3>3. thread[th].pc \in Held => lock'[thread[th].task] = th
        BY <1>1, <1>2, <1>3, <2>2, <3>2 DEF HolderOK, Grabs, Drops
      <3>4. QED
        BY <2>2, <3>1, <3>3, OthersHold
    <2>3. QED
      BY <2>1, <2>2
  <1>9. QED
    BY <1>6, <1>7, <1>8 DEF IInv

LEMMA NobodyHold ==
  ASSUME IInv, Touches(NoThread), UNCHANGED <<lock, thread>>
  PROVE  IInv'
  <1>1. TypeOK'
    BY TouchesRows DEF IInv, TypeOK
  <1>2. (\A t \in Tasks : RowOK(task[t], executions[t]))'
    BY TouchesRows, RowsPrime
  <1>3. ASSUME NEW th \in Threads PROVE HolderOK(th)'
    <2>1. th # NoThread /\ HolderOK(th)
      BY NoThreadAssumption DEF IInv
    <2>2. QED
      BY <2>1, OthersHold DEF HolderOK
  <1>4. QED
    BY <1>1, <1>2, <1>3 DEF IInv
-----------------------------------------------------------------------------
(* Every handler is such a step. *)

Resting(s) == s \in ThreadState /\ s.pc \notin Held \cup {"run"}

LEMMA IdleState == Idle \in ThreadState /\ Idle.pc = "idle"
  <1>1. AnyTask \in Tasks
    BY TasksAssumption DEF AnyTask
  <1>2. QED
    BY <1>1 DEF Idle, ThreadState

LEMMA DoingState ==
  ASSUME NEW pc \in {"claim", "run"}, NEW t \in Tasks, NEW e \in Nat,
         NEW ready \in SUBSET (Tasks \X Nat)
  PROVE  /\ Doing(pc, t, e, ready) \in ThreadState
         /\ Doing(pc, t, e, ready).pc = pc
         /\ Doing(pc, t, e, ready).exec = e
  BY IdleState DEF Doing, ThreadState

LEMMA ResumeState ==
  ASSUME NEW s \in ThreadState
  PROVE  Resting(StartResume(s)) /\ Resting(Return(s))
  BY IdleState DEF StartResume, Return, Resting, ThreadState, Created, Held

LEMMA SaveRow ==
  ASSUME IInv, NEW t \in Tasks, NEW rec, NEW es, Save(t, rec, es)
  PROVE  /\ task'[t] = rec /\ executions'[t] = SyncProjection(rec, es)
         /\ task' = [task EXCEPT ![t] = task'[t]]
         /\ executions' = [executions EXCEPT ![t] = executions'[t]]
  BY DEF Save, IInv, TypeOK

LEMMA RestMoves ==
  ASSUME IInv, NEW th \in Threads, NEW s, Resting(s), GoesTo(th, s), UNCHANGED lock
  PROVE  Moves(th)
  BY DEF Resting, GoesTo, Moves, Drops

LEMMA IdleMoves ==
  ASSUME IInv, NEW th \in Threads, thread[th].pc = "idle", UNCHANGED <<lock, thread>>
  PROVE  Moves(th)
  <1>1. thread[th] \in ThreadState /\ thread' = [thread EXCEPT ![th] = thread[th]]
    BY DEF IInv, TypeOK
  <1>2. QED
    BY <1>1 DEF Moves, Drops, Held

(* A running task is saved as rec: the usual end of a section.              *)
LEMMA SaveTouches ==
  ASSUME IInv, NEW a, NEW t \in Tasks, Free(t) \/ lock[t] = a, NEW rec,
         Continues(task[t], rec), Save(t, rec, executions[t]),
         ~HasStarted(executions[t]) =>
           /\ rec.rounds = task[t].rounds /\ rec.status # "succeeded"
           /\ executions[t] # <<>> => rec.node = task[t].node /\ rec.status = "running"
  PROVE  Touches(a)
  <1>1. Goes(task[t], executions[t], task'[t], executions'[t])
    BY SaveRow DEF Goes
  <1>2. QED
    BY <1>1, SaveRow DEF Touches, RowMoves, Free

(* The row of a running task with an execution.                             *)
LEMMA RunningRow ==
  ASSUME IInv, NEW t \in Tasks, task[t].status = "running"
  PROVE  /\ task[t] \in TaskRecord /\ executions[t] \in Seq(Execution)
         /\ task[t].active = Len(executions[t]) /\ task[t].active \in Nat
         /\ task[t].contract <=> executions[t] # <<>>
         /\ task[t].contract <=> task[t].active # 0
         /\ task[t].contract => task[t].node # "human_confirmation"
         /\ ~HasStarted(executions[t]) => task[t].rounds = <<>>
         /\ ~HasStarted(executions[t]) /\ task[t].contract =>
              task[t].node \in {"waiting_dependencies", "dispatch_decision"}
  <1>1. RowOK(task[t], executions[t])
    BY DEF IInv
  <1>2. task[t] \in TaskRecord /\ executions[t] \in Seq(Execution)
        /\ task[t].active = Len(executions[t])
        /\ (task[t].contract <=> executions[t] # <<>>)
    BY <1>1 DEF RowOK, HistoryOf
  <1>3. executions[t] # <<>> <=> Len(executions[t]) # 0
    BY <1>2
  <1>4. QED
    BY <1>1, <1>2, <1>3 DEF RowOK, DraftOf, UnstartedOf

(* The flow continues the task it is given.                                 *)
LEMMA FlowContinues ==
  ASSUME NEW t \in Tasks, NEW rec \in TaskRecord, rec.status = "running",
         rec.node # "human_confirmation", NEW result \in FlowResults(t, rec)
  PROVE  Continues(rec, result)
  <1>1. SameTask(rec, result)
    BY FlowType
  <1>2. result.status = "succeeded" => ~HasBlocking(result)
    <2>1. ASSUME NEW w \in TaskRecord, NEW candidate, NEW gaps, w.status = "running"
          PROVE  Finalize(w, candidate, gaps).status = "succeeded"
                   => ~HasBlocking(Finalize(w, candidate, gaps))
      BY <2>1 DEF Finalize, HasBlocking, TaskRecord
    <2>2. CASE result = rec
      BY <2>2
    <2>3. CASE result \in Pauses(t, rec)
      <3>1. PICK H : result = [AddRound(rec, H) EXCEPT !.node = "human_execution"]
        BY <2>3 DEF Pauses
      <3>2. result.status = "running"
        BY <3>1, AddRoundType DEF TaskRecord
      <3>3. QED
        BY <3>2
    <2>4. CASE result \in FailedRounds(t, rec)
      <3>1. PICK H : result = Finalize(AddRound(rec, H), "failed", FALSE)
        BY <2>4 DEF FailedRounds
      <3>2. QED
        BY <2>1, <3>1, AddRoundType
    <2>5. CASE result \in Proposals(t, rec)
      <3>1. PICK w \in Worked(t, rec), gaps \in BOOLEAN : result = Finalize(w, "succeeded", gaps)
        BY <2>5 DEF Proposals
      <3>2. QED
        BY <2>1, <3>1, WorkedType
    <2>6. CASE result \in DeadEnds(t, rec)
      <3>1. CASE \E f \in Failures : result = Finalize(rec, f, FALSE)
        BY <2>1, <3>1
      <3>2. CASE \E w \in Worked(t, rec) : result = [w EXCEPT !.node = "human_intervention"]
        <4>1. result.status = "running"
          BY <3>2, WorkedType DEF TaskRecord
        <4>2. QED
          BY <4>1
      <3>3. QED
        BY <2>6, <3>1, <3>2 DEF DeadEnds
    <2>7. QED
      BY <2>2, <2>3, <2>4, <2>5, <2>6 DEF FlowResults
  <1>3. QED
    BY <1>1, <1>2, FailuresAssumption DEF SameTask, Continues

LEMMA FinalizeContinues ==
  ASSUME NEW rec \in TaskRecord, rec.status = "running", NEW gaps,
         NEW candidate \in {"succeeded", "cancelled"} \cup Failures,
         candidate = "cancelled" => ~rec.contract
  PROVE  Continues(rec, Finalize(rec, candidate, gaps))
  <1>1. /\ Finalize(rec, candidate, gaps) \in TaskRecord
        /\ Finalize(rec, candidate, gaps).active = rec.active
        /\ Finalize(rec, candidate, gaps).contract = rec.contract
        /\ Finalize(rec, candidate, gaps).node # "human_confirmation"
        /\ Finalize(rec, candidate, gaps).status # "absent"
        /\ Finalize(rec, candidate, gaps).status = "cancelled" => candidate = "cancelled"
    BY FinalizeType, FailuresAssumption
  <1>2. Finalize(rec, candidate, gaps).status = "succeeded"
          => ~HasBlocking(Finalize(rec, candidate, gaps))
    BY DEF Finalize, HasBlocking, TaskRecord
  <1>3. QED
    BY <1>1, <1>2 DEF Continues

LEMMA CreateTouches ==
  ASSUME IInv, NEW t \in Tasks, CreateRequest(t)
  PROVE  Touches(NoThread) /\ UNCHANGED <<lock, thread>>
  <1>1. task' = [task EXCEPT ![t] = task'[t]] /\ executions' = [executions EXCEPT ![t] = executions'[t]]
        /\ task'[t] = [task[t] EXCEPT !.status = "running"] /\ executions'[t] = executions[t]
    BY DEF CreateRequest, IInv, TypeOK
  <1>2. RowMoves(t)
    BY <1>1 DEF CreateRequest, RowMoves, Creates
  <1>3. QED
    BY <1>1, <1>2 DEF CreateRequest, Touches

LEMMA CancelTouches ==
  ASSUME IInv, NEW t \in Tasks, CancelUnconfirmed(t)
  PROVE  Touches(NoThread) /\ UNCHANGED <<lock, thread>>
  <1>1. task[t].status = "running" /\ task[t].node = "human_confirmation" /\ Free(t)
        /\ Save(t, Finalize(task[t], "cancelled", FALSE), executions[t])
    BY DEF CancelUnconfirmed
  <1>2. task[t] \in TaskRecord /\ executions[t] = <<>> /\ ~task[t].contract
    BY <1>1, RunningRow
  <1>3. /\ Finalize(task[t], "cancelled", FALSE).rounds = task[t].rounds
        /\ Finalize(task[t], "cancelled", FALSE).status # "succeeded"
    BY <1>1, <1>2, FinalizeType
  <1>4. Touches(NoThread)
    BY <1>1, <1>2, <1>3, FinalizeContinues, SaveTouches
  <1>5. QED
    BY <1>4 DEF CancelUnconfirmed

LEMMA ConfirmBeginMoves ==
  ASSUME IInv, NEW th \in Threads, NEW t \in Tasks, ConfirmBegin(th, t)
  PROVE  Touches(th) /\ Moves(th)
  <1> DEFINE s == [Idle EXCEPT !.pc = "confirm", !.task = t, !.sat = DependenciesSatisfied(t)]
  <1>1. s \in ThreadState /\ s.pc = "confirm" /\ s.task = t
    BY IdleState DEF ThreadState, DependenciesSatisfied
  <1>2. task[t].status = "running"
    BY DEF IInv, RowOK, DraftOf, ConfirmBegin, Created
  <1>3. thread' = [thread EXCEPT ![th] = s]
    BY DEF ConfirmBegin, GoesTo
  <1> HIDE DEF s
  <1>4. Grabs(th, s)
    BY <1>1, <1>2 DEF ConfirmBegin, Grabs, Free
  <1>5. QED
    BY <1>1, <1>3, <1>4 DEF Moves, Touches, Grabs

LEMMA RerunBeginMoves ==
  ASSUME IInv, NEW th \in Threads, NEW t \in Tasks, RerunBegin(th, t)
  PROVE  Touches(th) /\ Moves(th)
  <1> DEFINE s == [Idle EXCEPT !.pc = "rerun", !.task = t, !.sat = DependenciesSatisfied(t)]
  <1>1. s \in ThreadState /\ s.pc = "rerun" /\ s.task = t
    BY IdleState DEF ThreadState, DependenciesSatisfied
  <1>2. thread' = [thread EXCEPT ![th] = s]
    BY DEF RerunBegin, GoesTo
  <1> HIDE DEF s
  <1>3. Grabs(th, s)
    BY <1>1 DEF RerunBegin, RerunAllowed, Grabs, Free
  <1>4. QED
    BY <1>1, <1>2, <1>3 DEF Moves, Touches, Grabs

LEMMA RunClaimedMoves ==
  ASSUME IInv, NEW th \in Threads, RunClaimed(th)
  PROVE  Touches(th) /\ Moves(th)
  <1> DEFINE s == thread[th]
             t == s.task
  <1>1. s \in ThreadState /\ t \in Tasks /\ Free(t)
    BY DEF IInv, TypeOK, RunClaimed, ThreadState
  <1>2. CASE UNCHANGED <<task, executions>> /\ GoesTo(th, Return(s)) /\ UNCHANGED lock
    BY <1>1, <1>2, ResumeState, RestMoves DEF Touches
  <1>3. CASE /\ Runnable(t, s.exec) /\ executions[t][task[t].active].started
             /\ \E result \in FlowResults(t, task[t]) \cup {Finalize(task[t], "failed", FALSE)} :
                  Save(t, result, executions[t])
             /\ GoesTo(th, StartResume(s)) /\ UNCHANGED lock
    <2>1. PICK result \in FlowResults(t, task[t]) \cup {Finalize(task[t], "failed", FALSE)} :
            Save(t, result, executions[t])
      BY <1>3
    <2>2. task[t].status = "running" /\ task[t].active # 0
      BY <1>3 DEF Runnable
    <2>3. Continues(task[t], result)
      <3>1. task[t] \in TaskRecord /\ task[t].node # "human_confirmation"
        BY <1>1, <2>2, RunningRow
      <3>2. CASE result \in FlowResults(t, task[t])
        BY <1>1, <2>2, <3>1, <3>2, FlowContinues
      <3>3. CASE result = Finalize(task[t], "failed", FALSE)
        BY <2>2, <3>1, <3>3, FinalizeContinues, FailuresAssumption
      <3>4. QED
        BY <2>1, <3>2, <3>3
    <2>4. HasStarted(executions[t])
      BY <1>1, <1>3, <2>2, RunningRow DEF HasStarted
    <2>5. Touches(th)
      BY <1>1, <2>1, <2>3, <2>4, SaveTouches
    <2>6. Moves(th)
      BY <1>1, <1>3, ResumeState, RestMoves
    <2>7. QED
      BY <2>5, <2>6
  <1>4. QED
    BY <1>2, <1>3 DEF RunClaimed

LEMMA ClaimBeginMoves ==
  ASSUME IInv, NEW th \in Threads, ClaimBegin(th)
  PROVE  Touches(th) /\ Moves(th)
  <1> DEFINE s == thread[th]
             d == [s EXCEPT !.pc = "claiming"]
  <1>1. s \in ThreadState /\ s.task \in Tasks /\ Free(s.task) /\ UNCHANGED <<task, executions>>
    BY DEF IInv, TypeOK, ClaimBegin, ThreadState
  <1>2. CASE GoesTo(th, Return(s)) /\ UNCHANGED lock
    BY <1>1, <1>2, ResumeState, RestMoves DEF Touches
  <1>3. CASE /\ Runnable(s.task, s.exec) /\ DependenciesSatisfied(s.task)
             /\ lock' = [lock EXCEPT ![s.task] = th]
             /\ GoesTo(th, d)
    <2>1. d \in ThreadState /\ d.pc = "claiming" /\ d.task = s.task
      BY <1>1 DEF ThreadState
    <2>2. thread' = [thread EXCEPT ![th] = d]
      BY <1>3 DEF GoesTo
    <2> HIDE DEF d, s
    <2>3. PrerequisitesHadSuccess(s.task)
      BY <1>1, <1>3, SatisfiedHadSuccess
    <2>4. Grabs(th, d)
      BY <1>1, <1>3, <2>1, <2>3 DEF Grabs, Free, Runnable
    <2>5. QED
      BY <1>1, <2>1, <2>2, <2>4 DEF Moves, Touches
  <1>4. QED
    BY <1>2, <1>3 DEF ClaimBegin

LEMMA ClaimEndMoves ==
  ASSUME IInv, NEW th \in Threads, ClaimEnd(th)
  PROVE  Touches(th) /\ Moves(th)
  <1> DEFINE s == thread[th]
             t == s.task
             rec == task[t]
             es == executions[t]
             run == Doing("run", t, rec.active, s.ready)
  <1>1. /\ s \in ThreadState /\ t \in Tasks /\ s.ready \in SUBSET (Tasks \X Nat)
        /\ s.pc = "claiming" /\ HolderOK(th) /\ lock' = [lock EXCEPT ![t] = NoThread]
    BY DEF IInv, TypeOK, ClaimEnd, ThreadState
  <1>2. /\ lock[t] = th /\ rec.status = "running" /\ rec.active # 0
        /\ PrerequisitesHadSuccess(t) /\ s.pc \in Held
    BY <1>1 DEF HolderOK, Held
  <1>3. /\ rec \in TaskRecord /\ rec.active = Len(es) /\ rec.active \in Nat
        /\ es \in Seq(Execution) /\ es # <<>> /\ rec.node # "human_confirmation"
    BY <1>1, <1>2, RunningRow
  <1>4. ASSUME NEW d, d \in ThreadState, d.pc \notin Held, d.pc = "run" => d.exec # 0,
               GoesTo(th, d)
        PROVE  Moves(th)
    BY <1>1, <1>2, <1>4 DEF Moves, Drops, GoesTo
  <1>5. run \in ThreadState /\ run.pc = "run" /\ run.exec # 0 /\ run.pc \notin Held
    BY <1>1, <1>2, <1>3, DoingState DEF Held
  <1>6. Return(s) \in ThreadState /\ Return(s).pc \notin Held \cup {"run"}
    BY <1>1, ResumeState DEF Resting
  <1> HIDE DEF run
  <1>7. CASE UNCHANGED <<task, executions>> /\ GoesTo(th, Return(s))
    BY <1>4, <1>6, <1>7 DEF Touches
  <1>8. CASE Save(t, rec, MarkStarted(rec, es)) /\ GoesTo(th, run)
    <2>1. Starts(task[t], executions[t], task'[t], executions'[t])
      BY <1>1, <1>2, <1>3, <1>8, SaveRow DEF Starts
    <2>2. Touches(th)
      BY <1>1, <1>2, <1>8, <2>1, SaveRow DEF Touches, RowMoves, Claiming
    <2>3. QED
      BY <1>4, <1>5, <1>8, <2>2
  <1>9. CASE /\ es[rec.active].started
             /\ Save(t, [rec EXCEPT !.node = "dispatch_decision"], es)
             /\ GoesTo(th, run)
    <2>1. HasStarted(es)
      BY <1>3, <1>9 DEF HasStarted
    <2>2. Continues(task[t], [rec EXCEPT !.node = "dispatch_decision"])
      BY <1>2, <1>3 DEF Continues, TaskRecord, Node
    <2>3. Touches(th)
      BY <1>1, <1>2, <1>9, <2>1, <2>2, SaveTouches
    <2>4. QED
      BY <1>4, <1>5, <1>9, <2>3
  <1>10. QED
    BY <1>7, <1>8, <1>9 DEF ClaimEnd, run

LEMMA ConfirmEndMoves ==
  ASSUME IInv, NEW th \in Threads, NEW mode, ConfirmEnd(th, mode)
  PROVE  Touches(th) /\ Moves(th)
  <1> DEFINE s == thread[th]
             t == s.task
             rec == [task[t] EXCEPT
                       !.contract = TRUE, !.active = 1,
                       !.node = IF s.sat THEN "dispatch_decision" ELSE "waiting_dependencies"]
             next == IF mode = "sync" THEN Doing("claim", t, 0, {})
                     ELSE IF s.sat THEN Doing("claim", t, 1, {}) ELSE Idle
  <1>1. s \in ThreadState /\ t \in Tasks /\ s.pc = "confirm" /\ HolderOK(th)
        /\ Save(t, rec, Append(executions[t], NewExecution(rec, NoKey, 0)))
        /\ lock' = [lock EXCEPT ![t] = NoThread] /\ thread' = [thread EXCEPT ![th] = next]
    BY DEF IInv, TypeOK, ConfirmEnd, ThreadState, GoesTo
  <1>2. lock[t] = th /\ task[t].node = "human_confirmation" /\ task[t].status = "running"
    BY <1>1 DEF HolderOK, Held
  <1>3. task[t] \in TaskRecord /\ executions[t] = <<>> /\ task[t].rounds = <<>>
    BY <1>1, <1>2, RunningRow DEF HasStarted
  <1>4. /\ rec \in TaskRecord /\ rec.status = "running" /\ rec.contract /\ rec.active = 1
        /\ rec.rounds = <<>> /\ rec.node \in {"waiting_dependencies", "dispatch_decision"}
    BY <1>2, <1>3 DEF TaskRecord, Node
  <1>5. next \in ThreadState /\ next.pc \in {"claim", "idle"}
    BY <1>1, IdleState, DoingState
  <1> HIDE DEF rec, next
  <1>6. Opens(task[t], executions[t], task'[t], executions'[t])
    <2>1. task'[t] = rec /\ executions'[t] = SyncProjection(rec, Append(executions[t], NewExecution(rec, NoKey, 0)))
      BY <1>1, SaveRow
    <2>2. ~KeyUsed(executions[t], NoKey)
      BY <1>3 DEF KeyUsed
    <2>3. QED
      BY <1>3, <1>4, <2>1, <2>2 DEF Opens
  <1>7. Touches(th)
    BY <1>1, <1>2, <1>6, SaveRow DEF Touches, RowMoves
  <1>8. Moves(th)
    BY <1>1, <1>5 DEF Moves, Drops, Held
  <1>9. QED
    BY <1>7, <1>8

LEMMA RerunEndMoves ==
  ASSUME IInv, NEW th \in Threads, NEW k \in Keys, NEW source \in Nat,
         RerunEnd(th, k, source)
  PROVE  Touches(th) /\ Moves(th)
  <1> DEFINE s == thread[th]
             t == s.task
             es == executions[t]
             rec == [task[t] EXCEPT
                       !.status = "running", !.active = Len(es) + 1,
                       !.node = IF s.sat THEN "dispatch_decision" ELSE "waiting_dependencies",
                       !.rounds = <<>>, !.awaiting = FALSE, !.depctx = FALSE]
             next == IF s.sat THEN Doing("claim", t, Len(es) + 1, {}) ELSE Idle
  <1>1. s \in ThreadState /\ t \in Tasks /\ s.pc = "rerun" /\ HolderOK(th)
        /\ RowOK(task[t], es) /\ lock' = [lock EXCEPT ![t] = NoThread]
    BY DEF IInv, TypeOK, RerunEnd, ThreadState
  <1>2. lock[t] = th /\ task[t].contract /\ task[t].status # "running"
    BY <1>1 DEF HolderOK, Held
  <1>3. task[t] \in TaskRecord /\ es \in Seq(Execution) /\ es # <<>>
        /\ \A n \in DOMAIN es : es[n].finished
    BY <1>1, <1>2 DEF RowOK, HistoryOf
  <1>4. CASE UNCHANGED <<task, executions>> /\ thread' = [thread EXCEPT ![th] = Idle]
    BY <1>1, <1>4, IdleState DEF Touches, Moves, Drops, Held
  <1>5. CASE /\ ~KeyUsed(es, k)
             /\ Save(t, rec, Append(es, NewExecution(rec, k, source)))
             /\ thread' = [thread EXCEPT ![th] = next]
    <2>1. /\ rec \in TaskRecord /\ rec.status = "running" /\ rec.contract /\ rec.active = Len(es) + 1
          /\ rec.rounds = <<>> /\ rec.node \in {"waiting_dependencies", "dispatch_decision"}
      <3>1. Len(es) + 1 \in Nat /\ <<>> \in Seq(Round) /\ task[t] \in TaskRecord
        BY <1>3
      <3> DEFINE n == Len(es) + 1
      <3> HIDE DEF n
      <3>2. rec = [task[t] EXCEPT
                     !.status = "running", !.active = n,
                     !.node = IF s.sat THEN "dispatch_decision" ELSE "waiting_dependencies",
                     !.rounds = <<>>, !.awaiting = FALSE, !.depctx = FALSE]
        BY DEF n
      <3>3. n \in Nat
        BY <3>1 DEF n
      <3> HIDE DEF rec
      <3>4. rec \in TaskRecord
        BY <3>1, <3>2, <3>3 DEF TaskRecord, Node, Status
      <3>5. QED
        BY <1>2, <3>1, <3>2, <3>4 DEF TaskRecord, n
    <2>2. next \in ThreadState /\ next.pc \in {"claim", "idle"}
      BY <1>1, <1>3, IdleState, DoingState
    <2> HIDE DEF rec, next
    <2>3. Opens(task[t], executions[t], task'[t], executions'[t])
      <3>1. task'[t] = rec /\ executions'[t] = SyncProjection(rec, Append(es, NewExecution(rec, k, source)))
        BY <1>1, <1>5, SaveRow
      <3>2. k # NoKey
        BY NoKeyAssumption
      <3>3. QED
        BY <1>3, <1>5, <2>1, <3>1, <3>2 DEF Opens
    <2>4. Touches(th)
      BY <1>1, <1>2, <1>5, <2>3, SaveRow DEF Touches, RowMoves
    <2>5. Moves(th)
      BY <1>1, <1>5, <2>2 DEF Moves, Drops, Held
    <2>6. QED
      BY <2>4, <2>5
  <1>6. QED
    BY <1>4, <1>5 DEF RerunEnd, GoesTo

LEMMA ResumeScanMoves ==
  ASSUME IInv, NEW th \in Threads, NEW t \in Tasks, ResumeScan(th, t)
  PROVE  Touches(th) /\ Moves(th)
  <1> DEFINE s == thread[th]
             scanned == [s EXCEPT !.todo = @ \ {t}]
             d == [s EXCEPT !.pc = "release", !.task = t]
  <1>1. s \in ThreadState /\ s.pc = "resume" /\ Free(t) /\ UNCHANGED <<task, executions>>
    BY DEF IInv, TypeOK, ResumeScan
  <1>2. CASE GoesTo(th, scanned) /\ UNCHANGED lock
    <2>1. Resting(scanned)
      BY <1>1 DEF Resting, ThreadState, Held
    <2>2. QED
      BY <1>1, <1>2, <2>1, RestMoves DEF Touches
  <1>3. CASE /\ task[t].node = "waiting_dependencies" /\ task[t].status = "running"
             /\ lock' = [lock EXCEPT ![t] = th] /\ GoesTo(th, d)
    <2>1. d \in ThreadState /\ d.pc = "release" /\ d.task = t
      BY <1>1 DEF ThreadState
    <2>2. thread' = [thread EXCEPT ![th] = d]
      BY <1>3 DEF GoesTo
    <2> HIDE DEF d
    <2>3. QED
      BY <1>1, <1>3, <2>1, <2>2 DEF Moves, Touches, Grabs, Free
  <1>4. QED
    BY <1>2, <1>3 DEF ResumeScan

LEMMA ReleaseMoves ==
  ASSUME IInv, NEW th \in Threads, Release(th)
  PROVE  Touches(th) /\ Moves(th)
  <1> DEFINE s == thread[th]
             t == s.task
             rec == [task[t] EXCEPT !.depctx = TRUE]
             d == [s EXCEPT !.pc = "resume", !.task = AnyTask, !.todo = @ \ {t},
                            !.ready = @ \cup {<<t, task[t].active>>}]
  <1>1. /\ s \in ThreadState /\ t \in Tasks /\ s.pc = "release" /\ HolderOK(th)
        /\ task[t] \in TaskRecord /\ Save(t, rec, executions[t])
        /\ lock' = [lock EXCEPT ![t] = NoThread] /\ thread' = [thread EXCEPT ![th] = d]
    BY DEF IInv, TypeOK, Release, ThreadState, GoesTo
  <1>2. /\ lock[t] = th /\ s.pc \in Held
        /\ task[t].status = "running" /\ task[t].node = "waiting_dependencies"
    BY <1>1 DEF HolderOK, Held
  <1>3. d \in ThreadState /\ d.pc = "resume"
    <2>1. s.todo \ {t} \in SUBSET Tasks /\ <<t, task[t].active>> \in Tasks \X Nat
          /\ s.ready \in SUBSET (Tasks \X Nat)
      BY <1>1 DEF ThreadState, TaskRecord
    <2>2. s.ready \cup {<<t, task[t].active>>} \in SUBSET (Tasks \X Nat)
      BY <2>1
    <2>3. AnyTask \in Tasks
      BY TasksAssumption DEF AnyTask
    <2>4. QED
      BY <1>1, <2>1, <2>2, <2>3 DEF ThreadState
  <1>4. /\ rec \in TaskRecord /\ rec.status = "running" /\ rec.rounds = task[t].rounds
        /\ rec.active = task[t].active /\ rec.contract = task[t].contract
        /\ rec.node = "waiting_dependencies"
    BY <1>1, <1>2 DEF TaskRecord
  <1> HIDE DEF rec, d
  <1>5. Continues(task[t], rec)
    BY <1>2, <1>4 DEF Continues
  <1>6. Touches(th)
    BY <1>1, <1>2, <1>4, <1>5, SaveTouches
  <1>7. Moves(th)
    BY <1>1, <1>2, <1>3 DEF Moves, Drops, Held
  <1>8. QED
    BY <1>6, <1>7

LEMMA ResumeNextMoves ==
  ASSUME IInv, NEW th \in Threads, ResumeNext(th)
  PROVE  Touches(th) /\ Moves(th)
  <1>1. thread[th] \in ThreadState /\ thread[th].ready \in SUBSET (Tasks \X Nat)
        /\ UNCHANGED <<task, executions, lock>>
    BY DEF IInv, TypeOK, ResumeNext, ThreadState
  <1>2. CASE GoesTo(th, Idle)
    BY <1>1, <1>2, IdleState, RestMoves DEF Touches, Resting, Held
  <1>3. CASE \E r \in thread[th].ready : GoesTo(th, Doing("claim", r[1], r[2], thread[th].ready \ {r}))
    <2>1. PICK r \in thread[th].ready : GoesTo(th, Doing("claim", r[1], r[2], thread[th].ready \ {r}))
      BY <1>3
    <2>2. r[1] \in Tasks /\ r[2] \in Nat /\ thread[th].ready \ {r} \in SUBSET (Tasks \X Nat)
      BY <1>1
    <2>3. Resting(Doing("claim", r[1], r[2], thread[th].ready \ {r}))
      BY <2>2, DoingState DEF Resting, Held
    <2>4. QED
      BY <1>1, <2>1, <2>3, RestMoves DEF Touches
  <1>4. QED
    BY <1>2, <1>3 DEF ResumeNext

(* What a flow that raises leaves in memory.                                *)
LEMMA RaisedTouches ==
  ASSUME IInv, NEW a, NEW t \in Tasks, Free(t), task[t].status = "running",
         HasStarted(executions[t]),
         NEW rec \in TaskRecord, rec.status = "running", rec.active = task[t].active,
         rec.contract = task[t].contract,
         NEW out \in LeftByRaise(t, rec),
         task' = [task EXCEPT ![t] = out], UNCHANGED executions
  PROVE  Touches(a)
  <1>0. CASE out = task[t]
    BY <1>0 DEF Touches, IInv, TypeOK
  <1> SUFFICES ASSUME out # task[t] PROVE Touches(a)
    BY <1>0
  <1>1. PICK w \in Worked(t, rec), n \in {"dispatch_decision", "subtask_execution", "completion_judge"} :
          out = [w EXCEPT !.node = n]
    BY DEF LeftByRaise, RaisedResults
  <1>2. /\ out \in TaskRecord /\ out.status = "running" /\ out.node # "human_confirmation"
        /\ out.active = task[t].active /\ out.contract = task[t].contract
    BY <1>1, WorkedType DEF TaskRecord, Node
  <1>3. Continues(task[t], out)
    BY <1>2 DEF Continues
  <1>4. task'[t] = out /\ executions' = [executions EXCEPT ![t] = executions'[t]]
    BY DEF IInv, TypeOK
  <1>5. RowMoves(t)
    BY <1>2, <1>3, <1>4 DEF RowMoves, Raises
  <1>6. QED
    BY <1>4, <1>5 DEF Touches, Free

(* The result of a flow that a result handler has run in place.             *)
LEMMA InPlaceTouches ==
  ASSUME IInv, NEW a, NEW t \in Tasks, Free(t), task[t].status = "running",
         HasStarted(executions[t]),
         NEW rec \in TaskRecord, rec.status = "running", rec.active = task[t].active,
         rec.contract = task[t].contract, rec.node # "human_confirmation",
         NEW out \in FlowResults(t, rec),
         Save(t, out, MarkStarted(rec, executions[t]))
  PROVE  Touches(a)
  <1>1. Continues(rec, out)
    BY FlowContinues
  <1>2. Continues(task[t], out)
    BY <1>1 DEF Continues
  <1>3. MarkStarted(rec, executions[t]) = executions[t]
    <2>1. executions[t] \in Seq(Execution) /\ rec.active = Len(executions[t])
      BY RunningRow
    <2>2. QED
      BY <2>1, MarkStartedFacts DEF HasStarted
  <1>4. QED
    BY <1>2, <1>3, SaveTouches

LEMMA SubmitResultMoves ==
  ASSUME IInv, NEW th \in Threads, NEW t \in Tasks, NEW result \in Results,
         NEW complete \in BOOLEAN, SubmitResult(th, t, result, complete)
  PROVE  Touches(th) /\ Moves(th)
  <1> DEFINE rec == task[t]
  <1>1. thread[th].pc = "idle" /\ Free(t) /\ rec.status = "running" /\ rec.contract
        /\ rec.node = "human_intervention" /\ UNCHANGED lock
    BY DEF SubmitResult
  <1>2. rec \in TaskRecord /\ HasStarted(executions[t])
    BY <1>1, RunningRow
  <1>3. Resting(StartResume(Idle))
    BY IdleState, ResumeState
  <1>4. CASE /\ \E gaps \in BOOLEAN : Save(t, Finalize(rec, result, gaps), executions[t])
             /\ GoesTo(th, StartResume(Idle))
    <2>1. PICK gaps \in BOOLEAN : Save(t, Finalize(rec, result, gaps), executions[t])
      BY <1>4
    <2>2. Continues(task[t], Finalize(rec, result, gaps))
      BY <1>1, <1>2, FinalizeContinues, FailuresAssumption DEF Results
    <2>3. QED
      BY <1>1, <1>2, <1>3, <1>4, <2>1, <2>2, SaveTouches, RestMoves
  <1>5. CASE /\ \E out \in FlowResults(t, rec) : Save(t, out, MarkStarted(rec, executions[t]))
             /\ GoesTo(th, StartResume(Idle))
    <2>1. Touches(th)
      BY <1>1, <1>2, <1>5, InPlaceTouches
    <2>2. QED
      BY <1>1, <1>3, <1>5, <2>1, RestMoves
  <1>6. CASE /\ \E out \in LeftByRaise(t, rec) : task' = [task EXCEPT ![t] = out]
             /\ UNCHANGED <<executions, thread>>
    <2>1. Touches(th)
      BY <1>1, <1>2, <1>6, RaisedTouches
    <2>2. QED
      BY <1>1, <1>6, <2>1, IdleMoves
  <1>7. QED
    BY <1>4, <1>5, <1>6 DEF SubmitResult

LEMMA SubmitSubtaskResultMoves ==
  ASSUME IInv, NEW th \in Threads, NEW t \in Tasks, NEW i \in DOMAIN task[t].rounds,
         NEW h \in Slots, NEW result \in Results, NEW mode,
         SubmitSubtaskResult(th, t, i, h, result, mode)
  PROVE  Touches(th) /\ Moves(th)
  <1> DEFINE posted == [task[t] EXCEPT !.rounds[i][h] = result]
             merged == [posted EXCEPT !.node = "context_update"]
             paused == [posted EXCEPT !.node = "human_execution"]
  <1>1. thread[th].pc = "idle" /\ Free(t) /\ task[t].status = "running" /\ UNCHANGED lock
    BY DEF SubmitSubtaskResult
  <1>2. task[t] \in TaskRecord /\ HasStarted(executions[t])
    BY <1>1, RunningRow
  <1>3. /\ posted \in TaskRecord /\ posted.status = "running"
        /\ posted.active = task[t].active /\ posted.contract = task[t].contract
    <2> DEFINE rs == [task[t].rounds EXCEPT ![i][h] = result]
    <2>1. task[t].rounds \in Seq(Round) /\ task[t].rounds[i] \in Round /\ result \in SubtaskStatus
      BY <1>2 DEF TaskRecord, Results, SubtaskStatus
    <2>2. [task[t].rounds[i] EXCEPT ![h] = result] \in Round
      BY <2>1 DEF Round
    <2>3. rs \in Seq(Round)
      BY <2>1, <2>2
    <2>4. posted = [task[t] EXCEPT !.rounds = rs]
      OBVIOUS
    <2> HIDE DEF rs, posted
    <2>5. QED
      BY <1>1, <1>2, <2>3, <2>4 DEF TaskRecord
  <1> HIDE DEF posted
  <1>4. /\ merged \in TaskRecord /\ merged.status = "running" /\ merged.node = "context_update"
        /\ merged.active = task[t].active /\ merged.contract = task[t].contract
    BY <1>3 DEF TaskRecord, Node
  <1>5. Continues(task[t], merged) /\ Continues(task[t], paused)
    BY <1>1, <1>3, <1>4 DEF Continues, TaskRecord, Node
  <1>6. Resting(StartResume(Idle)) /\ Resting(Doing("claim", t, 0, {}))
    BY IdleState, ResumeState, DoingState DEF Resting, Held
  <1> HIDE DEF merged, paused
  <1>7. CASE /\ result # "succeeded"
             /\ Save(t, Finalize(merged, result, FALSE), executions[t])
             /\ GoesTo(th, StartResume(Idle))
    <2>1. Continues(merged, Finalize(merged, result, FALSE))
      BY <1>4, FinalizeContinues, FailuresAssumption DEF Results
    <2>2. Continues(task[t], Finalize(merged, result, FALSE))
      BY <1>1, <1>4, <2>1 DEF Continues
    <2>3. QED
      BY <1>1, <1>2, <1>6, <1>7, <2>2, SaveTouches, RestMoves
  <1>8. CASE Save(t, paused, executions[t]) /\ UNCHANGED thread
    BY <1>1, <1>2, <1>5, <1>8, SaveTouches, IdleMoves
  <1>9. CASE Save(t, merged, executions[t]) /\ GoesTo(th, Doing("claim", t, 0, {}))
    BY <1>1, <1>2, <1>5, <1>6, <1>9, SaveTouches, RestMoves
  <1>10. CASE /\ \E out \in FlowResults(t, merged) : Save(t, out, MarkStarted(merged, executions[t]))
              /\ GoesTo(th, StartResume(Idle))
    <2>1. Touches(th)
      BY <1>1, <1>2, <1>4, <1>10, InPlaceTouches
    <2>2. QED
      BY <1>1, <1>6, <1>10, <2>1, RestMoves
  <1>11. CASE /\ \E out \in LeftByRaise(t, merged) : task' = [task EXCEPT ![t] = out]
              /\ UNCHANGED <<executions, thread>>
    <2>1. Touches(th)
      BY <1>1, <1>2, <1>4, <1>11, RaisedTouches
    <2>2. QED
      BY <1>1, <1>11, <2>1, IdleMoves
  <1>12. QED
    BY <1>7, <1>8, <1>9, <1>10, <1>11 DEF SubmitSubtaskResult, posted, merged, paused
-----------------------------------------------------------------------------
(* The invariant. *)

LEMMA ThreadStepMoves ==
  ASSUME IInv, NEW th \in Threads, ThreadStep(th)
  PROVE  Touches(th) /\ Moves(th)
  <1>1. ASSUME NEW k \in Keys, NEW source \in DOMAIN executions[thread[th].task],
               RerunEnd(th, k, source)
        PROVE  Touches(th) /\ Moves(th)
    <2>1. source \in Nat
      BY DEF IInv, TypeOK, ThreadState
    <2>2. QED
      BY <1>1, <2>1, RerunEndMoves
  <1>2. QED
    BY <1>1, ConfirmEndMoves, ClaimBeginMoves, ClaimEndMoves, RunClaimedMoves,
       ResumeScanMoves, ReleaseMoves, ResumeNextMoves DEF ThreadStep

LEMMA RequestMoves ==
  ASSUME IInv, NEW th \in Threads, NEW t \in Tasks, Request(th, t)
  PROVE  Touches(th) /\ Moves(th)
  BY ConfirmBeginMoves, SubmitResultMoves, SubmitSubtaskResultMoves, RerunBeginMoves
     DEF Request

LEMMA StepTouches ==
  ASSUME IInv, Next
  PROVE  \/ \E th \in Threads : Touches(th) /\ Moves(th)
         \/ Touches(NoThread) /\ UNCHANGED <<lock, thread>>
         \/ Crash
  BY CreateTouches, CancelTouches, RequestMoves, ThreadStepMoves DEF Next, Operation

LEMMA InitIInv == Init => IInv
  <1> SUFFICES ASSUME Init PROVE IInv
    OBVIOUS
  <1>1. Absent \in TaskRecord
    BY DEF Absent, TaskRecord, Status, Node
  <1>2. TypeOK
    BY <1>1, IdleState DEF Init, TypeOK
  <1>3. ASSUME NEW t \in Tasks PROVE RowOK(task[t], executions[t])
    <2>1. task[t] = Absent /\ executions[t] = <<>>
      BY DEF Init
    <2>2. QED
      BY <1>1, <2>1 DEF RowOK, HistoryOf, DraftOf, UnstartedOf, KeysOf, Absent
  <1>4. ASSUME NEW th \in Threads PROVE HolderOK(th)
    BY IdleState DEF Init, HolderOK, Held
  <1>5. QED
    BY <1>2, <1>3, <1>4 DEF IInv

LEMMA CrashIInv == ASSUME IInv, Crash PROVE IInv'
  <1>1. TypeOK'
    BY IdleState DEF IInv, TypeOK, Crash
  <1>2. \A t \in Tasks : RowOK(task'[t], executions'[t])
    BY DEF IInv, Crash
  <1>3. (\A t \in Tasks : RowOK(task[t], executions[t]))'
    BY <1>2, RowsPrime
  <1>4. ASSUME NEW th \in Threads PROVE HolderOK(th)'
    BY IdleState DEF Crash, HolderOK, Held
  <1>5. QED
    BY <1>1, <1>3, <1>4 DEF IInv

LEMMA StutterIInv == ASSUME IInv, UNCHANGED vars PROVE IInv'
  BY NobodyHold DEF vars, Touches

(* The invariant holds in every state, with and without crashes.            *)
THEOREM Invariance == Spec => []IInv
  <1>1. Init => IInv
    BY InitIInv
  <1>2. IInv /\ [Next]_vars => IInv'
    BY StepTouches, MovesHold, NobodyHold, CrashIInv, StutterIInv
  <1>3. QED
    BY <1>1, <1>2, PTL DEF Spec

(* Every variable has its type.                                             *)
THEOREM TypeCorrect == Spec => []TypeOK
  <1>1. IInv => TypeOK
    BY DEF IInv
  <1>2. QED
    BY <1>1, Invariance, PTL

(* A task has one open execution at most, the last one, and only while it   *)
(* runs: HistoryOK for any number of tasks, threads, reruns and rounds.     *)
THEOREM History == Spec => []HistoryOK
  <1>1. IInv => HistoryOK
    BY DEF IInv, RowOK, HistoryOK
  <1>2. QED
    BY <1>1, Invariance, PTL

(* One idempotency key makes one execution.                                 *)
THEOREM KeysAreUnique == Spec => []KeysUnique
  <1>1. IInv => KeysUnique
    BY DEF IInv, RowOK, KeysOf, KeysUnique
  <1>2. QED
    BY <1>1, Invariance, PTL

(* A succeeded task has no open or failed human subtask.                    *)
THEOREM SuccessIsClean == Spec => []NoSuccessOverOpenWork
  <1>1. IInv => NoSuccessOverOpenWork
    BY DEF IInv, RowOK, NoSuccessOverOpenWork
  <1>2. QED
    BY <1>1, Invariance, PTL
-----------------------------------------------------------------------------
(* Action properties: what a step does to the executions of a task. *)

LEMMA NextFreezes ==
  ASSUME IInv, [Next]_vars, NEW t \in Tasks
  PROVE  \/ executions'[t] = executions[t]
         \/ RowMoves(t)
  BY StepTouches, StillOrMoves DEF Crash, vars

(* A finished execution is never rewritten and none is dropped.             *)
THEOREM Frozen == Spec => FinishedFrozen
  <1> DEFINE Kept(t) == \A n \in DOMAIN executions[t] :
               /\ n \in DOMAIN executions'[t]
               /\ executions[t][n].finished => executions'[t][n] = executions[t][n]
  <1>1. ASSUME IInv, [Next]_vars, NEW t \in Tasks
        PROVE  Kept(t)
    BY <1>1, NextFreezes, RowFreezes DEF IInv
  <1>2. IInv /\ [Next]_vars => [\A t \in Tasks : Kept(t)]_vars
    BY <1>1
  <1>3. QED
    BY <1>2, Invariance, PTL DEF Spec, FinishedFrozen

(* An execution starts only after every prerequisite has succeeded: between  *)
(* the look at the prerequisites and the start only reruns can come, and     *)
(* these leave the success in the history.                                  *)
THEOREM StartsLate == Spec => StartsAfterPrerequisites
  <1> DEFINE Allowed(t) == \A n \in DOMAIN executions[t] :
               ~executions[t][n].started /\ executions'[t][n].started
                 => \A d \in Deps[t] : HasSucceeded(d)
  <1>1. ASSUME IInv, [Next]_vars, NEW t \in Tasks
        PROVE  Allowed(t)
    <2> DEFINE es == executions[t]
               es2 == executions'[t]
    <2>1. RowOK(task[t], es) /\ es \in Seq(Execution)
      BY <1>1 DEF IInv, RowOK
    <2>2. CASE es2 = es
      BY <2>2
    <2>3. CASE Goes(task[t], es, task'[t], es2)
      <3>1. task'[t] \in TaskRecord /\ task'[t].active = Len(es) /\ es2 = SyncProjection(task'[t], es)
        BY <2>1, <2>3 DEF Goes, Continues, RowOK, HistoryOf
      <3>2. ASSUME NEW n \in DOMAIN es PROVE es2[n].started = es[n].started
        <4>1. CASE n # Len(es) \/ es[n].finished
          BY <2>1, <3>1, <4>1, SyncFacts
        <4>2. CASE n = Len(es) /\ ~es[n].finished
          BY <2>1, <3>1, <4>2, SyncFacts, ProjectionType
        <4>3. QED
          BY <4>1, <4>2
      <3>3. QED
        BY <3>2
    <2>4. CASE Opens(task[t], es, task'[t], es2)
      BY <2>1, <2>4, OpensFacts
    <2>5. CASE Claiming(t)
      BY <1>1, <2>5 DEF Claiming, IInv, HolderOK, PrerequisitesHadSuccess
    <2>6. QED
      BY <1>1, <2>2, <2>3, <2>4, <2>5, NextFreezes DEF RowMoves, Creates, Raises
  <1>2. IInv /\ [Next]_vars => [\A t \in Tasks : Allowed(t)]_vars
    BY <1>1
  <1>3. QED
    BY <1>2, Invariance, PTL DEF Spec, StartsAfterPrerequisites

(* A thread that runs a flow leaves it by RunClaimed only, or by a crash.   *)
LEMMA RunEnds ==
  ASSUME IInv, [Next]_vars, NEW th \in Threads, thread[th].pc = "run", thread'[th].pc # "run"
  PROVE  RunClaimed(th) \/ UNCHANGED executions
  <1>1. thread \in [Threads -> ThreadState]
    BY DEF IInv, TypeOK
  <1>2. ASSUME NEW a \in Threads, Moves(a) PROVE a = th
    BY <1>1, <1>2 DEF Moves
  <1>3. CASE Crash \/ UNCHANGED vars
    BY <1>3 DEF Crash, vars
  <1>4. CASE \E t \in Tasks : CreateRequest(t) \/ CancelUnconfirmed(t)
    BY <1>4 DEF CreateRequest, CancelUnconfirmed
  <1>5. CASE \E a \in Threads, t \in Tasks : Request(a, t)
    <2>1. PICK a \in Threads, t \in Tasks : Request(a, t)
      BY <1>5
    <2>2. a = th
      BY <1>2, <2>1, RequestMoves
    <2>3. ASSUME NEW i, NEW h, NEW result, NEW mode, SubmitSubtaskResult(a, t, i, h, result, mode)
          PROVE  thread[a].pc = "idle"
      BY <2>3 DEF SubmitSubtaskResult
    <2>4. ASSUME NEW result, NEW complete, SubmitResult(a, t, result, complete)
          PROVE  thread[a].pc = "idle"
      BY <2>4 DEF SubmitResult
    <2>5. thread[a].pc = "idle"
      BY <2>1, <2>3, <2>4 DEF Request, ConfirmBegin, RerunBegin
    <2>6. QED
      BY <2>2, <2>5
  <1>6. CASE \E a \in Threads : ThreadStep(a)
    <2>1. PICK a \in Threads : ThreadStep(a)
      BY <1>6
    <2>2. a = th
      BY <1>2, <2>1, ThreadStepMoves
    <2>3. CASE RunClaimed(a)
      BY <2>2, <2>3
    <2>4. CASE ~RunClaimed(a)
      <3>1. \A mode : ConfirmEnd(a, mode) => thread[a].pc = "confirm"
        BY DEF ConfirmEnd
      <3>2. (ClaimBegin(a) => thread[a].pc = "claim") /\ (ClaimEnd(a) => thread[a].pc = "claiming")
        BY DEF ClaimBegin, ClaimEnd
      <3>3. (\A t : ResumeScan(a, t) => thread[a].pc = "resume")
            /\ (Release(a) => thread[a].pc = "release")
        BY DEF ResumeScan, Release
      <3>4. ResumeNext(a) => thread[a].pc = "resume"
        BY DEF ResumeNext
      <3>5. \A k, source : RerunEnd(a, k, source) => thread[a].pc = "rerun"
        BY DEF RerunEnd
      <3>6. QED
        BY <2>1, <2>2, <2>4, <3>1, <3>2, <3>3, <3>4, <3>5 DEF ThreadStep
    <2>5. QED
      BY <2>3, <2>4
  <1>7. QED
    BY <1>3, <1>4, <1>5, <1>6 DEF Next, Operation

LEMMA RunOnOwn ==
  ASSUME IInv, NEW th \in Threads, RunClaimed(th), NEW t \in Tasks,
         NEW n \in DOMAIN executions[t], executions'[t][n] # executions[t][n]
  PROVE  t = thread[th].task /\ n = thread[th].exec
  <1> DEFINE own == thread[th].task
  <1>1. own \in Tasks /\ thread[th].exec # 0 /\ executions \in [Tasks -> Seq(Execution)]
    BY DEF IInv, TypeOK, HolderOK, ThreadState, RunClaimed
  <1>2. PICK result \in FlowResults(own, task[own]) \cup {Finalize(task[own], "failed", FALSE)} :
          Save(own, result, executions[own])
    BY DEF RunClaimed
  <1>3. task[own].status = "running" /\ task[own].active = thread[th].exec
    BY <1>1, <1>2 DEF RunClaimed, Runnable
  <1>4. /\ task[own] \in TaskRecord /\ task[own].node # "human_confirmation"
        /\ task[own].active = Len(executions[own]) /\ executions[own] \in Seq(Execution)
    BY <1>1, <1>3, RunningRow
  <1>5. result \in TaskRecord /\ result.active = task[own].active
    <2>1. CASE result \in FlowResults(own, task[own])
      <3>1. SameTask(task[own], result)
        BY <1>1, <1>4, <2>1, FlowType
      <3>2. QED
        BY <3>1 DEF SameTask
    <2>2. CASE result = Finalize(task[own], "failed", FALSE)
      <3>1. "failed" \in {"succeeded", "cancelled"} \cup Failures
        BY FailuresAssumption
      <3>2. Finalize(task[own], "failed", FALSE) \in TaskRecord
            /\ Finalize(task[own], "failed", FALSE).active = task[own].active
        BY <1>4, <3>1, FinalizeType
      <3>3. QED
        BY <2>2, <3>2
    <2>3. QED
      BY <1>2, <2>1, <2>2
  <1>6. executions'[own] = SyncProjection(result, executions[own])
        /\ (t # own => executions'[t] = executions[t])
    BY <1>1, <1>2 DEF Save
  <1>7. t = own
    BY <1>6
  <1>8. n = Len(executions[own])
    <2>1. result.active = Len(executions[own]) /\ n \in 1..Len(executions[own])
      BY <1>4, <1>5, <1>7
    <2>2. SyncProjection(result, executions[own])[n] # executions[own][n]
      BY <1>6, <1>7
    <2>3. QED
      BY <1>4, <1>5, <2>1, <2>2, SyncFacts
  <1>9. QED
    BY <1>3, <1>4, <1>7, <1>8

(* The result of a run lands on the execution it was claimed for.           *)
THEOREM ResultsLand == Spec => ResultsLandOnOwnExecution
  <1> DEFINE Lands(th) ==
        thread[th].pc = "run" /\ thread'[th].pc # "run" =>
          \A t \in Tasks : \A n \in DOMAIN executions[t] :
            executions'[t][n] # executions[t][n] =>
              t = thread[th].task /\ n = thread[th].exec
  <1>1. ASSUME IInv, [Next]_vars, NEW th \in Threads PROVE Lands(th)
    BY <1>1, RunEnds, RunOnOwn
  <1>2. IInv /\ [Next]_vars => [\A th \in Threads : Lands(th)]_vars
    BY <1>1
  <1>3. QED
    BY <1>2, Invariance, PTL DEF Spec, ResultsLandOnOwnExecution
-----------------------------------------------------------------------------
(* The executions implement the ledger. *)

View(e) == [state |-> IF e.finished THEN "closed"
                      ELSE IF e.started THEN "started" ELSE "open",
            outcome |-> e.status,
            key |-> e.key]

LEMMA LedgerOfView ==
  ASSUME NEW es \in Seq(Execution)
  PROVE  /\ LedgerOf(es) = [n \in 1..Len(es) |-> View(es[n])]
         /\ DOMAIN LedgerOf(es) = 1..Len(es)
         /\ Len(LedgerOf(es)) = Len(es)
  BY DEF LedgerOf, View

\* The abstract steps on the ledger l of one task.
Opened(l, l2) ==
  /\ \A n \in DOMAIN l : l[n].state = "closed"
  /\ \E k \in Keys \cup {NoKey} :
       /\ k = NoKey <=> l = <<>>
       /\ \A n \in DOMAIN l : l[n].key # k
       /\ l2 = Append(l, [state |-> "open", outcome |-> "running", key |-> k])
Started(l, l2) ==
  \E n \in DOMAIN l : l[n].state = "open" /\ l2 = [l EXCEPT ![n].state = "started"]
Closed(l, l2) ==
  \E n \in DOMAIN l, outcome \in {"succeeded"} \cup Failures :
    l[n].state = "started" /\ l2 = [l EXCEPT ![n] = [@ EXCEPT !.state = "closed", !.outcome = outcome]]

LEMMA CloseView ==
  ASSUME NEW outcome, NEW key
  PROVE  [[state |-> "started", outcome |-> "running", key |-> key]
            EXCEPT !.state = "closed", !.outcome = outcome]
         = [state |-> "closed", outcome |-> outcome, key |-> key]
  <1> DEFINE left == [[state |-> "started", outcome |-> "running", key |-> key]
                        EXCEPT !.state = "closed", !.outcome = outcome]
             right == [state |-> "closed", outcome |-> outcome, key |-> key]
             only == [state : {"closed"}, outcome : {outcome}, key : {key}]
  <1>1. left \in only /\ right \in only
    OBVIOUS
  <1> HIDE DEF left, right
  <1>2. left = right
    BY <1>1
  <1>3. QED
    BY <1>2 DEF left, right

(* A change of the last entry only.                                         *)
LEMMA LastEntry ==
  ASSUME NEW es \in Seq(Execution), NEW es2 \in Seq(Execution), es # <<>>, Len(es2) = Len(es),
         \A n \in 1..Len(es) : n # Len(es) => es2[n] = es[n]
  PROVE  /\ Len(es) \in 1..Len(es)
         /\ LedgerOf(es2) = [LedgerOf(es) EXCEPT ![Len(es)] = View(es2[Len(es)])]
         /\ LedgerOf(es)[Len(es)] = View(es[Len(es)])
  <1>1. Len(es) \in 1..Len(es)
    OBVIOUS
  <1>2. LedgerOf(es2) = [n \in 1..Len(es) |-> View(es2[n])] /\ LedgerOf(es) = [n \in 1..Len(es) |-> View(es[n])]
    BY LedgerOfView
  <1>3. QED
    BY <1>1, <1>2

LEMMA GoesLedger ==
  ASSUME NEW rec, NEW es, NEW rec2, NEW es2, RowOK(rec, es), Goes(rec, es, rec2, es2)
  PROVE  LedgerOf(es2) = LedgerOf(es) \/ Closed(LedgerOf(es), LedgerOf(es2))
  <1>1. /\ rec2 \in TaskRecord /\ rec2.active = Len(es) /\ es2 = SyncProjection(rec2, es)
        /\ es \in Seq(Execution) /\ es2 \in Seq(Execution) /\ Len(es2) = Len(es)
        /\ \A n \in 1..Len(es) : n # Len(es) => es2[n] = es[n]
    <2>1. /\ rec2 \in TaskRecord /\ rec2.active = Len(es) /\ es2 = SyncProjection(rec2, es)
          /\ es \in Seq(Execution)
      BY DEF Goes, Continues, RowOK, HistoryOf
    <2>2. QED
      BY <2>1, SyncFacts
  <1>2. CASE es = <<>>
    <2>1. es2 = es
      BY <1>1, <1>2
    <2>2. QED
      BY <2>1
  <1>3. CASE es # <<>>
    <2> DEFINE e == es[Len(es)]
               e2 == es2[Len(es)]
               l == LedgerOf(es)
    <2>1. /\ e \in Execution /\ ~e.finished /\ e.status = "running" /\ rec.contract
      BY <1>1, <1>3 DEF RowOK, HistoryOf, Goes, Continues
    <2>2. /\ e2.status = rec2.status /\ e2.started = e.started /\ e2.key = e.key
          /\ e2.finished <=> rec2.status # "running"
      BY <1>1, <1>3, <2>1, SyncFacts, ProjectionType
    <2>3. /\ Len(es) \in 1..Len(es) /\ LedgerOf(es2) = [l EXCEPT ![Len(es)] = View(e2)]
          /\ l[Len(es)] = View(e) /\ DOMAIN l = 1..Len(es)
      BY <1>1, <1>3, LastEntry, LedgerOfView
    <2>4. CASE rec2.status = "running"
      <3>1. View(e2) = View(e)
        BY <2>1, <2>2, <2>4 DEF View
      <3>2. LedgerOf(es2) = l
        BY <1>1, <2>3, <3>1, LedgerOfView
      <3>3. QED
        BY <3>2
    <2>5. CASE rec2.status # "running"
      <3>1. e.started
        BY <1>3, <2>5 DEF Goes, HasStarted
      <3>2. rec2.status \in {"succeeded"} \cup Failures
        BY <1>1, <2>1, <2>5 DEF Goes, Continues, TaskRecord, Status
      <3> HIDE DEF e, e2, l
      <3>3. View(e).state = "started"
        BY <2>1, <3>1 DEF View
      <3>4. View(e2) = [View(e) EXCEPT !.state = "closed", !.outcome = rec2.status]
        <4>1. e2.finished
          BY <2>2, <2>5
        <4>2. View(e2) = [state |-> "closed", outcome |-> rec2.status, key |-> e.key]
          BY <2>2, <4>1 DEF View
        <4>3. View(e) = [state |-> "started", outcome |-> "running", key |-> e.key]
          BY <2>1, <3>1 DEF View
        <4>4. QED
          BY <4>2, <4>3, CloseView
      <3>5. LedgerOf(es2) = [l EXCEPT ![Len(es)] =
              [l[Len(es)] EXCEPT !.state = "closed", !.outcome = rec2.status]]
        BY <2>3, <3>4
      <3>6. Closed(l, LedgerOf(es2))
        BY <2>3, <3>2, <3>3, <3>5 DEF Closed
      <3>7. QED
        BY <3>6 DEF l
    <2>6. QED
      BY <2>4, <2>5
  <1>4. QED
    BY <1>2, <1>3

LEMMA StartsLedger ==
  ASSUME NEW rec, NEW es, NEW rec2, NEW es2, RowOK(rec, es), Starts(rec, es, rec2, es2)
  PROVE  LedgerOf(es2) = LedgerOf(es) \/ Started(LedgerOf(es), LedgerOf(es2))
  <1> DEFINE e == es[Len(es)]
             e2 == es2[Len(es)]
             l == LedgerOf(es)
  <1>1. /\ es \in Seq(Execution) /\ es # <<>> /\ rec.active = Len(es) /\ rec.status = "running"
        /\ e.status = "running"
    BY DEF RowOK, Starts, HistoryOf
  <1>2. /\ es2 \in Seq(Execution) /\ Len(es2) = Len(es)
        /\ (\A n \in 1..Len(es) : n # Len(es) => es2[n] = es[n])
        /\ e2.status = "running" /\ ~e.finished /\ ~e2.finished /\ e2.started /\ e2.key = e.key
    BY StartsFacts
  <1>3. /\ Len(es) \in 1..Len(es) /\ LedgerOf(es2) = [l EXCEPT ![Len(es)] = View(e2)]
        /\ l[Len(es)] = View(e) /\ DOMAIN l = 1..Len(es) /\ l = [n \in 1..Len(es) |-> View(es[n])]
    BY <1>1, <1>2, LastEntry, LedgerOfView
  <1> HIDE DEF e, e2, l
  <1>4. View(e2) = [state |-> "started", outcome |-> "running", key |-> e.key]
    BY <1>2 DEF View
  <1>5. CASE e.started
    <2>1. View(e2) = View(e)
      BY <1>1, <1>2, <1>4, <1>5 DEF View
    <2>2. LedgerOf(es2) = l
      BY <1>3, <2>1
    <2>3. QED
      BY <2>2 DEF l
  <1>6. CASE ~e.started
    <2>1. View(e) = [state |-> "open", outcome |-> "running", key |-> e.key]
      BY <1>1, <1>2, <1>6 DEF View
    <2>2. View(e).state = "open" /\ View(e2) = [View(e) EXCEPT !.state = "started"]
      BY <1>4, <2>1
    <2>3. LedgerOf(es2) = [l EXCEPT ![Len(es)].state = "started"]
      BY <1>3, <2>2
    <2>4. Started(l, LedgerOf(es2))
      BY <1>3, <2>2, <2>3 DEF Started
    <2>5. QED
      BY <2>4 DEF l
  <1>7. QED
    BY <1>5, <1>6

LEMMA OpensLedger ==
  ASSUME NEW rec, NEW es, NEW rec2, NEW es2, RowOK(rec, es), Opens(rec, es, rec2, es2)
  PROVE  Opened(LedgerOf(es), LedgerOf(es2))
  <1> DEFINE l == LedgerOf(es)
             l2 == LedgerOf(es2)
             k == es2[Len(es) + 1].key
             new == [state |-> "open", outcome |-> "running", key |-> k]
  <1>1. es \in Seq(Execution)
    BY DEF RowOK
  <1>2. /\ es2 \in Seq(Execution) /\ Len(es2) = Len(es) + 1
        /\ (\A n \in 1..Len(es) : es2[n] = es[n] /\ es[n].finished /\ es[n].key # k)
        /\ k \in Keys \cup {NoKey} /\ (k = NoKey <=> es = <<>>)
        /\ es2[Len(es) + 1].status = "running"
        /\ ~es2[Len(es) + 1].finished /\ ~es2[Len(es) + 1].started
    BY OpensFacts
  <1>3. View(es2[Len(es) + 1]) = new
    BY <1>2 DEF View
  <1> HIDE DEF new, k
  <1>4. /\ l = [n \in 1..Len(es) |-> View(es[n])]
        /\ l2 = [n \in 1..(Len(es) + 1) |-> View(es2[n])]
    BY <1>1, <1>2, LedgerOfView
  <1>5. /\ \A n \in DOMAIN l : l[n].state = "closed" /\ l[n].key # k
        /\ l = <<>> <=> es = <<>>
    <2>1. \A n \in 1..Len(es) : View(es[n]).state = "closed" /\ View(es[n]).key # k
      BY <1>2 DEF View
    <2>2. l = <<>> <=> es = <<>>
      BY <1>1, <1>4
    <2>3. QED
      BY <1>4, <2>1, <2>2
  <1>6. l2 = Append(l, new)
    <2> DEFINE S == {View(e) : e \in Execution}
    <2>1. es2[Len(es) + 1] \in Execution /\ Len(es) \in Nat
      BY <1>1, <1>2
    <2>2. new \in S
      BY <1>3, <2>1
    <2>3. l \in Seq(S) /\ Len(l) = Len(es)
      BY <1>1, <1>4
    <2>4. l2 \in Seq(S) /\ Len(l2) = Len(es) + 1
      BY <1>2, <1>4
    <2> HIDE DEF S
    <2>5. /\ Append(l, new) \in Seq(S) /\ Len(Append(l, new)) = Len(l) + 1
          /\ \A n \in 1..Len(l) : Append(l, new)[n] = l[n]
          /\ Append(l, new)[Len(l) + 1] = new
      BY <2>2, <2>3, AppendProperties
    <2>6. ASSUME NEW n \in 1..(Len(es) + 1) PROVE l2[n] = Append(l, new)[n]
      <3>1. CASE n = Len(es) + 1
        <4>1. l2[n] = View(es2[n])
          BY <1>4
        <4>2. Append(l, new)[n] = new
          BY <2>3, <2>5, <3>1
        <4>3. QED
          BY <1>3, <3>1, <4>1, <4>2
      <3>2. CASE n \in 1..Len(es)
        <4>1. l2[n] = View(es2[n]) /\ l[n] = View(es[n])
          BY <1>4, <3>2
        <4>2. Append(l, new)[n] = l[n]
          BY <2>3, <2>5, <3>2
        <4>3. QED
          BY <1>2, <3>2, <4>1, <4>2
      <3>3. n = Len(es) + 1 \/ n \in 1..Len(es)
        BY <2>1
      <3>4. QED
        BY <3>1, <3>2, <3>3
    <2>7. QED
      BY <2>1, <2>3, <2>4, <2>5, <2>6, SeqEqual
  <1> HIDE DEF l, l2
  <1>7. Opened(l, l2)
    BY <1>2, <1>5, <1>6 DEF Opened, new
  <1>8. QED
    BY <1>7 DEF l, l2

LEMMA RowLedger ==
  ASSUME NEW t \in Tasks, RowOK(task[t], executions[t]), RowMoves(t)
  PROVE  LET l == LedgerOf(executions[t])
             l2 == LedgerOf(executions'[t])
         IN  l2 = l \/ Opened(l, l2) \/ Started(l, l2) \/ Closed(l, l2)
  BY GoesLedger, StartsLedger, OpensLedger DEF RowMoves, Creates, Raises

(* The steps of the task service are steps of the ledger or leave it alone. *)
THEOREM Refinement == Spec => ImplementsLedger
  <1> DEFINE H == [t \in Tasks |-> LedgerOf(executions[t])]
  <1>1. Init => Ledger!Init
    <2> SUFFICES ASSUME Init PROVE Ledger!Init
      OBVIOUS
    <2>1. \A t \in Tasks : LedgerOf(executions[t]) = <<>>
      BY DEF Init, LedgerOf
    <2>2. QED
      BY <2>1 DEF Ledger!Init
  <1>2. ASSUME IInv, [Next]_vars
        PROVE  [Ledger!Next]_H
    <2>1. CASE UNCHANGED executions
      BY <2>1
    <2>2. CASE \E t \in Tasks : /\ RowMoves(t)
                               /\ executions' = [executions EXCEPT ![t] = executions'[t]]
      <3>1. PICK t \in Tasks : /\ RowMoves(t)
                              /\ executions' = [executions EXCEPT ![t] = executions'[t]]
        BY <2>2
      <3> DEFINE l == LedgerOf(executions[t])
                 l2 == LedgerOf(executions'[t])
      <3>2. l2 = l \/ Opened(l, l2) \/ Started(l, l2) \/ Closed(l, l2)
        BY <1>2, <3>1, RowLedger DEF IInv
      <3>3. H[t] = l /\ H' = [H EXCEPT ![t] = l2]
        <4>1. executions \in [Tasks -> Seq(Execution)]
          BY <1>2 DEF IInv, TypeOK
        <4>2. \A u \in Tasks : u # t => executions'[u] = executions[u]
          BY <3>1, <4>1
        <4>3. H' = [u \in Tasks |-> LedgerOf(executions'[u])]
          OBVIOUS
        <4>4. QED
          BY <4>2, <4>3
      <3>9. DOMAIN H = Tasks /\ [H EXCEPT ![t] = H[t]] = H
        OBVIOUS
      <3> HIDE DEF H, l, l2
      <3>4. CASE l2 = l
        BY <3>3, <3>4, <3>9
      <3>5. CASE Opened(l, l2)
        <4>1. /\ \A n \in DOMAIN H[t] : H[t][n].state = "closed"
              /\ \E k \in Keys \cup {NoKey} :
                   /\ k = NoKey <=> H[t] = <<>>
                   /\ \A n \in DOMAIN H[t] : H[t][n].key # k
                   /\ H' = [H EXCEPT ![t] =
                        Append(H[t], [state |-> "open", outcome |-> "running", key |-> k])]
          BY <3>3, <3>5 DEF Opened
        <4>2. Ledger!Open(t)
          BY <4>1 DEF H, Ledger!Open
        <4>3. QED
          BY <4>2 DEF Ledger!Next
      <3>6. CASE Started(l, l2)
        <4>1. \E n \in DOMAIN H[t] :
                H[t][n].state = "open" /\ H' = [H EXCEPT ![t] = [H[t] EXCEPT ![n].state = "started"]]
          BY <3>3, <3>6 DEF Started
        <4>2. Ledger!Start(t)
          BY <4>1 DEF H, Ledger!Start
        <4>3. QED
          BY <4>2 DEF Ledger!Next
      <3>7. CASE Closed(l, l2)
        <4>1. \E n \in DOMAIN H[t], outcome \in {"succeeded"} \cup Failures :
                /\ H[t][n].state = "started"
                /\ H' = [H EXCEPT ![t] = [H[t] EXCEPT ![n] =
                           [H[t][n] EXCEPT !.state = "closed", !.outcome = outcome]]]
          BY <3>3, <3>7 DEF Closed
        <4>2. Ledger!Close(t)
          BY <4>1 DEF H, Ledger!Close
        <4>3. QED
          BY <4>2 DEF Ledger!Next
      <3>8. QED
        BY <3>2, <3>4, <3>5, <3>6, <3>7
    <2>3. QED
      BY <1>2, <2>1, <2>2, StepTouches DEF Touches, Crash, vars
  <1>3. IInv /\ [Next]_vars => [Ledger!Next]_H
    BY <1>2
  <1>4. QED
    BY <1>1, <1>3, Invariance, PTL DEF Spec, ImplementsLedger, Ledger!Spec
=============================================================================
