---------------------------- MODULE TaskGraphProofs ----------------------------
(* Proofs about TaskGraph for every number of subtasks in a round, every    *)
(* loop limit, every number of retries and of results posted again, and     *)
(* both kinds of store.                                                     *)
EXTENDS TaskGraph, FiniteSetTheorems, WellFoundedInduction, TLAPS

(* The rounds of a task have growing numbers.  A failed tool fails its      *)
(* subtask.                                                                 *)
Numbered(t) ==
  \A i \in DOMAIN t.rounds :
    /\ i <= t.rounds[i].index
    /\ \A j \in DOMAIN t.rounds : i < j => t.rounds[i].index < t.rounds[j].index
Honest(work) == \A s \in DOMAIN work : work[s].tools = "failed" => work[s].status = "failed"
RoundsOK(t) == Numbered(t) /\ \A i \in DOMAIN t.rounds : Honest(t.rounds[i].work)

Unfailed(work) == \A s \in DOMAIN work : work[s].status # "failed"
NothingFailed(t) == \A i \in DOMAIN t.rounds : Unfailed(t.rounds[i].work)
NothingBlocks(t) == \A i \in DOMAIN t.rounds : ~Blocking(t.rounds[i].work)
NothingOpen(t) == \A i \in DOMAIN t.rounds : ~Open(t.rounds[i].work)
OnlyLastOpen(t) == \A i \in DOMAIN t.rounds : i < Len(t.rounds) => ~Open(t.rounds[i].work)

DoneIn(t) == UNION {Done(t.rounds[i]) : i \in DOMAIN t.rounds}
DoneBefore(t) == UNION {Done(t.rounds[i]) : i \in 1..Len(t.rounds) - 1}

(* Rounds and counter: a round has the number the counter had, and the one  *)
(* that makes the counter reach the limit is not run.                       *)
Below(t, n) == \A i \in DOMAIN t.rounds : t.rounds[i].index < n
Counted(t) == t.loop < MaxLoop /\ Below(t, t.loop + 1)
Limited(t) == t.loop = MaxLoop /\ Below(t, MaxLoop)
Counting(t) == t.loop > 0 /\ t.loop < MaxLoop /\ Below(t, t.loop)

(* A task between two runs.                                                 *)
StoredOK(t) ==
  /\ RoundsOK(t)
  /\ t.status # "running" => t.node = "completion_judge"
  /\ t.status = "succeeded" => NothingBlocks(t)
  /\ t.status = "running" =>
       /\ NothingFailed(t)
       /\ Counted(t) \/ Limited(t)
       /\ ~t.started => t.rounds = <<>> /\ t.loop = 0 /\ t.node = "dispatch_decision"
       /\ t.node = "human_intervention" /\ ~t.awaiting => Limited(t)

(* The task of a run before the node n.                                     *)
WorkedOK(t, n) ==
  /\ RoundsOK(t) /\ NothingFailed(t)
  /\ t.status = "running" /\ t.started
  /\ n = "round_dispatch" => Counted(t) \/ Limited(t)
  /\ n \in {"subtask_execution", "agents"} => Counting(t)
  /\ n = "agents" => t.node = "subtask_execution"
  /\ n = "completion_judge" => Counted(t)
  /\ n = "human_intervention" => Limited(t)

(* While every subtask gets one result: what the next planner will be told, *)
(* or what the merge of the round that waits will start from.               *)
ContextOK(t) ==
  IF NothingOpen(t) THEN t.summary = DoneIn(t)
  ELSE t.rounds[Len(t.rounds)].before = DoneBefore(t)

(* And then only the last round of a stored task may wait, and none during  *)
(* a run.  A task that a run left behind in memory when it raised stands at *)
(* a node that no request and no claim goes on from.                        *)
Fresh(t) ==
  /\ OnlyLastOpen(t)
  /\ t.status = "running" =>
       /\ t.node = "human_execution" <=> ~NothingOpen(t)
       /\ ContextOK(t)
Current(t) == NothingOpen(t) /\ t.summary = DoneIn(t)

IdleOK(t, n) == StoredOK(t) /\ (n = 0 => Fresh(t))
RunningOK(t, node, n) == WorkedOK(t, node) /\ (n = 0 => Current(t))

(* An agent acts once, and is not done with a tool that failed.             *)
ThreadOK(a) ==
  /\ ~a.twice
  /\ a.pc \in {"off", "queued", "asking", "tools", "raised"} => a.tools = "none"
  /\ a.pc = "succeeded" => a.tools # "failed"

(* What was done outside is in a round or in the hands of its agent.        *)
Acting(o) ==
  at = "agents" /\ \E s \in Agents : o = <<task.loop, s>> /\ agent[s].tools # "none"

GInv ==
  /\ TypeOK
  /\ at = "idle" => IdleOK(task, again)
  /\ at # "idle" => RunningOK(task, at, again)
  /\ at # "idle" /\ (run.claimed \/ Durable) => IdleOK(run.saved, again)
  /\ at = "agents" => \A s \in Positions \ Agents : agent[s] = Off
  /\ \A s \in Positions : ThreadOK(agent[s])
  /\ \A o \in acted : Recorded(task, o) \/ Acting(o)
-----------------------------------------------------------------------------
(* Tasks and their rounds. *)

Works == UNION {[1..n -> Subtask] : n \in 0..Width}

LEMMA WorkDomain ==
  ASSUME NEW w \in Works
  PROVE  \E n \in 0..Width : w \in [1..n -> Subtask] /\ DOMAIN w = 1..n /\ DOMAIN w \subseteq Positions
  <1>1. PICK n \in 0..Width : w \in [1..n -> Subtask]
    BY DEF Works
  <1>2. 1..n \subseteq Positions
    BY BoundsAssumption DEF Positions
  <1>3. QED
    BY <1>1, <1>2

LEMMA RoundFields ==
  ASSUME NEW r \in Round
  PROVE  r.index \in 1..MaxLoop /\ r.before \in SUBSET Outputs /\ r.work \in Works
  BY DEF Round, Works

LEMMA TaskFields ==
  ASSUME NEW t \in Task
  PROVE  /\ t.status \in {"running", "succeeded", "failed"}
         /\ t.loop \in 0..MaxLoop /\ t.rounds \in Seq(Round) /\ t.summary \in SUBSET Outputs
         /\ t.awaiting \in BOOLEAN /\ t.started \in BOOLEAN
         /\ Len(t.rounds) \in Nat /\ DOMAIN t.rounds = 1..Len(t.rounds)
         /\ \A i \in DOMAIN t.rounds : t.rounds[i] \in Round
  <1>1. t.rounds \in Seq(Round)
    BY DEF Task
  <1>2. \A i \in DOMAIN t.rounds : t.rounds[i] \in Round
    BY <1>1
  <1>3. QED
    BY <1>1, <1>2 DEF Task

LEMMA DoneOutputs == ASSUME NEW r \in Round PROVE Done(r) \in SUBSET Outputs
  <1>1. r.index \in 1..MaxLoop /\ r.work \in Works
    BY RoundFields
  <1>2. DOMAIN r.work \subseteq Positions
    BY <1>1, WorkDomain
  <1>3. QED
    BY <1>1, <1>2 DEF Done, Outputs

(* Everything said of the rounds depends on them only.                      *)
LEMMA SameRounds ==
  ASSUME NEW t, NEW u, u.rounds = t.rounds
  PROVE  /\ RoundsOK(t) => RoundsOK(u)
         /\ NothingFailed(t) => NothingFailed(u)
         /\ NothingBlocks(t) => NothingBlocks(u)
         /\ OnlyLastOpen(t) => OnlyLastOpen(u)
         /\ NothingOpen(t) <=> NothingOpen(u)
         /\ DoneIn(u) = DoneIn(t) /\ DoneBefore(u) = DoneBefore(t)
         /\ \A o : Recorded(t, o) <=> Recorded(u, o)
  <1>1. /\ RoundsOK(t) => RoundsOK(u)
        /\ NothingFailed(t) => NothingFailed(u)
        /\ NothingBlocks(t) => NothingBlocks(u)
        /\ OnlyLastOpen(t) => OnlyLastOpen(u)
    BY DEF RoundsOK, Numbered, NothingFailed, NothingBlocks, OnlyLastOpen
  <1>2. QED
    BY <1>1 DEF NothingOpen, DoneIn, DoneBefore, Recorded

LEMMA SameCounter ==
  ASSUME NEW t, NEW u, u.rounds = t.rounds, u.loop = t.loop
  PROVE  /\ Counted(t) => Counted(u)
         /\ Limited(t) => Limited(u)
         /\ Counting(t) => Counting(u)
  BY DEF Counted, Limited, Counting, Below

LEMMA SameContext ==
  ASSUME NEW t, NEW u, u.rounds = t.rounds, u.summary = t.summary
  PROVE  Current(t) => Current(u)
  BY SameRounds DEF Current

(* Outside of a round that is run the counter is at a round or at the limit.*)
LEMMA CountingIsCounted == ASSUME NEW t \in Task, Counting(t) PROVE Counted(t)
  <1>1. /\ t.loop \in 0..MaxLoop
        /\ \A i \in DOMAIN t.rounds : t.rounds[i].index \in 1..MaxLoop
    BY TaskFields, RoundFields
  <1>2. QED
    BY <1>1, MaxLoopAssumption DEF Counting, Counted, Below

LEMMA FinalizeFacts ==
  ASSUME NEW t \in Task, NEW candidate \in {"succeeded", "failed"}, NEW gaps
  PROVE  LET f == Finalize(t, candidate, gaps) IN
         /\ f \in Task /\ f.rounds = t.rounds /\ f.loop = t.loop
         /\ f.summary = t.summary /\ f.started = t.started
         /\ \/ f.status = candidate /\ f.node = "completion_judge"
               /\ (candidate = "succeeded" => NothingBlocks(t))
            \/ f.status = t.status /\ f.node = "human_intervention" /\ f.awaiting
               /\ candidate = "succeeded"
  <1>1. CASE candidate = "succeeded" /\ (gaps \/ \E i \in DOMAIN t.rounds : Blocking(t.rounds[i].work))
    <2>1. Finalize(t, candidate, gaps) = [t EXCEPT !.node = "human_intervention", !.awaiting = TRUE]
      BY <1>1 DEF Finalize
    <2>2. QED
      BY <1>1, <2>1 DEF Task
  <1>2. CASE ~(candidate = "succeeded" /\ (gaps \/ \E i \in DOMAIN t.rounds : Blocking(t.rounds[i].work)))
    <2>1. Finalize(t, candidate, gaps) =
            [t EXCEPT !.status = candidate, !.node = "completion_judge", !.awaiting = FALSE]
      BY <1>2 DEF Finalize
    <2>2. candidate = "succeeded" => NothingBlocks(t)
      BY <1>2 DEF NothingBlocks
    <2>3. QED
      BY <2>1, <2>2 DEF Task
  <1>3. QED
    BY <1>1, <1>2

(* A finalized task may be stored.                                          *)
LEMMA FinalizeStored ==
  ASSUME NEW t \in Task, NEW candidate \in {"succeeded", "failed"}, NEW gaps, RoundsOK(t),
         candidate = "succeeded" => /\ NothingFailed(t) /\ t.started /\ t.status = "running"
                                    /\ Counted(t) \/ Limited(t)
  PROVE  StoredOK(Finalize(t, candidate, gaps))
  <1> DEFINE f == Finalize(t, candidate, gaps)
  <1>1. /\ f.rounds = t.rounds /\ f.started = t.started /\ f.loop = t.loop
        /\ \/ f.status = candidate /\ f.node = "completion_judge"
              /\ (candidate = "succeeded" => NothingBlocks(t))
           \/ f.status = t.status /\ f.node = "human_intervention" /\ f.awaiting
              /\ candidate = "succeeded"
    BY FinalizeFacts
  <1> SUFFICES StoredOK(f)
    OBVIOUS
  <1> HIDE DEF f
  <1>2. /\ RoundsOK(f) /\ (NothingFailed(t) => NothingFailed(f))
        /\ (NothingBlocks(t) => NothingBlocks(f))
        /\ (Counted(t) \/ Limited(t) => Counted(f) \/ Limited(f))
    BY <1>1, SameRounds, SameCounter
  <1>3. CASE f.status = candidate /\ f.node = "completion_judge"
             /\ (candidate = "succeeded" => NothingBlocks(t))
    BY <1>2, <1>3 DEF StoredOK
  <1>4. CASE f.status = t.status /\ f.node = "human_intervention" /\ f.awaiting
             /\ candidate = "succeeded"
    BY <1>1, <1>2, <1>4 DEF StoredOK
  <1>5. QED
    BY <1>1, <1>3, <1>4

LEMMA FinalizeFresh ==
  ASSUME NEW t \in Task, NEW candidate \in {"succeeded", "failed"}, NEW gaps, OnlyLastOpen(t),
         candidate = "succeeded" => Current(t)
  PROVE  Fresh(Finalize(t, candidate, gaps))
  <1> DEFINE f == Finalize(t, candidate, gaps)
  <1>1. /\ f.rounds = t.rounds /\ f.summary = t.summary
        /\ \/ f.status = candidate /\ f.node = "completion_judge"
           \/ f.status = t.status /\ f.node = "human_intervention" /\ candidate = "succeeded"
    BY FinalizeFacts
  <1> SUFFICES Fresh(f)
    OBVIOUS
  <1> HIDE DEF f
  <1>2. OnlyLastOpen(f) /\ (Current(t) => Current(f))
    BY <1>1, SameRounds, SameContext
  <1>3. QED
    BY <1>1, <1>2 DEF Fresh, ContextOK, Current

(* Work that waits for nobody leaves the context as it should be.           *)
LEMMA CurrentIsFresh ==
  ASSUME NEW t, Current(t), t.node # "human_execution"
  PROVE  Fresh(t)
  BY DEF Fresh, Current, ContextOK, OnlyLastOpen, NothingOpen

(* One round more.                                                          *)
LEMMA AppendRound ==
  ASSUME NEW t \in Task, RoundsOK(t), Counting(t),
         NEW work \in Works, Honest(work),
         NEW u, u.rounds = Append(t.rounds, NewRound(t, work))
  PROVE  /\ NewRound(t, work) \in Round
         /\ u.rounds \in Seq(Round) /\ Len(u.rounds) = Len(t.rounds) + 1
         /\ RoundsOK(u) /\ Below(u, t.loop + 1) /\ Len(u.rounds) <= t.loop
         /\ NothingFailed(t) /\ Unfailed(work) => NothingFailed(u)
         /\ NothingOpen(t) =>
              /\ OnlyLastOpen(u) /\ (NothingOpen(u) <=> ~Open(work))
         /\ Current(t) => u.rounds[Len(u.rounds)].before = DoneBefore(u)
         /\ Current(t) => DoneIn(u) = t.summary \cup Done(NewRound(t, work))
         /\ \E i \in DOMAIN u.rounds : u.rounds[i] = NewRound(t, work)
         /\ \A o : Recorded(t, o) => Recorded(u, o)
  <1> DEFINE r == NewRound(t, work)
             n == Len(t.rounds)
  <1>1. /\ t.rounds \in Seq(Round) /\ n \in Nat /\ DOMAIN t.rounds = 1..n
        /\ t.loop \in 1..MaxLoop /\ t.summary \in SUBSET Outputs
        /\ \A i \in 1..n : t.rounds[i].index \in 1..MaxLoop /\ t.rounds[i].index < t.loop
                           /\ i <= t.rounds[i].index
    BY TaskFields, RoundFields, MaxLoopAssumption DEF Counting, Below, RoundsOK, Numbered
  <1>2. r \in Round /\ r.index = t.loop /\ r.before = t.summary /\ r.work = work
    BY <1>1 DEF NewRound, Round, Works
  <1> HIDE DEF r
  <1>3. /\ u.rounds \in Seq(Round) /\ Len(u.rounds) = n + 1 /\ DOMAIN u.rounds = 1..n + 1
        /\ \A i \in 1..n : u.rounds[i] = t.rounds[i]
        /\ u.rounds[n + 1] = r
    BY <1>1, <1>2 DEF r
  <1>4. n + 1 <= t.loop
    <2>1. CASE n = 0
      BY <1>1, <2>1
    <2>2. CASE n # 0
      <3>1. n \in 1..n
        BY <1>1, <2>2
      <3>2. QED
        BY <1>1, <3>1
    <2>3. QED
      BY <2>1, <2>2
  <1> HIDE DEF n
  <1>5. RoundsOK(u)
    <2>1. ASSUME NEW i \in DOMAIN u.rounds
          PROVE  /\ i <= u.rounds[i].index
                 /\ \A j \in DOMAIN u.rounds : i < j => u.rounds[i].index < u.rounds[j].index
      <3>1. CASE i = n + 1
        BY <1>1, <1>2, <1>3, <1>4, <3>1
      <3>2. CASE i \in 1..n
        <4>1. i <= u.rounds[i].index /\ u.rounds[i] = t.rounds[i]
          BY <1>1, <1>3, <3>2
        <4>2. ASSUME NEW j \in 1..n, i < j PROVE u.rounds[i].index < u.rounds[j].index
          BY <1>1, <1>3, <3>2, <4>2 DEF RoundsOK, Numbered
        <4>3. u.rounds[i].index < u.rounds[n + 1].index
          BY <1>1, <1>2, <1>3, <3>2
        <4>4. \A j \in DOMAIN u.rounds : j \in 1..n \/ j = n + 1
          BY <1>1, <1>3
        <4>5. QED
          BY <4>1, <4>2, <4>3, <4>4
      <3>3. QED
        BY <1>1, <1>3, <3>1, <3>2
    <2>2. Numbered(u)
      BY <2>1 DEF Numbered
    <2>3. \A i \in DOMAIN u.rounds : Honest(u.rounds[i].work)
      BY <1>1, <1>2, <1>3 DEF RoundsOK
    <2>4. QED
      BY <2>2, <2>3 DEF RoundsOK
  <1>6. Below(u, t.loop + 1)
    BY <1>1, <1>2, <1>3 DEF Below
  <1>7. NothingFailed(t) /\ Unfailed(work) => NothingFailed(u)
    BY <1>1, <1>2, <1>3 DEF NothingFailed
  <1>8. NothingOpen(t) => OnlyLastOpen(u) /\ (NothingOpen(u) <=> ~Open(work))
    BY <1>1, <1>2, <1>3 DEF NothingOpen, OnlyLastOpen
  <1>9. DoneBefore(u) = DoneIn(t) /\ DoneIn(u) = DoneIn(t) \cup Done(r)
    <2>1. Len(u.rounds) - 1 = n /\ DOMAIN u.rounds = (1..n) \cup {n + 1}
      BY <1>1, <1>3
    <2>2. DoneBefore(u) = UNION {Done(u.rounds[i]) : i \in 1..n}
      BY <2>1 DEF DoneBefore
    <2>3. DoneIn(t) = UNION {Done(u.rounds[i]) : i \in 1..n}
      BY <1>1, <1>3 DEF DoneIn
    <2>4. DoneIn(u) = (UNION {Done(u.rounds[i]) : i \in 1..n}) \cup Done(u.rounds[n + 1])
      BY <2>1 DEF DoneIn
    <2>5. QED
      BY <1>3, <2>2, <2>3, <2>4
  <1>10. \A o : Recorded(t, o) => Recorded(u, o)
    BY <1>1, <1>3 DEF Recorded
  <1>11. n + 1 \in DOMAIN u.rounds
    BY <1>1, <1>3
  <1>12. QED
    BY <1>2, <1>3, <1>4, <1>5, <1>6, <1>7, <1>8, <1>9, <1>10, <1>11 DEF Current, r, n

(* The status of a subtask is set, whether or not it had a result.          *)
Posted(t, i, s, status) == [t EXCEPT !.rounds[i].work[s].status = status]

LEMMA PostRound ==
  ASSUME NEW t \in Task, RoundsOK(t), NothingFailed(t), NEW i \in DOMAIN t.rounds,
         NEW s \in DOMAIN t.rounds[i].work,
         NEW status \in {"succeeded", "failed"},
         NEW p, p = Posted(t, i, s, status)
  PROVE  /\ p \in Task /\ RoundsOK(p) /\ i \in DOMAIN p.rounds
         /\ p.rounds[i] \in Round /\ p.rounds[i].before = t.rounds[i].before
         /\ p.status = t.status /\ p.loop = t.loop /\ p.started = t.started
         /\ p.summary = t.summary /\ p.awaiting = t.awaiting
         /\ Len(p.rounds) = Len(t.rounds) /\ DOMAIN p.rounds = DOMAIN t.rounds
         /\ \A j \in DOMAIN t.rounds : p.rounds[j].index = t.rounds[j].index
         /\ \A j \in DOMAIN t.rounds : j # i => p.rounds[j] = t.rounds[j]
         /\ status = "succeeded" => NothingFailed(p)
         /\ \A o : Recorded(t, o) => Recorded(p, o)
  <1> DEFINE work == t.rounds[i].work
             sub2 == [work[s] EXCEPT !.status = status]
             work2 == [work EXCEPT ![s] = sub2]
             r2 == [t.rounds[i] EXCEPT !.work = work2]
             rs2 == [t.rounds EXCEPT ![i] = r2]
  <1>1. t.rounds \in Seq(Round) /\ Len(t.rounds) \in Nat /\ DOMAIN t.rounds = 1..Len(t.rounds)
        /\ t.rounds[i] \in Round
    BY TaskFields
  <1>2. work \in Works
    BY <1>1, RoundFields
  <1>3. PICK n \in 0..Width : work \in [1..n -> Subtask] /\ DOMAIN work = 1..n
    BY <1>2, WorkDomain
  <1>4. work[s] \in Subtask
    BY <1>3
  <1>5. sub2 \in Subtask /\ sub2.status = status /\ sub2.tools = work[s].tools
    BY <1>4 DEF Subtask
  <1>6. work[s].tools # "failed"
    BY DEF RoundsOK, Honest, NothingFailed, Unfailed
  <1>7. p = [t EXCEPT !.rounds = rs2]
    BY DEF Posted
  <1> HIDE DEF sub2
  <1>8. /\ work2 \in Works /\ DOMAIN work2 = DOMAIN work /\ work2[s] = sub2
        /\ \A q \in DOMAIN work : q # s => work2[q] = work[q]
    BY <1>3, <1>5 DEF Works
  <1>9. /\ Honest(work2)
        /\ \A q \in DOMAIN work : work2[q].tools = work[q].tools
        /\ status = "succeeded" => Unfailed(work2)
    <2>1. \A q \in DOMAIN work : work2[q].tools = work[q].tools
      BY <1>5, <1>8
    <2>2. Honest(work2)
      BY <1>5, <1>6, <1>8 DEF RoundsOK, Honest
    <2>3. status = "succeeded" => Unfailed(work2)
      BY <1>5, <1>8 DEF NothingFailed, Unfailed
    <2>4. QED
      BY <2>1, <2>2, <2>3
  <1> HIDE DEF work2
  <1>10. /\ r2 \in Round /\ r2.work = work2 /\ r2.index = t.rounds[i].index
         /\ r2.before = t.rounds[i].before
    BY <1>1, <1>8 DEF Round, Works
  <1> HIDE DEF r2
  <1>11. /\ rs2 \in Seq(Round) /\ Len(rs2) = Len(t.rounds) /\ DOMAIN rs2 = DOMAIN t.rounds
         /\ rs2[i] = r2 /\ \A j \in DOMAIN t.rounds : j # i => rs2[j] = t.rounds[j]
    BY <1>1, <1>10
  <1> HIDE DEF rs2
  <1>12. /\ p \in Task /\ p.rounds = rs2
         /\ p.status = t.status /\ p.loop = t.loop /\ p.started = t.started
         /\ p.summary = t.summary /\ p.awaiting = t.awaiting
    BY <1>7, <1>11 DEF Task
  <1>13. \A j \in DOMAIN t.rounds : p.rounds[j].index = t.rounds[j].index
    BY <1>10, <1>11, <1>12
  <1>14. RoundsOK(p)
    <2>1. Numbered(p)
      BY <1>11, <1>12, <1>13 DEF RoundsOK, Numbered
    <2>2. \A j \in DOMAIN p.rounds : Honest(p.rounds[j].work)
      BY <1>9, <1>10, <1>11, <1>12 DEF RoundsOK
    <2>3. QED
      BY <2>1, <2>2 DEF RoundsOK
  <1>15. status = "succeeded" => NothingFailed(p)
    BY <1>9, <1>10, <1>11, <1>12 DEF NothingFailed
  <1>16. \A o : Recorded(t, o) => Recorded(p, o)
    <2>1. SUFFICES ASSUME NEW o, NEW j \in DOMAIN t.rounds, t.rounds[j].index = o[1],
                          o[2] \in DOMAIN t.rounds[j].work,
                          t.rounds[j].work[o[2]].tools # "none"
                   PROVE  /\ j \in DOMAIN p.rounds /\ p.rounds[j].index = o[1]
                          /\ o[2] \in DOMAIN p.rounds[j].work
                          /\ p.rounds[j].work[o[2]].tools # "none"
      BY DEF Recorded
    <2>2. CASE j = i
      BY <1>8, <1>9, <1>10, <1>11, <1>12, <2>1, <2>2
    <2>3. CASE j # i
      BY <1>11, <1>12, <2>1, <2>3
    <2>4. QED
      BY <2>2, <2>3
  <1>17. QED
    BY <1>10, <1>11, <1>12, <1>13, <1>14, <1>15, <1>16

(* A first result comes for the last round, where the open work is.         *)
LEMMA PostLast ==
  ASSUME NEW t \in Task, OnlyLastOpen(t), NEW i \in DOMAIN t.rounds,
         NEW s \in DOMAIN t.rounds[i].work, t.rounds[i].work[s].status = "running",
         NEW p, Len(p.rounds) = Len(t.rounds), DOMAIN p.rounds = DOMAIN t.rounds,
         \A j \in DOMAIN t.rounds : j # i => p.rounds[j] = t.rounds[j]
  PROVE  /\ i = Len(p.rounds) /\ OnlyLastOpen(p) /\ ~NothingOpen(t)
         /\ NothingOpen(p) <=> ~Open(p.rounds[i].work)
         /\ DoneBefore(p) = DoneBefore(t)
         /\ DoneIn(p) = DoneBefore(p) \cup Done(p.rounds[i])
  <1>1. Len(t.rounds) \in Nat /\ DOMAIN t.rounds = 1..Len(t.rounds)
    BY TaskFields
  <1>2. Open(t.rounds[i].work)
    BY DEF Open
  <1>3. i = Len(t.rounds)
    BY <1>1, <1>2 DEF OnlyLastOpen
  <1>4. \A j \in 1..Len(t.rounds) - 1 : j \in DOMAIN t.rounds /\ j # i /\ j < Len(t.rounds)
                                        /\ p.rounds[j] = t.rounds[j]
    BY <1>1, <1>3
  <1>5. OnlyLastOpen(p)
    <2>1. ASSUME NEW j \in DOMAIN p.rounds, j < Len(p.rounds)
          PROVE  ~Open(p.rounds[j].work)
      <3>1. j \in 1..Len(t.rounds) - 1
        BY <1>1, <2>1
      <3>2. j \in DOMAIN t.rounds /\ j < Len(t.rounds) /\ p.rounds[j] = t.rounds[j]
        BY <1>4, <3>1
      <3>3. QED
        BY <3>2 DEF OnlyLastOpen
    <2>2. QED
      BY <2>1 DEF OnlyLastOpen
  <1>6. DOMAIN p.rounds = (1..Len(t.rounds) - 1) \cup {i}
    BY <1>1, <1>3
  <1>7. NothingOpen(p) <=> ~Open(p.rounds[i].work)
    BY <1>4, <1>6 DEF OnlyLastOpen, NothingOpen
  <1>8. DoneBefore(p) = DoneBefore(t)
    BY <1>4 DEF DoneBefore
  <1>9. DoneIn(p) = DoneBefore(p) \cup Done(p.rounds[i])
    BY <1>6 DEF DoneIn, DoneBefore
  <1>10. QED
    BY <1>2, <1>3, <1>5, <1>7, <1>8, <1>9 DEF NothingOpen
-----------------------------------------------------------------------------
(* What the acting step has to leave behind. *)

LEMMA IdlePrime == ASSUME IdleOK(task', again') PROVE IdleOK(task, again)'
  BY DEF IdleOK, StoredOK, RoundsOK, Numbered, Honest, NothingFailed, Unfailed, NothingBlocks,
         Counted, Limited, Below, Fresh, OnlyLastOpen, NothingOpen, ContextOK, DoneIn, DoneBefore,
         Done, Open, Blocking

LEMMA SavedPrime ==
  ASSUME run'.claimed \/ Durable => IdleOK(run'.saved, again')
  PROVE  (run.claimed \/ Durable => IdleOK(run.saved, again))'
  BY DEF IdleOK, StoredOK, RoundsOK, Numbered, Honest, NothingFailed, Unfailed, NothingBlocks,
         Counted, Limited, Below, Fresh, OnlyLastOpen, NothingOpen, ContextOK, DoneIn, DoneBefore,
         Done, Open, Blocking

LEMMA RunningPrime == ASSUME RunningOK(task', at', again') PROVE RunningOK(task, at, again)'
  BY DEF RunningOK, WorkedOK, RoundsOK, Numbered, Honest, NothingFailed, Unfailed, Counted,
         Limited, Counting, Below, Current, NothingOpen, DoneIn, Done, Open

LEMMA ThreadPrime ==
  ASSUME \A s \in Positions : ThreadOK(agent'[s])
  PROVE  (\A s \in Positions : ThreadOK(agent[s]))'
  BY DEF ThreadOK

LEMMA RecordedPrime ==
  ASSUME \A o \in acted' : Recorded(task', o)
  PROVE  (\A o \in acted : Recorded(task, o) \/ Acting(o))'
  BY DEF Recorded

AgentsIdle == agent' \in [Positions -> Thread] /\ \A s \in Positions : ThreadOK(agent'[s])
Runs == [claimed : BOOLEAN, from : Task, saved : Task]

LEMMA AgentsStay == ASSUME GInv, UNCHANGED agent PROVE AgentsIdle
  BY DEF GInv, TypeOK, AgentsIdle

LEMMA AgentsOff == ASSUME agent' = [s \in Positions |-> Off] PROVE AgentsIdle
  <1>1. Off \in Thread /\ ThreadOK(Off)
    BY BoundsAssumption DEF Off, Thread, ThreadOK
  <1>2. QED
    BY <1>1 DEF AgentsIdle

LEMMA NoRunType == Confirmed \in Task /\ NoRun \in Runs
  <1>1. Confirmed \in Task
    BY MaxLoopAssumption DEF Confirmed, Task
  <1>2. QED
    BY <1>1 DEF NoRun, Runs

(* Outside of subtask_execution every act is in a round.                    *)
LEMMA ActsRecorded ==
  ASSUME GInv, at # "agents"
  PROVE  \A o \in acted : Recorded(task, o)
  BY DEF GInv, Acting

(* A run, or a request, leaves a task that may be stored.                   *)
LEMMA IdleInv ==
  ASSUME GInv, at' = "idle", task' \in Task, IdleOK(task', again'), plan' \in Plan, AgentsIdle,
         run' \in Runs, UNCHANGED mock, again' \in 0..MaxAgain,
         acted' \subseteq acted, \A o \in acted' : Recorded(task', o)
  PROVE  GInv'
  <1>1. TypeOK'
    BY DEF GInv, TypeOK, AgentsIdle, Runs
  <1>2. IdleOK(task, again)'
    BY IdlePrime
  <1>3. (\A s \in Positions : ThreadOK(agent[s]))'
    BY ThreadPrime DEF AgentsIdle
  <1>4. (\A o \in acted : Recorded(task, o) \/ Acting(o))'
    BY RecordedPrime
  <1>5. QED
    BY <1>1, <1>2, <1>3, <1>4 DEF GInv

(* The run goes on to another node.                                         *)
LEMMA WorkInv ==
  ASSUME GInv, at' \in {"round_dispatch", "subtask_execution", "completion_judge", "human_intervention"},
         task' \in Task, RunningOK(task', at', again'), plan' \in Plan, AgentsIdle,
         run' \in Runs, run'.claimed \/ Durable => IdleOK(run'.saved, again'),
         UNCHANGED <<mock, acted>>, again' \in 0..MaxAgain,
         \A o \in acted : Recorded(task', o)
  PROVE  GInv'
  <1>1. TypeOK'
    BY DEF GInv, TypeOK, AgentsIdle, Runs
  <1>2. RunningOK(task, at, again)' /\ (run.claimed \/ Durable => IdleOK(run.saved, again))'
    BY RunningPrime, SavedPrime
  <1>3. (\A s \in Positions : ThreadOK(agent[s]))'
    BY ThreadPrime DEF AgentsIdle
  <1>4. (\A o \in acted : Recorded(task, o) \/ Acting(o))'
    BY RecordedPrime
  <1>5. QED
    BY <1>1, <1>2, <1>3, <1>4 DEF GInv
-----------------------------------------------------------------------------
(* The steps of a run. *)

LEMMA WorkingFacts ==
  ASSUME GInv, at # "idle"
  PROVE  /\ task \in Task /\ WorkedOK(task, at) /\ RoundsOK(task) /\ NothingFailed(task)
         /\ task.status = "running" /\ task.started
         /\ again \in 0..MaxAgain /\ (again = 0 => Current(task))
         /\ plan \in Plan /\ run \in Runs /\ run.saved \in Task
         /\ run.claimed \/ Durable => IdleOK(run.saved, again)
  BY DEF GInv, TypeOK, RunningOK, WorkedOK, Runs

LEMMA NoPlanType == NoPlan \in Plan /\ NoPlan.work = <<>>
                    /\ [NoPlan EXCEPT !.continue = TRUE] \in Plan
                    /\ [NoPlan EXCEPT !.continue = TRUE].work = <<>>
  <1>1. <<>> \in [1..0 -> Kind] /\ 0 \in 0..Width
    BY BoundsAssumption
  <1>2. <<>> \in UNION {[1..n -> Kind] : n \in 0..Width}
    BY <1>1
  <1>3. QED
    BY <1>2 DEF NoPlan, Plan

(* The same rounds at another node of the run.                              *)
LEMMA MovesOn ==
  ASSUME GInv, at # "idle", NEW t \in Task, t.rounds = task.rounds, t.summary = task.summary,
         t.status = "running", t.started
  PROVE  /\ RoundsOK(t) /\ NothingFailed(t) /\ (again = 0 => Current(t))
         /\ \A o : Recorded(task, o) => Recorded(t, o)
  BY WorkingFacts, SameRounds, SameContext

(* A run may end with the task as it is at one of its own nodes.            *)
LEMMA LeftBehind ==
  ASSUME GInv, at # "idle", NEW t \in Task, t.rounds = task.rounds, t.summary = task.summary,
         t.loop = task.loop, t.status = "running", t.started,
         t.node \in {"dispatch_decision", "subtask_execution", "human_intervention"},
         Counted(t) \/ Limited(t), t.node = "human_intervention" => Limited(t)
  PROVE  IdleOK(t, again)
  <1>1. RoundsOK(t) /\ NothingFailed(t) /\ (again = 0 => Current(t))
    BY MovesOn
  <1>2. StoredOK(t)
    BY <1>1 DEF StoredOK
  <1>3. again = 0 => Fresh(t)
    BY <1>1, CurrentIsFresh
  <1>4. QED
    BY <1>2, <1>3 DEF IdleOK

LEMMA RaiseInv ==
  ASSUME GInv, at # "idle", NEW t \in Task, IdleOK(t, again), Raise(t)
  PROVE  GInv'
  <1>1. at' = "idle" /\ plan' \in Plan /\ AgentsIdle /\ run' \in Runs /\ UNCHANGED <<mock, again>>
        /\ acted' = {o \in acted : Recorded(task', o)}
    BY NoPlanType, NoRunType, AgentsOff DEF Raise
  <1>2. task' \in Task /\ IdleOK(task', again)
    <2>1. CASE run.claimed
      <3>1. RoundsOK(run.saved) /\ run.saved \in Task /\ (again = 0 => OnlyLastOpen(run.saved))
        BY <2>1, WorkingFacts DEF IdleOK, StoredOK, Fresh
      <3>2. task' = Finalize(run.saved, "failed", FALSE)
        BY <2>1 DEF Raise
      <3>3. Finalize(run.saved, "failed", FALSE) \in Task
        BY <3>1, FinalizeFacts
      <3>4. StoredOK(Finalize(run.saved, "failed", FALSE))
        BY <3>1, FinalizeStored
      <3>5. again = 0 => Fresh(Finalize(run.saved, "failed", FALSE))
        BY <3>1, FinalizeFresh
      <3>6. QED
        BY <3>2, <3>3, <3>4, <3>5 DEF IdleOK
    <2>2. CASE ~run.claimed /\ Durable
      BY <2>2, WorkingFacts DEF Raise
    <2>3. CASE ~run.claimed /\ ~Durable
      BY <2>3 DEF Raise
    <2>4. QED
      BY <2>1, <2>2, <2>3
  <1>3. QED
    BY <1>1, <1>2, IdleInv, WorkingFacts

LEMMA PlanCases ==
  ASSUME NEW p \in Planned, NEW draft
  PROVE  (IF ShouldCreateDraftHumanGate(p, draft) THEN HumanGate ELSE p) \in Plan
  <1> DEFINE Pieces == UNION {[1..n -> Kind] : n \in 0..Width}
  <1>1. 1 \in 0..Width
    BY BoundsAssumption
  <1>2. \A k \in Kind : <<k>> \in [1..1 -> Kind]
    OBVIOUS
  <1>3. \A k \in Kind : <<k>> \in Pieces
    BY <1>1, <1>2
  <1>4. "human" \in Kind /\ "agent" \in Kind /\ "stray" \in Kind
    BY DEF Kind
  <1> HIDE DEF Pieces
  <1>5. Plan = [continue : BOOLEAN, parallel : BOOLEAN, work : Pieces]
    BY DEF Plan, Pieces
  <1>6. HumanGate \in Plan
    BY <1>3, <1>4, <1>5 DEF HumanGate
  <1>7. ASSUME NEW k \in {"agent", "stray"}
        PROVE  [continue |-> TRUE, parallel |-> TRUE, work |-> <<k>>] \in Plan
    BY <1>3, <1>4, <1>5
  <1>8. MockPlan \subseteq Plan
    BY <1>7, NoPlanType DEF MockPlan
  <1>9. QED
    BY <1>6, <1>8 DEF Planned

(* After the planner the round is counted, cut off, or not wanted.          *)
LEMMA RoundDispatchInv == ASSUME GInv, RoundDispatch PROVE GInv'
  <1> DEFINE t == [task EXCEPT !.node = "dispatch_decision"]
  <1>1. at = "round_dispatch" /\ task \in Task /\ (Counted(task) \/ Limited(task))
        /\ task.status = "running" /\ task.started
    BY WorkingFacts DEF RoundDispatch, WorkedOK
  <1>2. /\ t \in Task /\ t.rounds = task.rounds /\ t.loop = task.loop /\ t.summary = task.summary
        /\ t.status = "running" /\ t.started
    BY <1>1 DEF Task
  <1> HIDE DEF t
  <1>3. PICK p \in Plan : /\ task' = CountRound(t, p) /\ plan' = p /\ at' = RouteAfterPlan(task', p)
                          /\ UNCHANGED <<agent, run, mock, acted, again>>
                          /\ LimitReached(t) => p.continue /\ p.work = <<>>
    <2>1. CASE LimitReached(t)
      <3>1. [NoPlan EXCEPT !.continue = TRUE].continue
        BY DEF NoPlan
      <3>2. QED
        BY <2>1, <3>1, NoPlanType DEF RoundDispatch, t
    <2>2. CASE ~LimitReached(t)
      BY <2>2, PlanCases DEF RoundDispatch, t
    <2>3. QED
      BY <2>1, <2>2
  <1>4. t.loop \in 0..MaxLoop /\ MaxLoop \in Nat \ {0} /\ (Counted(t) \/ Limited(t))
    BY <1>1, <1>2, TaskFields, SameCounter, MaxLoopAssumption
  <1>5. SUFFICES ASSUME task' \in Task, task'.rounds = task.rounds, task'.summary = task.summary,
                        task'.status = "running", task'.started,
                        \/ at' = "human_intervention" /\ Limited(task')
                        \/ at' = "subtask_execution" /\ Counting(task')
                        \/ at' = "completion_judge" /\ Counted(task')
                 PROVE  GInv'
    <2>1. CASE p.continue /\ p.work # <<>>
      <3>1. task' = [t EXCEPT !.loop = @ + 1] /\ ~LimitReached(t)
        BY <1>3, <2>1 DEF CountRound
      <3>2. Counted(t) /\ t.loop + 1 \in 0..MaxLoop
        BY <1>4, <3>1 DEF LimitReached, Counted, Limited
      <3>3. /\ task' \in Task /\ task'.loop = t.loop + 1 /\ task'.rounds = t.rounds
            /\ task'.summary = t.summary /\ task'.status = "running" /\ task'.started
        BY <1>2, <3>1, <3>2 DEF Task
      <3>4. Below(task', task'.loop)
        BY <3>2, <3>3 DEF Counted, Below
      <3>5. CASE LimitReached(task')
        BY <1>2, <1>3, <1>4, <1>5, <2>1, <3>2, <3>3, <3>4, <3>5 DEF RouteAfterPlan, LimitReached, Limited
      <3>6. CASE ~LimitReached(task')
        BY <1>2, <1>3, <1>4, <1>5, <2>1, <3>2, <3>3, <3>4, <3>6 DEF RouteAfterPlan, LimitReached, Counting
      <3>7. QED
        BY <3>5, <3>6
    <2>2. CASE ~(p.continue /\ p.work # <<>>)
      <3>1. task' = t
        BY <1>3, <2>2 DEF CountRound
      <3>2. \/ at' = "human_intervention" /\ Limited(t)
            \/ at' = "completion_judge" /\ Counted(t)
        BY <1>3, <1>4, <2>2, <3>1 DEF RouteAfterPlan, LimitReached, Limited, Counted
      <3>3. QED
        BY <1>2, <1>5, <3>1, <3>2
    <2>3. QED
      BY <2>1, <2>2
  <1>6. /\ RoundsOK(task') /\ NothingFailed(task') /\ (again = 0 => Current(task'))
        /\ \A o : Recorded(task, o) => Recorded(task', o)
    BY <1>1, <1>5, MovesOn
  <1>7. RunningOK(task', at', again')
    BY <1>3, <1>5, <1>6 DEF RunningOK, WorkedOK
  <1>8. \A o \in acted : Recorded(task', o)
    BY <1>1, <1>6, ActsRecorded
  <1>9. QED
    BY <1>1, <1>3, <1>5, <1>7, <1>8, WorkInv, WorkingFacts, AgentsStay

LEMMA PlannerRaisesInv == ASSUME GInv, PlannerRaises PROVE GInv'
  <1> DEFINE t == [task EXCEPT !.node = "dispatch_decision"]
  <1>1. at = "round_dispatch" /\ Raise(t)
    BY DEF PlannerRaises
  <1>2. t \in Task /\ t.rounds = task.rounds /\ t.summary = task.summary /\ t.loop = task.loop
        /\ t.status = "running" /\ t.started /\ t.node = "dispatch_decision"
    BY <1>1, WorkingFacts DEF Task
  <1> HIDE DEF t
  <1>3. Counted(t) \/ Limited(t)
    BY <1>1, <1>2, WorkingFacts, SameCounter DEF WorkedOK
  <1>4. IdleOK(t, again)
    BY <1>1, <1>2, <1>3, LeftBehind
  <1>5. QED
    BY <1>1, <1>2, <1>4, RaiseInv

LEMMA DistributeInv == ASSUME GInv, Distribute PROVE GInv'
  <1>1. at = "subtask_execution" /\ at' = "agents" /\ UNCHANGED <<plan, run, mock, acted, again>>
        /\ task' = [task EXCEPT !.node = "subtask_execution"]
    BY DEF Distribute
  <1>2. /\ task' \in Task /\ task'.rounds = task.rounds /\ task'.loop = task.loop
        /\ task'.summary = task.summary /\ task'.status = "running" /\ task'.started
        /\ task'.node = "subtask_execution"
    BY <1>1, WorkingFacts DEF Task
  <1>3. /\ RoundsOK(task') /\ NothingFailed(task') /\ (again = 0 => Current(task'))
        /\ \A o : Recorded(task, o) => Recorded(task', o)
    BY <1>1, <1>2, MovesOn
  <1>4. RunningOK(task', at', again')
    <2>1. Counting(task')
      BY <1>1, <1>2, WorkingFacts, SameCounter DEF WorkedOK
    <2>2. QED
      BY <1>1, <1>2, <1>3, <2>1 DEF RunningOK, WorkedOK
  <1>5. AgentsIdle /\ \A s \in Positions \ Agents : agent'[s] = Off
    <2> DEFINE queued == [Off EXCEPT !.pc = "queued", !.left = MaxRetries]
    <2>1. queued \in Thread /\ ThreadOK(queued) /\ Off \in Thread /\ ThreadOK(Off)
      <3>1. Off \in Thread /\ Off.pc = "off" /\ Off.tools = "none" /\ ~Off.twice
            /\ MaxRetries \in 0..MaxRetries
        BY BoundsAssumption DEF Off, Thread
      <3>2. queued \in Thread /\ queued.tools = "none" /\ queued.twice = Off.twice /\ queued.pc = "queued"
        BY <3>1 DEF Thread
      <3> HIDE DEF queued
      <3>3. QED
        BY <3>1, <3>2 DEF ThreadOK
    <2> HIDE DEF queued
    <2>2. agent' = [s \in Positions |->
                     IF s \in DOMAIN plan.work /\ plan.work[s] # "human" THEN queued ELSE Off]
      BY DEF Distribute, queued
    <2>3. QED
      BY <2>1, <2>2 DEF AgentsIdle, Agents
  <1>6. TypeOK'
    BY <1>1, <1>2, <1>5 DEF GInv, TypeOK, AgentsIdle
  <1>7. RunningOK(task, at, again)' /\ (run.claimed \/ Durable => IdleOK(run.saved, again))'
    <2>1. run'.claimed \/ Durable => IdleOK(run'.saved, again')
      BY <1>1, WorkingFacts
    <2>2. QED
      BY <1>4, <2>1, RunningPrime, SavedPrime
  <1>8. (\A s \in Positions : ThreadOK(agent[s]))'
    BY <1>5, ThreadPrime DEF AgentsIdle
  <1>9. (\A o \in acted : Recorded(task, o) \/ Acting(o))'
    BY <1>1, <1>3, ActsRecorded, RecordedPrime
  <1>10. (\A s \in Positions \ Agents : agent[s] = Off)'
    BY <1>1, <1>5 DEF Agents
  <1>11. QED
    BY <1>1, <1>6, <1>7, <1>8, <1>9, <1>10 DEF GInv
-----------------------------------------------------------------------------
(* The agents of a round. *)

LEMMA AgentsArePositions == ASSUME GInv PROVE Agents \subseteq Positions
                            /\ DOMAIN plan.work \subseteq Positions
                            /\ \E n \in 0..Width : plan.work \in [1..n -> Kind]
  <1>1. PICK n \in 0..Width : plan.work \in [1..n -> Kind]
    BY DEF GInv, TypeOK, Plan
  <1>2. 1..n \subseteq Positions
    BY BoundsAssumption DEF Positions
  <1>3. QED
    BY <1>1, <1>2 DEF Agents

(* What a step of an agent makes of its thread.                             *)
Goes(s, b) ==
  /\ agent' = [agent EXCEPT ![s] = b]
  /\ b \in Thread /\ ThreadOK(b)
  /\ agent[s].tools # "none" => b.tools # "none"
  /\ \/ acted' = acted
     \/ acted' = acted \cup {<<task.loop, s>>} /\ b.tools # "none"

LEMMA StartAgentGoes ==
  ASSUME GInv, NEW s \in Positions, StartAgent(s)
  PROVE  \E b : Goes(s, b)
  <1>1. agent[s] \in Thread /\ ThreadOK(agent[s]) /\ agent[s].pc = "queued"
    BY DEF GInv, TypeOK, StartAgent
  <1>2. PICK pc \in {"asking", "succeeded", "raised"} :
          AgentGoes(s, [agent[s] EXCEPT !.pc = pc])
    BY DEF StartAgent
  <1> DEFINE b == [agent[s] EXCEPT !.pc = pc]
  <1>3. 0 \in 0..MaxRetries
    BY BoundsAssumption
  <1>4. b \in Thread /\ b.pc = pc /\ b.tools = agent[s].tools /\ b.twice = agent[s].twice
    BY <1>1, <1>3 DEF Thread
  <1>5. agent' = [agent EXCEPT ![s] = b] /\ acted' = acted
    BY <1>2 DEF AgentGoes, StartAgent
  <1> HIDE DEF b
  <1>6. ThreadOK(b)
    BY <1>1, <1>4 DEF ThreadOK
  <1>7. Goes(s, b)
    BY <1>4, <1>5, <1>6 DEF Goes
  <1>8. QED
    BY <1>7

LEMMA ModelCallGoes ==
  ASSUME GInv, NEW s \in Positions, ModelCall(s)
  PROVE  \E b : Goes(s, b)
  <1> DEFINE a == agent[s]
  <1>1. a \in Thread /\ ThreadOK(a) /\ a.pc \in {"asking", "telling"} /\ a.left \in 0..MaxRetries
        /\ acted' = acted
    BY DEF GInv, TypeOK, ModelCall, Thread
  <1>2. SUFFICES ASSUME NEW b, agent' = [agent EXCEPT ![s] = b], b \in Thread,
                        b.tools = a.tools, b.twice = a.twice,
                        b.pc = a.pc \/ b.pc = "failed" \/ (b.pc = "tools" /\ a.pc = "asking")
                          \/ (b.pc = "succeeded" /\ a.tools # "failed")
                 PROVE  Goes(s, b)
    <2>1. CASE \E calls, output \in BOOLEAN :
                 LET pc == AfterReply(a, calls, output) IN
                 AgentGoes(s, [a EXCEPT !.pc = pc, !.left = IF pc = "tools" THEN MaxRetries ELSE 0])
      <3>1. PICK pc \in {"tools", "succeeded", "failed"} :
              /\ AgentGoes(s, [a EXCEPT !.pc = pc, !.left = IF pc = "tools" THEN MaxRetries ELSE 0])
              /\ pc = "tools" => a.pc = "asking"
              /\ pc = "succeeded" => a.tools # "failed"
        BY <2>1 DEF AfterReply
      <3> DEFINE left == IF pc = "tools" THEN MaxRetries ELSE 0
                 b == [a EXCEPT !.pc = pc, !.left = left]
      <3>2. left \in 0..MaxRetries
        BY <1>1, BoundsAssumption
      <3>3. agent' = [agent EXCEPT ![s] = b]
        BY <3>1 DEF AgentGoes
      <3> HIDE DEF left
      <3>4. b \in Thread /\ b.pc = pc /\ b.tools = a.tools /\ b.twice = a.twice
        BY <1>1, <3>2 DEF Thread
      <3>5. QED
        BY <1>2, <3>1, <3>3, <3>4
    <2>2. CASE a.left > 0 /\ AgentGoes(s, [a EXCEPT !.left = @ - 1])
      <3> DEFINE left == a.left - 1
                 b == [a EXCEPT !.left = left]
      <3>1. left \in 0..MaxRetries
        BY <1>1, <2>2, BoundsAssumption
      <3>2. agent' = [agent EXCEPT ![s] = b]
        BY <2>2 DEF AgentGoes
      <3> HIDE DEF left
      <3>3. b \in Thread /\ b.pc = a.pc /\ b.tools = a.tools /\ b.twice = a.twice
        BY <1>1, <3>1 DEF Thread
      <3>4. QED
        BY <1>2, <3>2, <3>3
    <2>3. CASE AgentGoes(s, [a EXCEPT !.pc = AfterError(a), !.left = 0])
      <3>1. PICK pc \in {"succeeded", "failed"} :
              /\ AgentGoes(s, [a EXCEPT !.pc = pc, !.left = 0])
              /\ pc = "succeeded" => a.tools # "failed"
        BY <2>3 DEF AfterError
      <3> DEFINE b == [a EXCEPT !.pc = pc, !.left = 0]
      <3>2. agent' = [agent EXCEPT ![s] = b]
        BY <3>1 DEF AgentGoes
      <3>3. 0 \in 0..MaxRetries
        BY BoundsAssumption
      <3>4. b \in Thread /\ b.pc = pc /\ b.tools = a.tools /\ b.twice = a.twice
        BY <1>1, <3>3 DEF Thread
      <3>5. QED
        BY <1>2, <3>1, <3>2, <3>4
    <2>4. QED
      BY <2>1, <2>2, <2>3 DEF ModelCall
  <1>3. ThreadOK(b)
    BY <1>1, <1>2 DEF ThreadOK
  <1>4. QED
    BY <1>1, <1>2, <1>3 DEF Goes

LEMMA RunToolsGoes ==
  ASSUME GInv, NEW s \in Positions, RunTools(s)
  PROVE  \E b : Goes(s, b)
  <1>1. agent[s] \in Thread /\ ThreadOK(agent[s]) /\ agent[s].pc = "tools"
        /\ acted' = acted \cup {<<task.loop, s>>}
    BY DEF GInv, TypeOK, RunTools
  <1>2. agent[s].tools = "none"
    BY <1>1 DEF ThreadOK
  <1>3. PICK outcome \in {"ok", "failed"} :
          agent' = [agent EXCEPT ![s] = [agent[s] EXCEPT !.pc = "telling", !.tools = outcome,
                                                         !.twice = agent[s].tools # "none"]]
    BY DEF RunTools, AgentGoes
  <1> DEFINE b == [agent[s] EXCEPT !.pc = "telling", !.tools = outcome,
                                   !.twice = agent[s].tools # "none"]
  <1>4. b \in Thread /\ b.pc = "telling" /\ b.tools = outcome /\ b.twice = FALSE
    BY <1>1, <1>2 DEF Thread
  <1> HIDE DEF b
  <1>5. ThreadOK(b)
    BY <1>4 DEF ThreadOK
  <1>6. Goes(s, b)
    BY <1>1, <1>3, <1>4, <1>5 DEF Goes, b
  <1>7. QED
    BY <1>6

LEMMA AgentStepInv == ASSUME GInv, NEW s \in Positions, AgentStep(s) PROVE GInv'
  <1>1. at = "agents" /\ s \in Agents /\ UNCHANGED <<task, plan, at, run, mock, again>>
    BY DEF AgentStep
  <1>2. PICK b : Goes(s, b)
    BY StartAgentGoes, ModelCallGoes, RunToolsGoes DEF AgentStep
  <1>3. agent \in [Positions -> Thread] /\ agent' = [agent EXCEPT ![s] = b]
    BY <1>2 DEF GInv, TypeOK, Goes
  <1>4. agent' \in [Positions -> Thread]
    BY <1>2, <1>3 DEF Goes
  <1>5. acted' \in SUBSET Outputs
    <2>1. task.loop \in 1..MaxLoop
      BY <1>1, WorkingFacts, TaskFields, MaxLoopAssumption DEF WorkedOK, Counting
    <2>2. <<task.loop, s>> \in Outputs
      BY <2>1 DEF Outputs
    <2>3. QED
      BY <1>2, <2>2 DEF Goes, GInv, TypeOK
  <1>6. TypeOK'
    BY <1>1, <1>4, <1>5 DEF GInv, TypeOK
  <1>7. RunningOK(task, at, again)' /\ (run.claimed \/ Durable => IdleOK(run.saved, again))'
    <2>1. RunningOK(task', at', again') /\ (run'.claimed \/ Durable => IdleOK(run'.saved, again'))
      BY <1>1 DEF GInv
    <2>2. QED
      BY <2>1, RunningPrime, SavedPrime
  <1>8. (\A r \in Positions : ThreadOK(agent[r]))'
    <2>1. \A r \in Positions : ThreadOK(agent'[r])
      BY <1>2, <1>3 DEF Goes, GInv
    <2>2. QED
      BY <2>1, ThreadPrime
  <1>9. (\A r \in Positions \ Agents : agent[r] = Off)'
    BY <1>1, <1>3 DEF GInv, Agents
  <1>10. ASSUME NEW o \in acted' PROVE (Recorded(task, o) \/ Acting(o))'
    <2>1. CASE o \in acted /\ Recorded(task, o)
      BY <1>1, <2>1 DEF Recorded
    <2>2. CASE o \in acted /\ Acting(o)
      <3>1. PICK r \in Agents : o = <<task.loop, r>> /\ agent[r].tools # "none"
        BY <2>2 DEF Acting
      <3>2. agent'[r].tools # "none"
        BY <1>2, <1>3, <3>1, AgentsArePositions DEF Goes
      <3>3. QED
        BY <1>1, <3>1, <3>2 DEF Acting, Agents
    <2>3. CASE o = <<task.loop, s>> /\ b.tools # "none"
      <3>1. agent'[s].tools # "none"
        BY <1>3, <2>3
      <3>2. QED
        BY <1>1, <2>3, <3>1 DEF Acting, Agents
    <2>4. QED
      BY <1>1, <1>2, <1>10, <2>1, <2>2, <2>3 DEF Goes, GInv
  <1>11. QED
    BY <1>1, <1>6, <1>7, <1>8, <1>9, <1>10 DEF GInv

LEMMA AgentRaisesInv == ASSUME GInv, AgentRaises PROVE GInv'
  <1>1. at = "agents" /\ Raise(task)
    BY DEF AgentRaises
  <1>2. IdleOK(task, again)
    <2>1. Counted(task) /\ task.node = "subtask_execution"
      BY <1>1, WorkingFacts, CountingIsCounted DEF WorkedOK
    <2>2. QED
      BY <1>1, <2>1, WorkingFacts, LeftBehind
  <1>3. QED
    BY <1>1, <1>2, WorkingFacts, RaiseInv

(* The outcomes of the agents are what the records of their tools allow.    *)
LEMMA AppliedHonest ==
  ASSUME GInv, at = "agents", \A s \in Agents : Finished(s)
  PROVE  Applied \in Works /\ Honest(Applied) /\ DOMAIN Applied = DOMAIN plan.work
         /\ \A s \in DOMAIN plan.work : Applied[s].tools = agent[s].tools
  <1>1. PICK n \in 0..Width : plan.work \in [1..n -> Kind]
    BY AgentsArePositions
  <1>2. DOMAIN plan.work = 1..n /\ 1..n \subseteq Positions /\ Agents \subseteq 1..n
    BY <1>1, AgentsArePositions DEF Agents
  <1>3. ASSUME NEW s \in 1..n
        PROVE  /\ plan.work[s] \in Kind /\ agent[s].tools \in {"none", "ok", "failed"}
               /\ s \in Agents => agent[s].pc \in {"succeeded", "failed"}
               /\ s \in Agents /\ agent[s].tools = "failed" => agent[s].pc = "failed"
               /\ s \notin Agents => agent[s].tools = "none"
    <2>1. agent[s] \in Thread /\ ThreadOK(agent[s])
      BY <1>2 DEF GInv, TypeOK
    <2>2. s \in Agents => agent[s].pc \in {"succeeded", "failed"}
      BY DEF Finished
    <2>3. s \notin Agents => agent[s].tools = "none"
      <3>1. Off.tools = "none"
        BY DEF Off
      <3>2. QED
        BY <1>2, <3>1 DEF GInv
    <2>4. QED
      BY <1>1, <2>1, <2>2, <2>3 DEF Thread, ThreadOK
  <1>4. Applied \in [1..n -> Subtask]
    <2>1. ASSUME NEW s \in 1..n
          PROVE  [kind |-> IF s \in Agents THEN "agent" ELSE "human",
                  status |-> IF s \in Agents THEN agent[s].pc ELSE "running",
                  tools |-> agent[s].tools] \in Subtask
      BY <1>3 DEF Subtask
    <2>2. QED
      BY <1>2, <2>1 DEF Applied
  <1>5. Honest(Applied)
    BY <1>2, <1>3 DEF Honest, Applied
  <1>6. QED
    BY <1>2, <1>4, <1>5 DEF Works, Applied
LEMMA CollectInv == ASSUME GInv, Collect PROVE GInv'
  <1> DEFINE w == Applied
             r == NewRound(task, w)
             t == AppendPendingRound(task, w)
             failed == \E s \in DOMAIN w : w[s].status = "failed"
  <1>1. at = "agents" /\ Counting(task) /\ \A s \in Agents : Finished(s)
    BY WorkingFacts DEF Collect, WorkedOK
  <1>2. w \in Works /\ Honest(w) /\ DOMAIN w = DOMAIN plan.work
        /\ \A s \in DOMAIN plan.work : w[s].tools = agent[s].tools
    BY <1>1, AppliedHonest
  <1>3. AgentsIdle
    BY AgentsOff DEF Collect
  <1>4. \/ /\ task' = Finalize(t, "failed", FALSE) /\ at' = "idle"
           /\ plan' = NoPlan /\ run' = NoRun /\ UNCHANGED <<mock, acted, again>>
        \/ /\ ~failed /\ Open(w) /\ task' = [t EXCEPT !.node = "human_execution"] /\ at' = "idle"
           /\ plan' = NoPlan /\ run' = NoRun /\ UNCHANGED <<mock, acted, again>>
        \/ /\ ~failed /\ ~Open(w)
           /\ task' = [task EXCEPT !.node = "context_update", !.rounds = Append(@, r),
                                   !.summary = @ \cup Done(r)]
           /\ at' = "completion_judge" /\ UNCHANGED <<plan, run, mock, acted, again>>
    BY DEF Collect, Ends
  <1> HIDE DEF w
  <1>5. ~failed => Unfailed(w)
    BY DEF Unfailed
  <1> HIDE DEF failed
  <1>6. t = [task EXCEPT !.rounds = Append(@, r)]
    <2>1. \A i \in DOMAIN task.rounds : task.rounds[i].index # task.loop
      BY <1>1, WorkingFacts, TaskFields, RoundFields DEF Counting, Below
    <2>2. QED
      BY <2>1 DEF AppendPendingRound
  <1> HIDE DEF t
  <1>7. t.rounds = Append(task.rounds, r)
    BY <1>1, <1>6, WorkingFacts DEF Task
  <1>8. ASSUME NEW u, u.rounds = Append(task.rounds, r)
        PROVE  /\ r \in Round /\ u.rounds \in Seq(Round) /\ RoundsOK(u) /\ Below(u, task.loop + 1)
               /\ Unfailed(w) => NothingFailed(u)
               /\ again = 0 =>
                    /\ OnlyLastOpen(u) /\ (NothingOpen(u) <=> ~Open(w))
                    /\ u.rounds[Len(u.rounds)].before = DoneBefore(u)
                    /\ DoneIn(u) = task.summary \cup Done(r)
               /\ \A o \in acted : Recorded(u, o)
    <2>1. /\ task \in Task /\ RoundsOK(task) /\ NothingFailed(task)
          /\ again = 0 => Current(task) /\ NothingOpen(task)
      BY <1>1, WorkingFacts DEF Current
    <2>2. /\ r \in Round /\ u.rounds \in Seq(Round)
          /\ RoundsOK(u) /\ Below(u, task.loop + 1)
          /\ NothingFailed(task) /\ Unfailed(w) => NothingFailed(u)
          /\ NothingOpen(task) => OnlyLastOpen(u) /\ (NothingOpen(u) <=> ~Open(w))
          /\ Current(task) => u.rounds[Len(u.rounds)].before = DoneBefore(u)
          /\ Current(task) => DoneIn(u) = task.summary \cup Done(r)
          /\ \E i \in DOMAIN u.rounds : u.rounds[i] = r
          /\ \A o : Recorded(task, o) => Recorded(u, o)
      <3>1. task \in Task /\ RoundsOK(task) /\ Counting(task) /\ w \in Works /\ Honest(w)
        BY <1>1, <1>2, <2>1
      <3>2. u.rounds = Append(task.rounds, NewRound(task, w)) /\ r = NewRound(task, w)
        BY <1>8
      <3> HIDE DEF r
      <3>3. QED
        BY ONLY <3>1, <3>2, AppendRound
    <2>3. r.index = task.loop /\ r.work = w
      BY DEF NewRound
    <2>4. ASSUME NEW o \in acted PROVE Recorded(u, o)
      <3>1. CASE Recorded(task, o)
        BY <2>2, <3>1
      <3>2. CASE Acting(o)
        <4>1. PICK s \in Agents : o = <<task.loop, s>> /\ agent[s].tools # "none"
          BY <3>2 DEF Acting
        <4>2. s \in DOMAIN w /\ w[s].tools # "none"
          BY <1>2, <4>1 DEF Agents
        <4>3. o[1] = task.loop /\ o[2] = s
          BY <4>1
        <4>4. QED
          BY <2>2, <2>3, <4>2, <4>3 DEF Recorded
      <3>3. QED
        BY <3>1, <3>2 DEF GInv
    <2>5. QED
      BY <2>1, <2>2, <2>4
  <1> HIDE DEF r
  <1>9. /\ t \in Task /\ t.loop = task.loop /\ t.summary = task.summary /\ t.started
        /\ t.status = "running"
    <2> DEFINE rs == Append(task.rounds, r)
    <2>1. rs \in Seq(Round)
      BY <1>7, <1>8
    <2>2. t = [task EXCEPT !.rounds = rs]
      BY <1>6
    <2>3. task \in Task /\ task.started /\ task.status = "running"
      BY <1>1, WorkingFacts
    <2> HIDE DEF rs
    <2>4. QED
      BY <2>1, <2>2, <2>3 DEF Task
  <1>10. CASE task' = Finalize(t, "failed", FALSE) /\ at' = "idle"
              /\ plan' = NoPlan /\ run' = NoRun /\ UNCHANGED <<mock, acted, again>>
    <2>1. RoundsOK(t) /\ (again = 0 => OnlyLastOpen(t)) /\ \A o \in acted : Recorded(t, o)
      BY <1>7, <1>8
    <2>2. Finalize(t, "failed", FALSE) \in Task /\ Finalize(t, "failed", FALSE).rounds = t.rounds
      <3>1. t \in Task
        BY <1>9
      <3>2. QED
        BY ONLY <3>1, FinalizeFacts
    <2>3. StoredOK(Finalize(t, "failed", FALSE))
      BY <1>9, <2>1, FinalizeStored
    <2>4. again = 0 => Fresh(Finalize(t, "failed", FALSE))
      BY <1>9, <2>1, FinalizeFresh
    <2>5. \A o \in acted : Recorded(task', o)
      BY <1>10, <2>1, <2>2, SameRounds
    <2>6. IdleOK(task', again')
      BY <1>10, <2>3, <2>4 DEF IdleOK
    <2>7. again' \in 0..MaxAgain
      BY <1>1, <1>10, WorkingFacts
    <2>8. QED
      BY <1>3, <1>10, <2>2, <2>5, <2>6, <2>7, NoPlanType, NoRunType, IdleInv
  <1>11. CASE ~failed /\ Open(w) /\ task' = [t EXCEPT !.node = "human_execution"] /\ at' = "idle"
              /\ plan' = NoPlan /\ run' = NoRun /\ UNCHANGED <<mock, acted, again>>
    <2>1. /\ task' \in Task /\ task'.rounds = t.rounds /\ task'.loop = task.loop
          /\ task'.started /\ task'.status = "running" /\ task'.node = "human_execution"
      BY <1>9, <1>11 DEF Task
    <2>2. /\ RoundsOK(task') /\ NothingFailed(task') /\ Below(task', task.loop + 1)
          /\ again = 0 => /\ OnlyLastOpen(task') /\ ~NothingOpen(task')
                          /\ task'.rounds[Len(task'.rounds)].before = DoneBefore(task')
          /\ \A o \in acted : Recorded(task', o)
      BY <1>5, <1>7, <1>8, <1>11, <2>1
    <2>3. Counted(task')
      BY <1>1, <2>1, <2>2 DEF Counting, Counted
    <2>4. StoredOK(task')
      BY <2>1, <2>2, <2>3 DEF StoredOK
    <2>5. again = 0 => Fresh(task')
      BY <2>1, <2>2 DEF Fresh, ContextOK
    <2>6. IdleOK(task', again') /\ again' \in 0..MaxAgain
      BY <1>1, <1>11, <2>4, <2>5, WorkingFacts DEF IdleOK
    <2>7. QED
      BY <1>3, <1>11, <2>1, <2>2, <2>6, NoPlanType, NoRunType, IdleInv
  <1>12. CASE /\ ~failed /\ ~Open(w)
              /\ task' = [task EXCEPT !.node = "context_update", !.rounds = Append(@, r),
                                      !.summary = @ \cup Done(r)]
              /\ at' = "completion_judge" /\ UNCHANGED <<plan, run, mock, acted, again>>
    <2> DEFINE rs == Append(task.rounds, r)
               out == task.summary \cup Done(r)
    <2>1. rs \in Seq(Round) /\ r \in Round
      BY <1>7, <1>8
    <2>2. task.summary \in SUBSET Outputs /\ Done(r) \in SUBSET Outputs
      BY <1>1, <2>1, WorkingFacts, TaskFields, DoneOutputs
    <2>3. out \in SUBSET Outputs
      BY <2>2
    <2>4. task' = [task EXCEPT !.node = "context_update", !.rounds = rs, !.summary = out]
      BY <1>12
    <2>5. task \in Task /\ task.started /\ task.status = "running"
      BY <1>1, WorkingFacts
    <2>6. rs = Append(task.rounds, r) /\ out = task.summary \cup Done(r)
      OBVIOUS
    <2> HIDE DEF rs, out
    <2>7. /\ task' \in Task /\ task'.rounds = rs /\ task'.loop = task.loop
          /\ task'.summary = out /\ task'.started /\ task'.status = "running"
      BY <2>1, <2>3, <2>4, <2>5 DEF Task
    <2>8. /\ RoundsOK(task') /\ NothingFailed(task') /\ Below(task', task.loop + 1)
          /\ again = 0 => NothingOpen(task') /\ task'.summary = DoneIn(task')
          /\ \A o \in acted : Recorded(task', o)
      BY <1>5, <1>8, <1>12, <2>6, <2>7
    <2>9. Counted(task')
      BY <1>1, <2>7, <2>8 DEF Counting, Counted
    <2>10. RunningOK(task', at', again')
      BY <1>12, <2>7, <2>8, <2>9 DEF RunningOK, WorkedOK, Current
    <2>11. QED
      BY <1>1, <1>3, <1>12, <2>7, <2>8, <2>10, WorkInv, WorkingFacts
  <1>13. QED
    BY <1>4, <1>10, <1>11, <1>12

LEMMA CompletionJudgeInv == ASSUME GInv, CompletionJudge PROVE GInv'
  <1> DEFINE t == [task EXCEPT !.node = "completion_judge"]
  <1>1. at = "completion_judge" /\ Counted(task) /\ AgentsIdle
    <2>1. at = "completion_judge"
      BY DEF CompletionJudge
    <2>2. UNCHANGED agent
      BY DEF CompletionJudge
    <2>3. QED
      BY <2>1, <2>2, WorkingFacts, AgentsStay DEF WorkedOK
  <1>2. /\ t \in Task /\ t.rounds = task.rounds /\ t.loop = task.loop /\ t.summary = task.summary
        /\ t.status = "running" /\ t.started
    BY <1>1, WorkingFacts DEF Task
  <1>3. \/ /\ task' = t /\ at' = IF LimitReached(t) THEN "human_intervention" ELSE "round_dispatch"
           /\ UNCHANGED <<plan, agent, run, mock, acted, again>>
        \/ /\ \E gaps \in BOOLEAN : task' = Finalize(t, "succeeded", gaps)
           /\ at' = "idle" /\ plan' = NoPlan /\ run' = NoRun /\ UNCHANGED <<agent, mock, acted, again>>
    BY DEF CompletionJudge, Ends
  <1> HIDE DEF t
  <1>4. /\ RoundsOK(t) /\ NothingFailed(t) /\ (again = 0 => Current(t)) /\ Counted(t)
        /\ \A o \in acted : Recorded(t, o)
    BY <1>1, <1>2, MovesOn, SameCounter, ActsRecorded
  <1>5. CASE /\ task' = t /\ at' = IF LimitReached(t) THEN "human_intervention" ELSE "round_dispatch"
             /\ UNCHANGED <<plan, agent, run, mock, acted, again>>
    <2>1. at' = "round_dispatch"
      <3>1. t.loop < MaxLoop /\ t.loop \in Nat /\ MaxLoop \in Nat
        BY <1>2, <1>4, TaskFields, MaxLoopAssumption DEF Counted
      <3>2. QED
        BY <1>5, <3>1 DEF LimitReached
    <2>2. RunningOK(task', at', again')
      BY <1>2, <1>4, <1>5, <2>1 DEF RunningOK, WorkedOK
    <2>3. QED
      BY <1>1, <1>2, <1>4, <1>5, <2>1, <2>2, WorkInv, WorkingFacts
  <1>6. CASE /\ \E gaps \in BOOLEAN : task' = Finalize(t, "succeeded", gaps)
             /\ at' = "idle" /\ plan' = NoPlan /\ run' = NoRun /\ UNCHANGED <<agent, mock, acted, again>>
    <2>1. PICK gaps \in BOOLEAN : task' = Finalize(t, "succeeded", gaps)
      BY <1>6
    <2>2. Finalize(t, "succeeded", gaps) \in Task
          /\ Finalize(t, "succeeded", gaps).rounds = t.rounds
      BY <1>2, FinalizeFacts
    <2>3. StoredOK(Finalize(t, "succeeded", gaps))
      BY <1>2, <1>4, FinalizeStored
    <2>4. again = 0 => Fresh(Finalize(t, "succeeded", gaps))
      <3>1. again = 0 => OnlyLastOpen(t)
        BY <1>4 DEF Current, NothingOpen, OnlyLastOpen
      <3>2. QED
        BY <1>2, <1>4, <3>1, FinalizeFresh
    <2>5. \A o \in acted : Recorded(task', o)
      BY <1>4, <2>1, <2>2, SameRounds
    <2>6. IdleOK(task', again') /\ again' \in 0..MaxAgain
      BY <1>1, <1>6, <2>1, <2>3, <2>4, WorkingFacts DEF IdleOK
    <2>7. QED
      BY <1>1, <1>6, <2>1, <2>2, <2>5, <2>6, NoPlanType, NoRunType, IdleInv
  <1>7. QED
    BY <1>3, <1>5, <1>6

LEMMA HumanInterventionInv == ASSUME GInv, HumanIntervention PROVE GInv'
  <1>1. at = "human_intervention" /\ Limited(task) /\ AgentsIdle
    BY WorkingFacts, AgentsStay DEF HumanIntervention, WorkedOK
  <1>2. /\ task' = [task EXCEPT !.node = "human_intervention"] /\ at' = "idle" /\ plan' = NoPlan
        /\ run' = NoRun /\ UNCHANGED <<mock, acted, again>>
    BY DEF HumanIntervention, Ends
  <1>3. /\ task' \in Task /\ task'.rounds = task.rounds /\ task'.loop = task.loop
        /\ task'.summary = task.summary /\ task'.status = "running" /\ task'.started
        /\ task'.node = "human_intervention"
    BY <1>1, <1>2, WorkingFacts DEF Task
  <1>4. Limited(task') /\ \A o \in acted : Recorded(task', o)
    BY <1>1, <1>3, SameRounds, SameCounter, ActsRecorded
  <1>5. IdleOK(task', again)
    BY <1>1, <1>3, <1>4, LeftBehind
  <1>6. QED
    BY <1>1, <1>2, <1>3, <1>4, <1>5, WorkingFacts, NoPlanType, NoRunType, IdleInv
-----------------------------------------------------------------------------
(* Requests between the runs. *)

LEMMA IdleFacts ==
  ASSUME GInv, at = "idle"
  PROVE  /\ task \in Task /\ StoredOK(task) /\ (again = 0 => Fresh(task))
         /\ again \in 0..MaxAgain /\ plan \in Plan /\ run \in Runs
         /\ \A o \in acted : Recorded(task, o)
  BY ActsRecorded DEF GInv, TypeOK, IdleOK, Runs

(* Who waits for nobody has a complete context.                             *)
LEMMA FreshIsCurrent ==
  ASSUME NEW t, Fresh(t), t.status = "running", t.node # "human_execution"
  PROVE  Current(t)
  BY DEF Fresh, ContextOK, Current

LEMMA ClaimInv == ASSUME GInv, Claim PROVE GInv'
  <1>1. /\ at = "idle" /\ task.status = "running" /\ (~task.started \/ task.node = "context_update")
        /\ task' = [task EXCEPT !.node = "dispatch_decision", !.started = TRUE]
        /\ run' = [claimed |-> TRUE, from |-> task', saved |-> task']
        /\ at' = "round_dispatch" /\ UNCHANGED <<plan, agent, mock, acted, again>>
    BY DEF Claim, ResumesAfterHumanRound
  <1>2. task \in Task /\ StoredOK(task) /\ AgentsIdle
    BY <1>1, AgentsStay, IdleFacts
  <1>3. /\ RoundsOK(task) /\ NothingFailed(task) /\ (Counted(task) \/ Limited(task))
        /\ task.node # "human_execution"
    BY <1>1, <1>2 DEF StoredOK
  <1>4. again = 0 => Current(task)
    BY <1>1, <1>3, IdleFacts, FreshIsCurrent
  <1>5. /\ task' \in Task /\ task'.rounds = task.rounds /\ task'.loop = task.loop
        /\ task'.summary = task.summary /\ task'.status = "running" /\ task'.started
        /\ task'.node = "dispatch_decision"
    BY <1>1, <1>2 DEF Task
  <1>6. /\ RoundsOK(task') /\ NothingFailed(task') /\ (again = 0 => Current(task'))
        /\ Counted(task') \/ Limited(task')
        /\ \A o \in acted : Recorded(task', o)
    BY <1>1, <1>3, <1>4, <1>5, SameRounds, SameCounter, SameContext, ActsRecorded
  <1>7. RunningOK(task', at', again')
    BY <1>1, <1>5, <1>6 DEF RunningOK, WorkedOK
  <1>8. IdleOK(task', again')
    <2>1. StoredOK(task')
      BY <1>5, <1>6 DEF StoredOK
    <2>2. again = 0 => Fresh(task')
      BY <1>5, <1>6, CurrentIsFresh
    <2>3. QED
      BY <1>1, <2>1, <2>2 DEF IdleOK
  <1>9. run' \in Runs /\ run'.saved = task'
    BY <1>1, <1>5 DEF Runs
  <1>10. QED
    BY <1>1, <1>2, <1>5, <1>6, <1>7, <1>8, <1>9, WorkInv, IdleFacts

(* A request goes on with a task.                                           *)
LEMMA InlineInv ==
  ASSUME GInv, at = "idle", NEW t \in Task, RoundsOK(t), NothingFailed(t),
         t.status = "running", Counted(t) \/ Limited(t), RunsInline(t),
         again' \in 0..MaxAgain, again' = 0 => again = 0 /\ Current(t),
         \A o \in acted : Recorded(t, o)
  PROVE  GInv'
  <1>1. /\ task' = [t EXCEPT !.started = TRUE] /\ at' = "round_dispatch"
        /\ run' = [claimed |-> FALSE, from |-> task', saved |-> IF Durable THEN task ELSE task']
        /\ UNCHANGED <<plan, agent, mock, acted>>
    BY DEF RunsInline
  <1>2. task \in Task /\ AgentsIdle
    BY <1>1, AgentsStay, IdleFacts
  <1>3. /\ task' \in Task /\ task'.rounds = t.rounds /\ task'.loop = t.loop
        /\ task'.summary = t.summary /\ task'.status = "running" /\ task'.started
    BY <1>1 DEF Task
  <1>4. /\ RoundsOK(task') /\ NothingFailed(task') /\ (again' = 0 => Current(task'))
        /\ Counted(task') \/ Limited(task')
        /\ \A o \in acted : Recorded(task', o)
    BY <1>3, SameRounds, SameCounter, SameContext
  <1>5. RunningOK(task', at', again')
    BY <1>1, <1>3, <1>4 DEF RunningOK, WorkedOK
  <1>6. /\ run' \in Runs
        /\ run'.claimed \/ Durable => IdleOK(run'.saved, again')
    <2>1. run' \in Runs
      BY <1>1, <1>2, <1>3 DEF Runs
    <2>2. ~run'.claimed /\ (Durable => run'.saved = task)
      BY <1>1
    <2>3. IdleOK(task, again')
      BY IdleFacts DEF IdleOK
    <2>4. QED
      BY <2>1, <2>2, <2>3
  <1>7. QED
    BY <1>1, <1>2, <1>3, <1>4, <1>5, <1>6, WorkInv, IdleFacts

LEMMA StoresInv ==
  ASSUME GInv, at = "idle", NEW t \in Task, IdleOK(t, again'), again' \in 0..MaxAgain, Stores(t),
         \A o \in acted : Recorded(t, o)
  PROVE  GInv'
  <1>1. task' = t /\ UNCHANGED <<plan, at, agent, run, mock, acted>>
    BY DEF Stores
  <1>2. AgentsIdle /\ plan' \in Plan /\ run' \in Runs
    BY <1>1, AgentsStay, IdleFacts
  <1>3. QED
    BY <1>1, <1>2, IdleInv

LEMMA FinalizeIdle ==
  ASSUME GInv, at = "idle", NEW t \in Task, NEW candidate \in {"succeeded", "failed"}, NEW gaps,
         RoundsOK(t), again' = 0 => OnlyLastOpen(t), again' \in 0..MaxAgain,
         candidate = "succeeded" => /\ NothingFailed(t) /\ t.started /\ t.status = "running"
                                    /\ Counted(t) \/ Limited(t)
                                    /\ again' = 0 => Current(t),
         \A o \in acted : Recorded(t, o),
         Stores(Finalize(t, candidate, gaps))
  PROVE  GInv'
  <1> DEFINE f == Finalize(t, candidate, gaps)
  <1>1. f \in Task /\ f.rounds = t.rounds
    BY FinalizeFacts
  <1>2. StoredOK(f)
    BY FinalizeStored
  <1>3. again' = 0 => Fresh(f)
    BY FinalizeFresh
  <1> HIDE DEF f
  <1>4. IdleOK(f, again')
    BY <1>2, <1>3 DEF IdleOK
  <1>5. \A o \in acted : Recorded(f, o)
    BY <1>1, SameRounds
  <1>6. Stores(f)
    BY DEF f
  <1>7. QED
    BY <1>1, <1>4, <1>5, <1>6, StoresInv

(* The round of the result, merged, whatever result it is.                  *)
LEMMA MergedFacts ==
  ASSUME NEW t \in Task, StoredOK(t), t.status = "running", NEW i \in DOMAIN t.rounds,
         NEW s \in DOMAIN t.rounds[i].work, NEW status \in {"succeeded", "failed"},
         NEW p, p = Posted(t, i, s, status),
         NEW m, m = MergeCompletedRound(p, i)
  PROVE  /\ p \in Task /\ RoundsOK(p) /\ p.status = "running" /\ p.started
         /\ Counted(p) \/ Limited(p)
         /\ status = "succeeded" => NothingFailed(p)
         /\ p.rounds[i].before = t.rounds[i].before
         /\ Len(p.rounds) = Len(t.rounds) /\ DOMAIN p.rounds = DOMAIN t.rounds
         /\ \A j \in DOMAIN t.rounds : j # i => p.rounds[j] = t.rounds[j]
         /\ \A o : Recorded(t, o) => Recorded(p, o)
         /\ m \in Task /\ m.rounds = p.rounds
         /\ m.summary = p.rounds[i].before \cup Done(p.rounds[i])
         /\ m.status = "running" /\ m.started /\ m.node = "context_update"
         /\ Counted(m) \/ Limited(m)
         /\ RoundsOK(m) /\ (status = "succeeded" => NothingFailed(m))
         /\ \A o : Recorded(t, o) => Recorded(m, o)
  <1>1. RoundsOK(t) /\ NothingFailed(t) /\ (Counted(t) \/ Limited(t))
    BY DEF StoredOK
  <1>2. /\ p \in Task /\ RoundsOK(p) /\ i \in DOMAIN p.rounds
        /\ p.rounds[i] \in Round /\ p.rounds[i].before = t.rounds[i].before
        /\ p.status = t.status /\ p.loop = t.loop /\ p.started = t.started
        /\ Len(p.rounds) = Len(t.rounds) /\ DOMAIN p.rounds = DOMAIN t.rounds
        /\ \A j \in DOMAIN t.rounds : p.rounds[j].index = t.rounds[j].index
        /\ \A j \in DOMAIN t.rounds : j # i => p.rounds[j] = t.rounds[j]
        /\ status = "succeeded" => NothingFailed(p)
        /\ \A o : Recorded(t, o) => Recorded(p, o)
    BY ONLY <1>1, t \in Task, i \in DOMAIN t.rounds, s \in DOMAIN t.rounds[i].work,
            status \in {"succeeded", "failed"}, p = Posted(t, i, s, status), PostRound
  <1>3. t.started
    <2>1. t.rounds # <<>>
      OBVIOUS
    <2>2. QED
      BY <2>1 DEF StoredOK
  <1>4. Counted(p) \/ Limited(p)
    BY <1>1, <1>2 DEF Counted, Limited, Below
  <1> DEFINE sum == p.rounds[i].before \cup Done(p.rounds[i])
  <1>5. sum \in SUBSET Outputs
    BY <1>2, DoneOutputs, RoundFields
  <1>6. m = [p EXCEPT !.node = "context_update", !.summary = sum]
    BY DEF MergeCompletedRound
  <1> HIDE DEF sum
  <1>7. /\ m \in Task /\ m.rounds = p.rounds /\ m.summary = sum /\ m.status = p.status
        /\ m.started = p.started /\ m.node = "context_update" /\ m.loop = p.loop
    BY <1>2, <1>5, <1>6 DEF Task
  <1>8. /\ RoundsOK(m) /\ (NothingFailed(p) => NothingFailed(m))
        /\ \A o : Recorded(p, o) <=> Recorded(m, o)
    <2>1. m.rounds = p.rounds /\ RoundsOK(p)
      BY <1>2, <1>7
    <2>2. QED
      BY ONLY <2>1, SameRounds
  <1>9. Counted(m) \/ Limited(m)
    BY <1>4, <1>7, SameCounter
  <1>10. QED
    BY <1>2, <1>3, <1>4, <1>7, <1>8, <1>9 DEF sum

(* A first result makes the context complete, if it is the last one.        *)
LEMMA MergedFresh ==
  ASSUME NEW t \in Task, StoredOK(t), Fresh(t), t.status = "running", NEW i \in DOMAIN t.rounds,
         NEW s \in DOMAIN t.rounds[i].work, t.rounds[i].work[s].status = "running",
         NEW status \in {"succeeded", "failed"},
         NEW p, p = Posted(t, i, s, status),
         NEW m, m = MergeCompletedRound(p, i)
  PROVE  /\ OnlyLastOpen(p) /\ (NothingOpen(p) <=> ~Open(p.rounds[i].work))
         /\ p.rounds[Len(p.rounds)].before = DoneBefore(p)
         /\ OnlyLastOpen(m) /\ (~Open(p.rounds[i].work) => Current(m))
  <1>1. /\ Len(p.rounds) = Len(t.rounds) /\ DOMAIN p.rounds = DOMAIN t.rounds
        /\ \A j \in DOMAIN t.rounds : j # i => p.rounds[j] = t.rounds[j]
        /\ p.rounds[i].before = t.rounds[i].before
        /\ m.rounds = p.rounds /\ m.summary = p.rounds[i].before \cup Done(p.rounds[i])
    BY ONLY t \in Task, StoredOK(t), t.status = "running", i \in DOMAIN t.rounds,
            s \in DOMAIN t.rounds[i].work, status \in {"succeeded", "failed"},
            p = Posted(t, i, s, status), m = MergeCompletedRound(p, i), MergedFacts
  <1>2. OnlyLastOpen(t)
    BY DEF Fresh
  <1>3. /\ i = Len(p.rounds) /\ OnlyLastOpen(p) /\ ~NothingOpen(t)
        /\ NothingOpen(p) <=> ~Open(p.rounds[i].work)
        /\ DoneBefore(p) = DoneBefore(t)
        /\ DoneIn(p) = DoneBefore(p) \cup Done(p.rounds[i])
    BY ONLY <1>1, <1>2, t \in Task, i \in DOMAIN t.rounds, s \in DOMAIN t.rounds[i].work,
            t.rounds[i].work[s].status = "running", PostLast
  <1>4. t.rounds[i].before = DoneBefore(t)
    BY <1>1, <1>3 DEF Fresh, ContextOK
  <1>5. OnlyLastOpen(m) /\ (NothingOpen(m) <=> NothingOpen(p)) /\ DoneIn(m) = DoneIn(p)
    <2>1. m.rounds = p.rounds /\ OnlyLastOpen(p)
      BY <1>1, <1>3
    <2>2. QED
      BY ONLY <2>1, SameRounds
  <1>6. QED
    BY <1>1, <1>3, <1>4, <1>5 DEF Current

LEMMA HumanResultInv ==
  ASSUME GInv, NEW i \in DOMAIN task.rounds, NEW s \in DOMAIN task.rounds[i].work,
         HumanResult(i, s)
  PROVE  GInv'
  <1> DEFINE posted(status) == Posted(task, i, s, status)
             merged(status) == MergeCompletedRound(posted(status), i)
             more == Open(posted("succeeded").rounds[i].work)
             first == task.rounds[i].work[s].status = "running"
  <1>1. /\ at = "idle" /\ task.status = "running"
        /\ \/ first /\ UNCHANGED again
           \/ again < MaxAgain /\ again' = again + 1
        /\ \/ Stores(Finalize(merged("failed"), "failed", FALSE))
           \/ more /\ Stores([posted("succeeded") EXCEPT !.node = "human_execution"])
           \/ ~more /\ Stores(merged("succeeded"))
           \/ ~more /\ RunsInline(merged("succeeded"))
    BY DEF HumanResult, Posted
  <1>2. task \in Task /\ StoredOK(task) /\ (again = 0 => Fresh(task))
        /\ \A o \in acted : Recorded(task, o)
    BY <1>1, IdleFacts
  <1>3. again' \in 0..MaxAgain /\ (again' = 0 => again = 0 /\ first)
    <2>1. again \in 0..MaxAgain /\ MaxAgain \in Nat
      BY <1>1, IdleFacts, AgainAssumption
    <2> HIDE DEF first
    <2>2. QED
      BY <1>1, <2>1
  <1>4. CASE Stores(Finalize(merged("failed"), "failed", FALSE))
    <2> DEFINE m == merged("failed")
    <2>1. m \in Task /\ RoundsOK(m) /\ \A o : Recorded(task, o) => Recorded(m, o)
      BY <1>1, <1>2, MergedFacts
    <2>2. again' = 0 => OnlyLastOpen(m)
      BY <1>1, <1>2, <1>3, MergedFresh
    <2>3. Stores(Finalize(m, "failed", FALSE))
      BY <1>4
    <2> HIDE DEF m
    <2>4. \A o \in acted : Recorded(m, o)
      BY <1>2, <2>1
    <2>5. at = "idle" /\ again' \in 0..MaxAgain
      BY <1>1, <1>3
    <2>6. QED
      BY ONLY GInv, <2>1, <2>2, <2>3, <2>4, <2>5, FinalizeIdle
  <1> DEFINE p == posted("succeeded")
             m == merged("succeeded")
  <1>5. /\ p \in Task /\ RoundsOK(p) /\ p.status = "running" /\ p.started
        /\ Counted(p) \/ Limited(p)
        /\ NothingFailed(p)
        /\ \A o : Recorded(task, o) => Recorded(p, o)
        /\ m \in Task /\ m.status = "running" /\ m.started /\ m.node = "context_update"
        /\ Counted(m) \/ Limited(m)
        /\ RoundsOK(m) /\ NothingFailed(m)
        /\ \A o : Recorded(task, o) => Recorded(m, o)
    BY <1>1, <1>2, MergedFacts
  <1>6. again' = 0 =>
          /\ OnlyLastOpen(p) /\ (NothingOpen(p) <=> ~Open(p.rounds[i].work))
          /\ p.rounds[Len(p.rounds)].before = DoneBefore(p)
          /\ ~Open(p.rounds[i].work) => Current(m)
    BY <1>1, <1>2, <1>3, MergedFresh
  <1>7. more <=> Open(p.rounds[i].work)
    OBVIOUS
  <1>8. CASE more /\ Stores([p EXCEPT !.node = "human_execution"])
    <2>1. Open(p.rounds[i].work)
      BY <1>7, <1>8
    <2> HIDE DEF p, m
    <2> DEFINE u == [p EXCEPT !.node = "human_execution"]
    <2>2. /\ u \in Task /\ u.rounds = p.rounds /\ u.loop = p.loop /\ u.status = "running"
          /\ u.started /\ u.node = "human_execution"
      BY <1>5 DEF Task
    <2>3. Stores(u)
      BY <1>8 DEF p
    <2> HIDE DEF u
    <2>4. /\ RoundsOK(u) /\ NothingFailed(u) /\ (Counted(u) \/ Limited(u))
          /\ \A o : Recorded(task, o) => Recorded(u, o)
      BY <1>5, <2>2, SameRounds, SameCounter
    <2>5. StoredOK(u)
      BY <2>2, <2>4 DEF StoredOK
    <2>6. again' = 0 => Fresh(u)
      <3>1. again' = 0 => /\ OnlyLastOpen(u) /\ ~NothingOpen(u)
                          /\ DoneBefore(u) = DoneBefore(p)
        BY <1>6, <2>1, <2>2, SameRounds
      <3>2. QED
        BY <1>6, <2>2, <3>1 DEF Fresh, ContextOK
    <2>7. IdleOK(u, again')
      BY <2>5, <2>6 DEF IdleOK
    <2>8. \A o \in acted : Recorded(u, o)
      BY <1>2, <2>4
    <2>9. at = "idle" /\ again' \in 0..MaxAgain
      BY <1>1, <1>3
    <2>10. QED
      BY ONLY GInv, <2>2, <2>3, <2>7, <2>8, <2>9, StoresInv
  <1>9. CASE ~more /\ Stores(m)
    <2>1. ~Open(p.rounds[i].work) /\ Stores(m)
      BY <1>7, <1>9
    <2> HIDE DEF p, m
    <2>2. StoredOK(m)
      BY <1>5 DEF StoredOK
    <2>3. again' = 0 => Fresh(m)
      BY <1>5, <1>6, <2>1, CurrentIsFresh
    <2>4. IdleOK(m, again')
      BY <2>2, <2>3 DEF IdleOK
    <2>5. m \in Task /\ \A o \in acted : Recorded(m, o)
      BY <1>2, <1>5
    <2>6. at = "idle" /\ again' \in 0..MaxAgain
      BY <1>1, <1>3
    <2>7. QED
      BY ONLY GInv, <2>1, <2>4, <2>5, <2>6, StoresInv
  <1>10. CASE ~more /\ RunsInline(m)
    <2>1. ~Open(p.rounds[i].work) /\ RunsInline(m)
      BY <1>7, <1>10
    <2> HIDE DEF p, m
    <2>2. m \in Task /\ RoundsOK(m) /\ NothingFailed(m) /\ m.status = "running"
          /\ (Counted(m) \/ Limited(m)) /\ \A o \in acted : Recorded(m, o)
      BY <1>2, <1>5
    <2>3. again' = 0 => again = 0 /\ Current(m)
      BY <1>3, <1>6, <2>1
    <2>4. at = "idle" /\ again' \in 0..MaxAgain
      BY <1>1, <1>3
    <2>5. QED
      BY ONLY GInv, <2>1, <2>2, <2>3, <2>4, InlineInv
  <1>11. QED
    BY <1>1, <1>4, <1>8, <1>9, <1>10

LEMMA SubmitResultInv == ASSUME GInv, SubmitResult PROVE GInv'
  <1>1. /\ at = "idle" /\ task.status = "running" /\ task.node = "human_intervention"
        /\ UNCHANGED again
        /\ \/ \E result \in {"succeeded", "failed"}, gaps \in BOOLEAN :
                Stores(Finalize(task, result, gaps))
           \/ ~task.awaiting /\ RunsInline(task)
    BY DEF SubmitResult
  <1>2. task \in Task /\ StoredOK(task) /\ again' \in 0..MaxAgain
        /\ \A o \in acted : Recorded(task, o)
    BY <1>1, IdleFacts
  <1>3. /\ RoundsOK(task) /\ NothingFailed(task) /\ task.started
        /\ Counted(task) \/ Limited(task)
    BY <1>1, <1>2 DEF StoredOK
  <1>4. again' = 0 => again = 0 /\ Current(task) /\ OnlyLastOpen(task)
    <2>1. again' = 0 => Fresh(task)
      BY <1>1, IdleFacts
    <2>2. QED
      BY <1>1, <2>1, FreshIsCurrent DEF Fresh
  <1>5. CASE \E result \in {"succeeded", "failed"}, gaps \in BOOLEAN :
               Stores(Finalize(task, result, gaps))
    BY <1>1, <1>2, <1>3, <1>4, <1>5, FinalizeIdle
  <1>6. CASE ~task.awaiting /\ RunsInline(task)
    BY <1>1, <1>2, <1>3, <1>4, <1>6, InlineInv
  <1>7. QED
    BY <1>1, <1>5, <1>6
-----------------------------------------------------------------------------
LEMMA InitGInv == ASSUME Init PROVE GInv
  <1>1. Confirmed \in Task /\ run \in Runs
    BY NoRunType DEF Init
  <1>2. /\ Confirmed.status = "running" /\ Confirmed.node = "dispatch_decision"
        /\ Confirmed.loop = 0 /\ Confirmed.rounds = <<>> /\ Confirmed.summary = {}
    BY DEF Confirmed
  <1>3. /\ RoundsOK(Confirmed) /\ NothingFailed(Confirmed) /\ OnlyLastOpen(Confirmed)
        /\ NothingOpen(Confirmed) /\ DoneIn(Confirmed) = {} /\ Counted(Confirmed)
    BY <1>2, MaxLoopAssumption
       DEF RoundsOK, Numbered, NothingFailed, OnlyLastOpen, NothingOpen, DoneIn, Counted, Below
  <1>4. IdleOK(Confirmed, 0)
    BY <1>2, <1>3 DEF IdleOK, StoredOK, Fresh, ContextOK
  <1>5. Off \in Thread /\ ThreadOK(Off)
    BY BoundsAssumption DEF Off, Thread, ThreadOK
  <1>6. TypeOK
    BY <1>1, <1>5, NoPlanType, AgainAssumption DEF Init, TypeOK, Runs
  <1>7. QED
    BY <1>4, <1>5, <1>6 DEF Init, GInv

(* The state of a run and of the stored task is as described at all times.  *)
THEOREM GraphInvariance == Spec => []GInv
  <1>1. Init => GInv
    BY InitGInv
  <1>2. GInv /\ [Next]_vars => GInv'
    <2> SUFFICES ASSUME GInv, [Next]_vars PROVE GInv'
      OBVIOUS
    <2>1. CASE Request
      BY <2>1, ClaimInv, HumanResultInv, SubmitResultInv DEF Request
    <2>2. CASE GraphStep
      BY <2>2, RoundDispatchInv, PlannerRaisesInv, DistributeInv, AgentRaisesInv, CollectInv,
         CompletionJudgeInv, HumanInterventionInv DEF GraphStep
    <2>3. CASE \E s \in Positions : AgentStep(s)
      BY <2>3, AgentStepInv
    <2>4. CASE UNCHANGED vars
      <3>1. TypeOK'
        BY <2>4 DEF vars, GInv, TypeOK
      <3>2. at' = "idle" => IdleOK(task, again)'
        BY <2>4, IdlePrime DEF vars, GInv
      <3>3. at' # "idle" => RunningOK(task, at, again)'
        BY <2>4, RunningPrime DEF vars, GInv
      <3>4. at' # "idle" => (run.claimed \/ Durable => IdleOK(run.saved, again))'
        BY <2>4, SavedPrime DEF vars, GInv
      <3>5. (\A s \in Positions : ThreadOK(agent[s]))'
        BY <2>4, ThreadPrime DEF vars, GInv
      <3>6. (\A o \in acted : Recorded(task, o) \/ Acting(o))'
        BY <2>4 DEF vars, GInv, Recorded, Acting, Agents
      <3>7. QED
        BY <2>4, <3>1, <3>2, <3>3, <3>4, <3>5, <3>6 DEF vars, GInv, Agents
    <2>5. QED
      BY <2>1, <2>2, <2>3, <2>4 DEF Next
  <1>3. QED
    BY <1>1, <1>2, PTL DEF Spec

(* Every variable of a run keeps its type.                                  *)
THEOREM GraphTypes == Spec => []TypeOK
  <1>1. GInv => TypeOK
    BY DEF GInv
  <1>2. QED
    BY <1>1, GraphInvariance, PTL

(* A task that was given up for its limit has had fewer rounds than that,   *)
(* however it came there: the documented limit is never reached.            *)
THEOREM LimitCosts ==
  Spec => [](at = "idle" /\ task.node = "human_intervention" /\ ~task.awaiting
               => Len(task.rounds) < MaxLoop)
  <1>1. GInv => (at = "idle" /\ task.node = "human_intervention" /\ ~task.awaiting
                   => Len(task.rounds) < MaxLoop)
    <2> SUFFICES ASSUME GInv, at = "idle", task.node = "human_intervention", ~task.awaiting
                 PROVE  Len(task.rounds) < MaxLoop
      OBVIOUS
    <2>1. task \in Task /\ StoredOK(task)
      BY IdleFacts
    <2>2. Limited(task) /\ Numbered(task)
      <3>1. task.status = "running"
        BY <2>1 DEF StoredOK
      <3>2. QED
        BY <2>1, <3>1 DEF StoredOK, RoundsOK
    <2>3. /\ Len(task.rounds) \in Nat /\ DOMAIN task.rounds = 1..Len(task.rounds)
          /\ \A i \in DOMAIN task.rounds : task.rounds[i].index \in 1..MaxLoop
      BY <2>1, TaskFields, RoundFields
    <2>4. CASE Len(task.rounds) = 0
      BY <2>4, MaxLoopAssumption
    <2>5. CASE Len(task.rounds) # 0
      <3>1. Len(task.rounds) \in DOMAIN task.rounds
        BY <2>3, <2>5
      <3>2. /\ Len(task.rounds) <= task.rounds[Len(task.rounds)].index
            /\ task.rounds[Len(task.rounds)].index < MaxLoop
        BY <2>2, <3>1 DEF Numbered, Limited, Below
      <3>3. QED
        BY <2>3, <3>1, <3>2, MaxLoopAssumption
    <2>6. QED
      BY <2>4, <2>5
  <1>2. QED
    BY <1>1, GraphInvariance, PTL

(* While every subtask gets one result, who waits for a human waits for     *)
(* somebody, in the last round; and no two rounds share a number.           *)
THEOREM WaitsForWork == Spec => []WaitHasWork
  <1>1. GInv => WaitHasWork
    <2> SUFFICES ASSUME GInv PROVE WaitHasWork
      OBVIOUS
    <2>1. RoundsOK(task) /\ task \in Task
      BY IdleFacts, WorkingFacts DEF StoredOK
    <2>2. ASSUME at = "idle", task.status = "running", again = 0
          PROVE  /\ task.node = "human_execution" <=> ~NothingOpen(task)
                 /\ OnlyLastOpen(task)
      BY <2>2, IdleFacts DEF Fresh
    <2>3. \A i, j \in DOMAIN task.rounds : i < j => task.rounds[i].index < task.rounds[j].index
      BY <2>1 DEF RoundsOK, Numbered
    <2>4. QED
      BY <2>2, <2>3 DEF WaitHasWork, OnlyLastOpen, NothingOpen
  <1>2. QED
    BY <1>1, GraphInvariance, PTL

(* While every subtask gets one result, the planner sees the output of      *)
(* everything that was done before.                                         *)
THEOREM PlannerSeesAll == Spec => []ContextComplete
  <1>1. GInv => ContextComplete
    BY WorkingFacts DEF Current, DoneIn, ContextComplete
  <1>2. QED
    BY <1>1, GraphInvariance, PTL

(* No result, however often it is posted, ends a task well over open work.  *)
THEOREM GraphSuccessIsClean == Spec => []NoSuccessOverOpenWork
  <1>1. GInv => NoSuccessOverOpenWork
    <2> SUFFICES ASSUME GInv, task.status = "succeeded" PROVE NothingBlocks(task)
      BY DEF NoSuccessOverOpenWork, NothingBlocks
    <2>1. at = "idle"
      BY WorkingFacts
    <2>2. QED
      BY <2>1, IdleFacts DEF StoredOK
  <1>2. QED
    BY <1>1, GraphInvariance, PTL

(* What a tool did outside is in the record of the task, once.              *)
THEOREM ToolsAreRecorded == Spec => []ToolsAccountedFor
  <1>1. GInv => ToolsAccountedFor
    <2> SUFFICES ASSUME GInv PROVE ToolsAccountedFor
      OBVIOUS
    <2>1. \A s \in Positions : ~agent[s].twice
      BY DEF GInv, ThreadOK
    <2>2. \A i \in DOMAIN task.rounds : Honest(task.rounds[i].work)
      BY IdleFacts, WorkingFacts DEF StoredOK, RoundsOK
    <2>3. at = "idle" => \A o \in acted : Recorded(task, o)
      BY ActsRecorded
    <2>4. QED
      BY <2>1, <2>2, <2>3 DEF ToolsAccountedFor, Honest
  <1>2. QED
    BY <1>1, GraphInvariance, PTL
-----------------------------------------------------------------------------
(* What a run gives the service. *)

(* A run only adds rounds, and one with humans only as its last act.        *)
GrownFrom(t, from) ==
  /\ Len(from.rounds) <= Len(t.rounds)
  /\ \A i \in DOMAIN from.rounds : t.rounds[i] = from.rounds[i]
  /\ \A i \in DOMAIN t.rounds : i > Len(from.rounds) =>
       \A s \in DOMAIN t.rounds[i].work : t.rounds[i].work[s].kind # "human"

RunOK ==
  at # "idle" =>
    /\ GrownFrom(task, run.from)
    /\ run.from.status = "running" /\ task.awaiting = run.from.awaiting
    /\ run.claimed => run.saved = run.from

SlotStatus == {"none", "running", "succeeded", "failed"}

\* What the service sees of a round.
RoundView(r) ==
  [s \in Positions |-> IF s \in DOMAIN r.work /\ r.work[s].kind = "human"
                       THEN r.work[s].status ELSE "none"]
WithHuman(r) == \E s \in DOMAIN r.work : r.work[s].kind = "human"

LEMMA RoundViewFacts ==
  ASSUME NEW r \in Round
  PROVE  /\ RoundView(r) \in [Positions -> SlotStatus]
         /\ Service!Human(RoundView(r)) <=> WithHuman(r)
  <1>1. r.work \in Works
    BY RoundFields
  <1>2. PICK n \in 0..Width : r.work \in [1..n -> Subtask] /\ DOMAIN r.work \subseteq Positions
    BY <1>1, WorkDomain
  <1>3. \A s \in DOMAIN r.work : r.work[s].status \in {"running", "succeeded", "failed"}
    BY <1>2 DEF Subtask
  <1>4. RoundView(r) \in [Positions -> SlotStatus]
    BY <1>3 DEF RoundView, SlotStatus
  <1>5. Service!Human(RoundView(r)) <=> WithHuman(r)
    BY <1>2, <1>3 DEF RoundView, WithHuman, Service!Human
  <1>6. QED
    BY <1>4, <1>5

LEMMA ViewFacts ==
  ASSUME NEW t \in Task
  PROVE  /\ View(t).rounds \in Seq([Positions -> SlotStatus])
         /\ Len(View(t).rounds) = Len(t.rounds) /\ DOMAIN View(t).rounds = 1..Len(t.rounds)
         /\ \A i \in 1..Len(t.rounds) : View(t).rounds[i] = RoundView(t.rounds[i])
         /\ HumanAt(View(t)) = {i \in 1..Len(t.rounds) : WithHuman(t.rounds[i])}
  <1>1. /\ Len(t.rounds) \in Nat /\ DOMAIN t.rounds = 1..Len(t.rounds)
        /\ \A i \in 1..Len(t.rounds) : t.rounds[i] \in Round
    BY TaskFields
  <1>2. View(t).rounds = [i \in 1..Len(t.rounds) |-> RoundView(t.rounds[i])]
    BY <1>1 DEF View, RoundView
  <1>3. View(t).rounds \in [1..Len(t.rounds) -> [Positions -> SlotStatus]]
    BY <1>1, <1>2, RoundViewFacts
  <1>4. View(t).rounds \in Seq([Positions -> SlotStatus]) /\ Len(View(t).rounds) = Len(t.rounds)
    BY <1>1, <1>3
  <1>5. HumanAt(View(t)) = {i \in 1..Len(t.rounds) : WithHuman(t.rounds[i])}
    BY <1>1, <1>2, RoundViewFacts DEF HumanAt
  <1>6. QED
    BY <1>2, <1>4, <1>5

(* The same rounds with humans at the same places.                          *)
LEMMA SamePlaces ==
  ASSUME NEW u, NEW v, v = [u EXCEPT !.rounds = v.rounds], HumanAt(u) = HumanAt(v),
         \A i \in HumanAt(u) : v.rounds[i] = u.rounds[i]
  PROVE  SameForHumans(u, v)
  <1> DEFINE f == [i \in HumanAt(u) |-> i]
  <1>1. f \in [HumanAt(u) -> HumanAt(v)]
    OBVIOUS
  <1>2. /\ \A j \in HumanAt(v) : \E i \in HumanAt(u) : f[i] = j
        /\ \A i, j \in HumanAt(u) : i < j => f[i] < f[j]
        /\ \A i \in HumanAt(u) : v.rounds[f[i]] = u.rounds[i]
    OBVIOUS
  <1>3. QED
    BY <1>1, <1>2 DEF SameForHumans

(* One round with humans more, at p here and at q there.                    *)
LEMMA OneRoundMore ==
  ASSUME NEW u, NEW v, v = [u EXCEPT !.rounds = v.rounds],
         NEW K \in SUBSET Nat, NEW p \in Nat, NEW q \in Nat,
         HumanAt(u) = K \cup {p}, HumanAt(v) = K \cup {q},
         \A k \in K : k < p /\ k < q /\ v.rounds[k] = u.rounds[k],
         v.rounds[q] = u.rounds[p]
  PROVE  SameForHumans(u, v)
  <1> DEFINE f == [i \in HumanAt(u) |-> IF i = p THEN q ELSE i]
  <1>0. \A k \in K : k # p /\ k # q
    OBVIOUS
  <1>1. f \in [HumanAt(u) -> HumanAt(v)]
    BY <1>0
  <1>2. f[p] = q /\ \A k \in K : f[k] = k
    BY <1>0
  <1> HIDE DEF f
  <1>3. \A j \in HumanAt(v) : \E i \in HumanAt(u) : f[i] = j
    BY <1>2
  <1>4. \A i, j \in HumanAt(u) : i < j => f[i] < f[j]
    BY <1>2
  <1>5. \A i \in HumanAt(u) : v.rounds[f[i]] = u.rounds[i]
    BY <1>2
  <1>6. QED
    BY <1>1, <1>3, <1>4, <1>5 DEF SameForHumans

LEMMA GrownView ==
  ASSUME NEW t \in Task, NEW from \in Task, GrownFrom(t, from)
  PROVE  /\ HumanAt(View(t)) = HumanAt(View(from))
         /\ HumanAt(View(from)) \subseteq 1..Len(from.rounds)
         /\ \A i \in HumanAt(View(from)) : View(t).rounds[i] = View(from).rounds[i]
  <1>1. /\ Len(t.rounds) \in Nat /\ DOMAIN t.rounds = 1..Len(t.rounds)
        /\ Len(from.rounds) \in Nat /\ DOMAIN from.rounds = 1..Len(from.rounds)
    BY TaskFields
  <1>2. /\ \A i \in 1..Len(from.rounds) : i \in 1..Len(t.rounds) /\ t.rounds[i] = from.rounds[i]
        /\ \A i \in 1..Len(t.rounds) : i > Len(from.rounds) => ~WithHuman(t.rounds[i])
    BY <1>1 DEF GrownFrom, WithHuman
  <1>3. HumanAt(View(t)) = HumanAt(View(from))
    <2>1. HumanAt(View(t)) = {i \in 1..Len(t.rounds) : WithHuman(t.rounds[i])}
      BY ViewFacts
    <2>2. HumanAt(View(from)) = {i \in 1..Len(from.rounds) : WithHuman(from.rounds[i])}
      BY ViewFacts
    <2>3. \A i \in 1..Len(t.rounds) : i \in 1..Len(from.rounds) \/ i > Len(from.rounds)
      BY <1>1
    <2>4. QED
      BY <1>2, <2>1, <2>2, <2>3
  <1>4. QED
    BY <1>1, <1>2, <1>3, ViewFacts

\* Humans of a round, by their positions.
Humans(work) == {s \in DOMAIN work : work[s].kind = "human"}

(* The service adds a round.                                                *)
LEMMA AddedRound ==
  ASSUME NEW from \in Task, NEW H \in SUBSET Positions,
         NEW w, w = Service!AddRound(View(from), H)
  PROVE  /\ w = [View(from) EXCEPT !.rounds = w.rounds]
         /\ DOMAIN w.rounds = 1..Len(from.rounds) + 1
         /\ \A i \in 1..Len(from.rounds) : w.rounds[i] = View(from).rounds[i]
         /\ w.rounds[Len(from.rounds) + 1] = Service!NewRound(H)
         /\ HumanAt(w) = HumanAt(View(from)) \cup (IF H = {} THEN {} ELSE {Len(from.rounds) + 1})
  <1> DEFINE n == Len(from.rounds)
             rs == View(from).rounds
             r == Service!NewRound(H)
  <1>1. n \in Nat /\ rs \in Seq([Positions -> SlotStatus]) /\ Len(rs) = n
    BY TaskFields, ViewFacts
  <1>2. r \in [Positions -> SlotStatus] /\ (Service!Human(r) <=> H # {})
    BY DEF Service!NewRound, SlotStatus, Service!Human
  <1>3. w = [View(from) EXCEPT !.rounds = Append(rs, r)]
    BY DEF Service!AddRound
  <1>4. w.rounds = Append(rs, r)
    BY <1>3 DEF View
  <1> HIDE DEF rs, r, n
  <1>5. /\ DOMAIN Append(rs, r) = 1..n + 1
        /\ \A i \in 1..n : Append(rs, r)[i] = rs[i]
        /\ Append(rs, r)[n + 1] = r
    BY <1>1, <1>2
  <1>6. HumanAt(w) = HumanAt(View(from)) \cup (IF H = {} THEN {} ELSE {n + 1})
    <2>1. HumanAt(View(from)) = {i \in 1..n : Service!Human(rs[i])}
      BY <1>1 DEF HumanAt, rs
    <2>2. HumanAt(w) = {i \in 1..n + 1 : Service!Human(w.rounds[i])}
      BY <1>4, <1>5 DEF HumanAt
    <2>3. \A i \in 1..n + 1 : Service!Human(w.rounds[i]) <=>
            (i \in 1..n /\ Service!Human(rs[i])) \/ (i = n + 1 /\ H # {})
      BY <1>1, <1>2, <1>4, <1>5
    <2>4. QED
      BY <1>1, <2>1, <2>2, <2>3
  <1>7. QED
    BY <1>3, <1>4, <1>5, <1>6 DEF rs, r, n

(* The round that waits, or failed, is the one the service expects.         *)
LEMMA LastRound ==
  ASSUME NEW t \in Task, NEW from \in Task, GrownFrom(t, from),
         NEW work \in Works, \A s \in Humans(work) : work[s].status = "running",
         NEW r \in Round, r.work = work,
         NEW u \in Task, u.rounds = Append(t.rounds, r),
         NEW w, w = Service!AddRound(View(from), Humans(work)),
         NEW v, v.rounds = w.rounds, v = [View(u) EXCEPT !.rounds = v.rounds]
  PROVE  SameForHumans(View(u), v)
  <1> DEFINE n == Len(from.rounds)
             m == Len(t.rounds)
             H == Humans(work)
  <1>1. /\ t.rounds \in Seq(Round) /\ m \in Nat /\ n \in Nat /\ n <= m
        /\ DOMAIN t.rounds = 1..m
    BY TaskFields DEF GrownFrom
  <1>2. /\ DOMAIN u.rounds = 1..m + 1 /\ Len(u.rounds) = m + 1 /\ u.rounds[m + 1] = r
        /\ \A i \in 1..m : u.rounds[i] = t.rounds[i]
    BY <1>1
  <1>3. DOMAIN work \subseteq Positions /\ H \in SUBSET Positions
    BY WorkDomain DEF Humans
  <1>4. RoundView(r) = Service!NewRound(H) /\ (WithHuman(r) <=> H # {})
    BY <1>3 DEF RoundView, Service!NewRound, WithHuman, Humans
  <1>5. /\ DOMAIN w.rounds = 1..n + 1
        /\ \A i \in 1..n : w.rounds[i] = View(from).rounds[i]
        /\ w.rounds[n + 1] = Service!NewRound(H)
        /\ HumanAt(w) = HumanAt(View(from)) \cup (IF H = {} THEN {} ELSE {n + 1})
    BY <1>3, AddedRound
  <1>6. HumanAt(v) = HumanAt(w)
    BY DEF HumanAt
  <1> DEFINE K == HumanAt(View(from))
  <1>7. /\ HumanAt(View(t)) = K /\ K \subseteq 1..n
        /\ \A i \in K : View(t).rounds[i] = View(from).rounds[i]
    BY GrownView
  <1>8. /\ HumanAt(View(u)) = {i \in 1..m + 1 : WithHuman(u.rounds[i])}
        /\ HumanAt(View(t)) = {i \in 1..m : WithHuman(t.rounds[i])}
        /\ \A i \in 1..m + 1 : View(u).rounds[i] = RoundView(u.rounds[i])
        /\ \A i \in 1..m : View(t).rounds[i] = RoundView(t.rounds[i])
    BY <1>2, ViewFacts
  <1>9. HumanAt(View(u)) = K \cup (IF H = {} THEN {} ELSE {m + 1})
    <2>1. \A i \in 1..m + 1 : WithHuman(u.rounds[i]) <=>
            (i \in 1..m /\ WithHuman(t.rounds[i])) \/ (i = m + 1 /\ H # {})
      BY <1>1, <1>2, <1>4
    <2>2. QED
      BY <1>1, <1>7, <1>8, <2>1
  <1>10. \A k \in K : k < m + 1 /\ k < n + 1 /\ v.rounds[k] = View(u).rounds[k]
    <2> SUFFICES ASSUME NEW k \in K PROVE k < m + 1 /\ k < n + 1 /\ v.rounds[k] = View(u).rounds[k]
      OBVIOUS
    <2>1. k \in 1..n /\ k \in 1..m /\ k < m + 1 /\ k < n + 1 /\ k \in 1..m + 1
      BY <1>1, <1>7
    <2>2. View(u).rounds[k] = View(t).rounds[k]
      BY <1>2, <1>8, <2>1
    <2>3. QED
      BY <1>5, <1>7, <2>1, <2>2
  <1> HIDE DEF K, H, m, n
  <1>11. CASE H = {}
    <2>1. HumanAt(View(u)) = HumanAt(v) /\ \A i \in HumanAt(View(u)) : v.rounds[i] = View(u).rounds[i]
      BY <1>5, <1>6, <1>9, <1>10, <1>11 DEF K, n
    <2>2. QED
      BY <2>1, SamePlaces
  <1>12. CASE H # {}
    <2>1. m + 1 \in Nat /\ n + 1 \in Nat /\ K \in SUBSET Nat
      BY <1>1, <1>7 DEF K, m, n
    <2>2. HumanAt(View(u)) = K \cup {m + 1} /\ HumanAt(v) = K \cup {n + 1}
      BY <1>5, <1>6, <1>9, <1>12 DEF K, n
    <2>3. v.rounds[n + 1] = View(u).rounds[m + 1]
      BY <1>1, <1>2, <1>4, <1>5, <1>8 DEF H, m, n
    <2>4. PICK p \in Nat, q \in Nat, L \in SUBSET Nat : p = m + 1 /\ q = n + 1 /\ L = K
      BY <2>1
    <2>5. /\ HumanAt(View(u)) = L \cup {p} /\ HumanAt(v) = L \cup {q}
          /\ \A k \in L : k < p /\ k < q /\ v.rounds[k] = View(u).rounds[k]
          /\ v.rounds[q] = View(u).rounds[p]
      BY <1>10, <2>2, <2>3, <2>4
    <2>6. QED
      BY ONLY <2>5, v = [View(u) EXCEPT !.rounds = v.rounds], p \in Nat, q \in Nat,
              L \in SUBSET Nat, OneRoundMore
  <1>13. QED
    BY <1>11, <1>12

\* The task of a run that ends is one of those the service expects.
AsPromised(t) == \E v \in Promised : SameForHumans(View(t), v)

(* A run that ends without a round that waits or failed leaves the rounds   *)
(* with humans as they were.                                                *)
LEMMA NoRoundMore ==
  ASSUME NEW t \in Task, NEW from \in Task, GrownFrom(t, from),
         NEW v, v.rounds = View(from).rounds, v = [View(t) EXCEPT !.rounds = v.rounds]
  PROVE  SameForHumans(View(t), v)
  <1>1. /\ HumanAt(View(t)) = HumanAt(View(from))
        /\ \A i \in HumanAt(View(from)) : View(t).rounds[i] = View(from).rounds[i]
    BY GrownView
  <1>2. HumanAt(v) = HumanAt(View(from))
    BY DEF HumanAt
  <1>3. HumanAt(View(t)) = HumanAt(v) /\ \A i \in HumanAt(View(t)) : v.rounds[i] = View(t).rounds[i]
    BY <1>1, <1>2
  <1>4. QED
    BY ONLY <1>3, v = [View(t) EXCEPT !.rounds = v.rounds], SamePlaces

(* A task as the service sees it, by what a run may change of it.           *)
Seen(s, n, rs, w) ==
  [status |-> s, node |-> n, contract |-> TRUE, active |-> 1, rounds |-> rs,
   awaiting |-> w, depctx |-> FALSE]

\* The service's changes of a task.
WithRounds(v, rs) == [v EXCEPT !.rounds = rs]
AtNode(v, n) == [v EXCEPT !.node = n]
Asking(v, w) == [v EXCEPT !.node = "human_intervention", !.awaiting = w]
Over(v, s, w) == [v EXCEPT !.status = s, !.node = "completion_judge", !.awaiting = w]

\* The same with its constants as parameters.
SeenWith(yes, no, s, n, rs, w) ==
  [status |-> s, node |-> n, contract |-> yes, active |-> 1, rounds |-> rs,
   awaiting |-> w, depctx |-> no]

LEMMA SeenHasConstants ==
  \E yes, no : \A s, n, rs, w : Seen(s, n, rs, w) = SeenWith(yes, no, s, n, rs, w)
  <1>1. PICK yes, no : yes = TRUE /\ no = FALSE
    OBVIOUS
  <1>2. \A s, n, rs, w : Seen(s, n, rs, w) = SeenWith(yes, no, s, n, rs, w)
    BY <1>1 DEF Seen, SeenWith
  <1>3. QED
    BY <1>2

LEMMA SeenFields ==
  ASSUME NEW s, NEW n, NEW rs, NEW w
  PROVE  /\ Seen(s, n, rs, w).rounds = rs /\ Seen(s, n, rs, w).node = n
         /\ Seen(s, n, rs, w).status = s /\ Seen(s, n, rs, w).awaiting = w
  BY DEF Seen

LEMMA SeenWithRounds ==
  ASSUME NEW s, NEW n, NEW rs, NEW w, NEW x
  PROVE  WithRounds(Seen(s, n, rs, w), x) = Seen(s, n, x, w)
  <1>1. PICK yes, no : \A s1, n1, rs1, w1 : Seen(s1, n1, rs1, w1) = SeenWith(yes, no, s1, n1, rs1, w1)
    BY SeenHasConstants
  <1>2. WithRounds(SeenWith(yes, no, s, n, rs, w), x) = SeenWith(yes, no, s, n, x, w)
    BY ONLY TRUE DEF WithRounds, SeenWith
  <1>3. QED
    BY <1>1, <1>2

LEMMA SeenAtNode ==
  ASSUME NEW s, NEW n, NEW rs, NEW w, NEW x
  PROVE  AtNode(Seen(s, n, rs, w), x) = Seen(s, x, rs, w)
  <1>1. PICK yes, no : \A s1, n1, rs1, w1 : Seen(s1, n1, rs1, w1) = SeenWith(yes, no, s1, n1, rs1, w1)
    BY SeenHasConstants
  <1>2. AtNode(SeenWith(yes, no, s, n, rs, w), x) = SeenWith(yes, no, s, x, rs, w)
    BY ONLY TRUE DEF AtNode, SeenWith
  <1>3. QED
    BY <1>1, <1>2

LEMMA SeenAsking ==
  ASSUME NEW s, NEW n, NEW rs, NEW w, NEW x
  PROVE  Asking(Seen(s, n, rs, w), x) = Seen(s, "human_intervention", rs, x)
  <1>1. PICK yes, no : \A s1, n1, rs1, w1 : Seen(s1, n1, rs1, w1) = SeenWith(yes, no, s1, n1, rs1, w1)
    BY SeenHasConstants
  <1>2. PICK v : v = SeenWith(yes, no, s, n, rs, w)
    OBVIOUS
  <1>3. PICK u : u = [v EXCEPT !.node = "human_intervention"]
    OBVIOUS
  <1>4. u = SeenWith(yes, no, s, "human_intervention", rs, w)
    BY ONLY <1>2, <1>3 DEF SeenWith
  <1>5. Asking(v, x) = [u EXCEPT !.awaiting = x]
    BY ONLY <1>3 DEF Asking
  <1>6. [u EXCEPT !.awaiting = x] = SeenWith(yes, no, s, "human_intervention", rs, x)
    BY ONLY <1>4 DEF SeenWith
  <1>7. QED
    BY <1>1, <1>2, <1>5, <1>6

LEMMA SeenOver ==
  ASSUME NEW s, NEW n, NEW rs, NEW w, NEW x, NEW y
  PROVE  Over(Seen(s, n, rs, w), x, y) = Seen(x, "completion_judge", rs, y)
  <1>1. PICK yes, no : \A s1, n1, rs1, w1 : Seen(s1, n1, rs1, w1) = SeenWith(yes, no, s1, n1, rs1, w1)
    BY SeenHasConstants
  <1>2. PICK v : v = SeenWith(yes, no, s, n, rs, w)
    OBVIOUS
  <1>3. PICK u : u = [v EXCEPT !.status = x]
    OBVIOUS
  <1>4. u = SeenWith(yes, no, x, n, rs, w)
    BY ONLY <1>2, <1>3 DEF SeenWith
  <1>5. PICK u2 : u2 = [u EXCEPT !.node = "completion_judge"]
    OBVIOUS
  <1>6. u2 = SeenWith(yes, no, x, "completion_judge", rs, w)
    BY ONLY <1>4, <1>5 DEF SeenWith
  <1>7. Over(v, x, y) = [u2 EXCEPT !.awaiting = y]
    BY ONLY <1>3, <1>5 DEF Over
  <1>8. [u2 EXCEPT !.awaiting = y] = SeenWith(yes, no, x, "completion_judge", rs, y)
    BY ONLY <1>6 DEF SeenWith
  <1>9. QED
    BY <1>1, <1>2, <1>7, <1>8

LEMMA SeenTask == ASSUME NEW t PROVE View(t) = Seen(t.status, t.node, View(t).rounds, t.awaiting)
  BY DEF View, Seen

LEMMA SeenAlike ==
  ASSUME NEW t, NEW x, NEW v, v = Seen(t.status, t.node, x, t.awaiting)
  PROVE  v.rounds = x /\ v = [View(t) EXCEPT !.rounds = v.rounds]
  <1>1. PICK y : y = View(t).rounds
    OBVIOUS
  <1>2. View(t) = Seen(t.status, t.node, y, t.awaiting)
    BY <1>1, SeenTask
  <1>3. v.rounds = x /\ WithRounds(View(t), x) = v
    BY <1>2, SeenWithRounds, SeenFields
  <1>4. QED
    BY <1>3 DEF WithRounds

(* Rounds that block no success here block none there.                      *)
LEMMA NotBlocking ==
  ASSUME NEW t \in Task, NEW from \in Task, GrownFrom(t, from),
         \A i \in DOMAIN t.rounds : ~Blocking(t.rounds[i].work)
  PROVE  ~Service!HasBlocking(View(from))
  <1>1. SUFFICES ASSUME NEW i \in DOMAIN View(from).rounds, NEW h \in Positions,
                        View(from).rounds[i][h] \in {"running", "failed"}
                 PROVE  FALSE
    BY DEF Service!HasBlocking
  <1>2. /\ i \in DOMAIN from.rounds /\ i \in DOMAIN t.rounds /\ t.rounds[i] = from.rounds[i]
        /\ View(from).rounds[i] = RoundView(t.rounds[i])
    <2>1. i \in 1..Len(from.rounds) /\ View(from).rounds[i] = RoundView(from.rounds[i])
      BY ViewFacts
    <2>2. QED
      BY <2>1, TaskFields DEF GrownFrom
  <1>3. h \in DOMAIN t.rounds[i].work /\ t.rounds[i].work[h].status \in {"running", "failed"}
    BY <1>1, <1>2 DEF RoundView
  <1>4. QED
    BY <1>2, <1>3 DEF Blocking
-----------------------------------------------------------------------------
(* How a run comes to its end. *)

LEMMA RunPrime ==
  ASSUME at' # "idle" => /\ GrownFrom(task', run'.from)
                         /\ run'.from.status = "running" /\ task'.awaiting = run'.from.awaiting
                         /\ run'.claimed => run'.saved = run'.from
  PROVE  RunOK'
  BY DEF RunOK, GrownFrom

LEMMA GrownSame ==
  ASSUME NEW t, NEW from, GrownFrom(t, from), NEW u, u.rounds = t.rounds
  PROVE  GrownFrom(u, from)
  BY DEF GrownFrom

LEMMA GrownMore ==
  ASSUME NEW t \in Task, NEW from \in Task, GrownFrom(t, from), NEW r \in Round,
         \A s \in DOMAIN r.work : r.work[s].kind # "human",
         NEW u, u.rounds = Append(t.rounds, r)
  PROVE  GrownFrom(u, from)
  <1>1. /\ t.rounds \in Seq(Round) /\ Len(t.rounds) \in Nat /\ Len(from.rounds) \in Nat
        /\ DOMAIN t.rounds = 1..Len(t.rounds) /\ DOMAIN from.rounds = 1..Len(from.rounds)
    BY TaskFields
  <1>2. /\ Len(u.rounds) = Len(t.rounds) + 1 /\ DOMAIN u.rounds = 1..Len(t.rounds) + 1
        /\ u.rounds[Len(t.rounds) + 1] = r
        /\ \A i \in 1..Len(t.rounds) : u.rounds[i] = t.rounds[i]
    BY <1>1
  <1>3. ASSUME NEW i \in DOMAIN u.rounds, i > Len(from.rounds)
        PROVE  \A s \in DOMAIN u.rounds[i].work : u.rounds[i].work[s].kind # "human"
    <2>1. CASE i = Len(t.rounds) + 1
      BY <1>2, <2>1
    <2>2. CASE i \in 1..Len(t.rounds)
      BY <1>1, <1>2, <1>3, <2>2 DEF GrownFrom
    <2>3. QED
      BY <1>1, <1>2, <2>1, <2>2
  <1>4. QED
    BY <1>1, <1>2, <1>3 DEF GrownFrom

(* A step inside a run that leaves the rounds and the report alone.         *)
LEMMA RunGoesOn ==
  ASSUME RunOK, at # "idle", UNCHANGED run,
         task'.rounds = task.rounds, task'.awaiting = task.awaiting
  PROVE  RunOK'
  <1>1. GrownFrom(task', run.from)
    BY GrownSame DEF RunOK
  <1>2. QED
    BY <1>1, RunPrime DEF RunOK

LEMMA RunFacts ==
  ASSUME GInv, RunOK, at # "idle"
  PROVE  /\ task \in Task /\ run.from \in Task /\ run.saved \in Task /\ run.claimed \in BOOLEAN
         /\ GrownFrom(task, run.from)
         /\ run.from.status = "running" /\ task.awaiting = run.from.awaiting
         /\ task.status = "running" /\ plan \in Plan
         /\ run.claimed => run.saved = run.from
  BY WorkingFacts DEF RunOK, Runs

(* An end without a round to show.                                          *)
LEMMA NoRoundToShow ==
  ASSUME GInv, RunOK, at # "idle", NEW t \in Task, GrownFrom(t, run.from),
         NEW v, v = Seen(t.status, t.node, View(run.from).rounds, t.awaiting), v \in Promised
  PROVE  AsPromised(t)
  <1>1. run.from \in Task
    BY RunFacts
  <1>2. v.rounds = View(run.from).rounds /\ v = [View(t) EXCEPT !.rounds = v.rounds]
    <2>1. PICK rs : rs = View(run.from).rounds
      OBVIOUS
    <2>2. v = Seen(t.status, t.node, rs, t.awaiting)
      BY <2>1
    <2>3. QED
      BY ONLY <2>1, <2>2, SeenAlike
  <1>3. SameForHumans(View(t), v)
    BY ONLY <1>1, <1>2, t \in Task, GrownFrom(t, run.from), NoRoundMore
  <1>4. QED
    BY <1>3 DEF AsPromised

(* The outcomes the service allows of a run that started with from.         *)
LEMMA Allowed ==
  ASSUME NEW from \in Task, from.status = "running",
         NEW rs, rs = View(from).rounds, NEW w, w = from.awaiting
  PROVE  LET Out == Service!FlowResults("t", View(from)) IN
         /\ Seen("running", "human_intervention", rs, TRUE) \in Out
         /\ ~Service!HasBlocking(View(from)) =>
              Seen("succeeded", "completion_judge", rs, FALSE) \in Out
         /\ Seen("running", "human_intervention", rs, w) \in Out
         /\ Service!Finalize(View(from), "failed", FALSE)
            = Seen("failed", "completion_judge", rs, FALSE)
         /\ \A n \in {"dispatch_decision", "subtask_execution"} :
              Seen("running", n, rs, w) \in Service!RaisedResults("t", View(from))
  <1>1. PICK v : v = View(from)
    OBVIOUS
  <1>2. v = Seen("running", from.node, rs, w)
    BY <1>1, SeenTask
  <1>3. v \in Service!Worked("t", v)
    BY DEF Service!Worked
  <1>4. Service!FlowResults("t", v) = Service!Pauses("t", v) \cup Service!FailedRounds("t", v)
                                      \cup Service!Proposals("t", v) \cup Service!DeadEnds("t", v)
    BY DEF Service!FlowResults, Service!WaitsForHuman
  <1>5. PICK yes, no : yes = TRUE /\ no = FALSE
    OBVIOUS
  <1>6. Service!Finalize(v, "succeeded", TRUE) = Seen("running", "human_intervention", rs, TRUE)
    <2>1. Service!Finalize(v, "succeeded", TRUE) = Asking(v, TRUE)
      BY ONLY TRUE DEF Service!Finalize, Asking
    <2>2. Asking(v, yes) = Seen("running", "human_intervention", rs, yes)
      BY ONLY <1>2, SeenAsking
    <2>3. QED
      BY <1>5, <2>1, <2>2
  <1>7. ASSUME NEW x, NEW y, ~(x = "succeeded" /\ (y \/ Service!HasBlocking(v)))
        PROVE  Service!Finalize(v, x, y) = Seen(x, "completion_judge", rs, no)
    <2>1. Service!Finalize(v, x, y) = Over(v, x, no)
      BY ONLY <1>5, <1>7 DEF Service!Finalize, Over
    <2>2. QED
      BY ONLY <1>2, <2>1, SeenOver
  <1>8. \A gaps \in BOOLEAN : Service!Finalize(v, "succeeded", gaps) \in Service!Proposals("t", v)
    BY <1>3 DEF Service!Proposals
  <1>9. AtNode(v, "human_intervention") \in Service!DeadEnds("t", v)
    BY <1>3 DEF Service!DeadEnds, AtNode
  <1>10. \A n \in {"dispatch_decision", "subtask_execution"} :
           AtNode(v, n) \in Service!RaisedResults("t", v)
    <2>1. Service!RaisedResults("t", v) =
            {AtNode(w1, n1) : w1 \in Service!Worked("t", v),
                              n1 \in {"dispatch_decision", "subtask_execution", "completion_judge"}}
      BY ONLY TRUE DEF Service!RaisedResults, AtNode
    <2>2. QED
      BY ONLY <1>3, <2>1
  <1>11. \A n : AtNode(v, n) = Seen("running", n, rs, w)
    BY ONLY <1>2, SeenAtNode
  <1>12. /\ Service!Finalize(v, "failed", FALSE) = Seen("failed", "completion_judge", rs, no)
         /\ ~Service!HasBlocking(v) => Service!Finalize(v, "succeeded", FALSE)
                                       = Seen("succeeded", "completion_judge", rs, no)
    BY <1>7
  <1>13. /\ Seen("running", "human_intervention", rs, TRUE) \in Service!FlowResults("t", v)
         /\ Seen("running", "human_intervention", rs, w) \in Service!FlowResults("t", v)
         /\ ~Service!HasBlocking(v) =>
              Seen("succeeded", "completion_judge", rs, no) \in Service!FlowResults("t", v)
    BY <1>4, <1>6, <1>8, <1>9, <1>11, <1>12
  <1>14. \A n \in {"dispatch_decision", "subtask_execution"} :
           Seen("running", n, rs, w) \in Service!RaisedResults("t", v)
    BY <1>10, <1>11
  <1>15. QED
    BY <1>1, <1>5, <1>12, <1>13, <1>14

LEMMA PromisedResults ==
  ASSUME NEW from, from = View(run.from)
  PROVE  /\ Service!FlowResults("t", from) \subseteq Promised
         /\ run.claimed => Service!Finalize(from, "failed", FALSE) \in Promised
         /\ ~run.claimed /\ Durable => View(run.saved) \in Promised
         /\ ~run.claimed /\ ~Durable => Service!RaisedResults("t", from) \subseteq Promised
  BY DEF Promised

LEMMA RaiseEnds ==
  ASSUME GInv, RunOK, at # "idle", NEW t \in Task, t.rounds = task.rounds,
         t.status = "running", t.awaiting = task.awaiting,
         t.node \in {"dispatch_decision", "subtask_execution"}, Raise(t)
  PROVE  AsPromised(task')
  <1>1. /\ run.from \in Task /\ run.saved \in Task /\ GrownFrom(task, run.from)
        /\ run.from.status = "running" /\ task.awaiting = run.from.awaiting
        /\ run.claimed => run.saved = run.from
    BY RunFacts
  <1>2. PICK rs, w : rs = View(run.from).rounds /\ w = run.from.awaiting
    OBVIOUS
  <1>3. CASE run.claimed
    <2>1. task' = Finalize(run.from, "failed", FALSE)
      BY <1>1, <1>3 DEF Raise
    <2>2. /\ task' \in Task /\ task'.rounds = run.from.rounds /\ task'.status = "failed"
          /\ task'.node = "completion_judge"
      <3>1. run.from \in Task
        BY <1>1
      <3>2. PICK x, c, g : /\ x = run.from /\ c = "failed" /\ g = FALSE
                             /\ x \in Task /\ c \in {"succeeded", "failed"}
        BY <3>1
      <3>3. PICK f : f = Finalize(x, c, g)
        OBVIOUS
      <3>4. /\ f \in Task /\ f.rounds = x.rounds
            /\ f.status = c /\ f.node = "completion_judge"
        BY ONLY <3>2, <3>3, FinalizeFacts
      <3>5. f = task'
        BY <2>1, <3>2, <3>3
      <3>6. QED
        BY <3>2, <3>4, <3>5
    <2>3. task'.awaiting = FALSE
      BY <1>1, <2>1 DEF Finalize, Task
    <2>4. GrownFrom(task', run.from)
      BY <1>1, <2>2, TaskFields DEF GrownFrom
    <2>5. Seen("failed", "completion_judge", rs, FALSE) \in Promised
      BY <1>1, <1>2, <1>3, Allowed, PromisedResults
    <2>6. QED
      BY <1>2, <2>2, <2>3, <2>4, <2>5, NoRoundToShow
  <1>4. CASE ~run.claimed /\ Durable
    <2>1. task' = run.saved
      BY <1>4 DEF Raise
    <2>2. View(task') \in Promised
      BY <1>4, <2>1, PromisedResults
    <2>3. View(task') = [View(task') EXCEPT !.rounds = View(task').rounds]
      <3>1. PICK u, x : u = View(task') /\ x = View(task').rounds
        OBVIOUS
      <3>2. u = Seen(task'.status, task'.node, x, task'.awaiting)
        BY <3>1, SeenTask
      <3>3. u.rounds = x /\ u = [View(task') EXCEPT !.rounds = u.rounds]
        BY ONLY <3>2, SeenAlike
      <3>4. QED
        BY <3>1, <3>3
    <2>4. SameForHumans(View(task'), View(task'))
      BY <2>3, SamePlaces
    <2>5. QED
      BY <2>2, <2>4 DEF AsPromised
  <1>5. CASE ~run.claimed /\ ~Durable
    <2>1. task' = t
      BY <1>5 DEF Raise
    <2>2. GrownFrom(task', run.from)
      BY <1>1, <2>1, GrownSame
    <2>3. Seen("running", t.node, rs, w) \in Promised
      BY <1>1, <1>2, <1>5, Allowed, PromisedResults
    <2>4. QED
      BY <1>1, <1>2, <2>1, <2>2, <2>3, NoRoundToShow
  <1>6. QED
    BY <1>3, <1>4, <1>5

LEMMA PlannerRaisesEnds == ASSUME GInv, RunOK, PlannerRaises PROVE AsPromised(task')
  <1> DEFINE t == [task EXCEPT !.node = "dispatch_decision"]
  <1>1. at # "idle" /\ Raise(t)
    BY DEF PlannerRaises
  <1>2. t \in Task /\ t.rounds = task.rounds /\ t.status = "running"
        /\ t.awaiting = task.awaiting /\ t.node = "dispatch_decision"
    BY <1>1, WorkingFacts DEF Task
  <1> HIDE DEF t
  <1>3. QED
    BY <1>1, <1>2, RaiseEnds

LEMMA AgentRaisesEnds == ASSUME GInv, RunOK, AgentRaises PROVE AsPromised(task')
  <1>1. at = "agents" /\ Raise(task)
    BY DEF AgentRaises
  <1>2. task \in Task /\ task.status = "running" /\ task.node = "subtask_execution"
    BY <1>1, WorkingFacts DEF WorkedOK
  <1>3. QED
    BY <1>1, <1>2, RaiseEnds

LEMMA HumanInterventionEnds == ASSUME GInv, RunOK, HumanIntervention PROVE AsPromised(task')
  <1>1. at = "human_intervention" /\ task' = [task EXCEPT !.node = "human_intervention"]
    BY DEF HumanIntervention, Ends
  <1>2. /\ run.from \in Task /\ GrownFrom(task, run.from) /\ run.from.status = "running"
        /\ task.awaiting = run.from.awaiting
    BY <1>1, RunFacts
  <1>3. /\ task' \in Task /\ task'.rounds = task.rounds /\ task'.status = "running"
        /\ task'.node = "human_intervention" /\ task'.awaiting = task.awaiting
    BY <1>1, WorkingFacts DEF Task
  <1>4. GrownFrom(task', run.from)
    BY <1>2, <1>3, GrownSame
  <1>5. PICK rs, w : rs = View(run.from).rounds /\ w = run.from.awaiting
    OBVIOUS
  <1>6. Seen("running", "human_intervention", rs, w) \in Promised
    BY <1>2, <1>5, Allowed, PromisedResults
  <1>7. QED
    BY <1>1, <1>2, <1>3, <1>4, <1>5, <1>6, NoRoundToShow

(* The end of the graph: the service sees no success that it would refuse.  *)
LEMMA CompletionJudgeEnds ==
  ASSUME GInv, RunOK, CompletionJudge
  PROVE  RunOK' /\ (at' = "idle" => AsPromised(task'))
  <1> DEFINE t == [task EXCEPT !.node = "completion_judge"]
  <1>1. at = "completion_judge"
    BY DEF CompletionJudge
  <1>2. /\ run.from \in Task /\ GrownFrom(task, run.from) /\ run.from.status = "running"
        /\ task.awaiting = run.from.awaiting
    BY <1>1, RunFacts
  <1>3. /\ t \in Task /\ t.rounds = task.rounds /\ t.status = "running"
        /\ t.awaiting = task.awaiting
    BY <1>1, WorkingFacts DEF Task
  <1>4. \/ task' = t /\ at' # "idle" /\ UNCHANGED run
        \/ at' = "idle" /\ \E gaps \in BOOLEAN : task' = Finalize(t, "succeeded", gaps)
    BY DEF CompletionJudge, Ends
  <1> HIDE DEF t
  <1>5. CASE task' = t /\ at' # "idle" /\ UNCHANGED run
    BY <1>1, <1>3, <1>5, RunGoesOn
  <1>6. CASE at' = "idle" /\ \E gaps \in BOOLEAN : task' = Finalize(t, "succeeded", gaps)
    <2>1. PICK gaps \in BOOLEAN : task' = Finalize(t, "succeeded", gaps)
      BY <1>6
    <2>2. /\ task' \in Task /\ task'.rounds = t.rounds
      BY <1>3, <2>1, FinalizeFacts
    <2>3. GrownFrom(t, run.from) /\ GrownFrom(task', run.from)
      BY <1>2, <1>3, <2>2, GrownSame
    <2>4. PICK rs, w : rs = View(run.from).rounds /\ w = run.from.awaiting
      OBVIOUS
    <2>5. CASE gaps \/ \E i \in DOMAIN t.rounds : Blocking(t.rounds[i].work)
      <3>1. task' = [t EXCEPT !.node = "human_intervention", !.awaiting = TRUE]
        BY <2>1, <2>5 DEF Finalize
      <3>2. task'.status = "running" /\ task'.node = "human_intervention" /\ task'.awaiting = TRUE
        BY <1>3, <3>1 DEF Task
      <3>3. Seen("running", "human_intervention", rs, TRUE) \in Promised
        BY <1>2, <2>4, Allowed, PromisedResults
      <3>4. AsPromised(task')
        BY <1>1, <2>2, <2>3, <2>4, <3>2, <3>3, NoRoundToShow
      <3>5. QED
        BY <1>6, <3>4, RunPrime
    <2>6. CASE ~(gaps \/ \E i \in DOMAIN t.rounds : Blocking(t.rounds[i].work))
      <3>1. task' = [t EXCEPT !.status = "succeeded", !.node = "completion_judge", !.awaiting = FALSE]
        BY <2>1, <2>6 DEF Finalize
      <3>2. /\ task'.status = "succeeded" /\ task'.node = "completion_judge"
            /\ task'.awaiting = FALSE
        BY <1>3, <3>1 DEF Task
      <3>3. ~Service!HasBlocking(View(run.from))
        BY <1>2, <1>3, <2>3, <2>6, NotBlocking
      <3>4. Seen("succeeded", "completion_judge", rs, FALSE) \in Promised
        BY <1>2, <2>4, <3>3, Allowed, PromisedResults
      <3>5. AsPromised(task')
        BY <1>1, <2>2, <2>3, <2>4, <3>2, <3>4, NoRoundToShow
      <3>6. QED
        BY <1>6, <3>5, RunPrime
    <2>7. QED
      BY <2>5, <2>6
  <1>7. QED
    BY <1>4, <1>5, <1>6

(* A round that waits or failed is one the service expects.                 *)
LEMMA Rounds ==
  ASSUME NEW from \in Task, from.status = "running", Len(from.rounds) < MaxLoop,
         NEW H \in SUBSET Positions, NEW w, w = from.awaiting,
         NEW rs, rs = Service!AddRound(View(from), H).rounds
  PROVE  LET Out == Service!FlowResults("t", View(from)) IN
         /\ Seen("failed", "completion_judge", rs, FALSE) \in Out
         /\ H # {} => Seen("running", "human_execution", rs, w) \in Out
  <1>1. PICK v, a, yes, no : v = View(from) /\ a = Service!AddRound(v, H) /\ yes = TRUE /\ no = FALSE
    OBVIOUS
  <1>2. PICK xs : xs = View(from).rounds
    OBVIOUS
  <1>3. v = Seen("running", from.node, xs, w)
    BY <1>1, <1>2, SeenTask
  <1>4. a = Seen("running", from.node, rs, w)
    <2>1. a = WithRounds(v, rs)
      <3>1. a = [View(from) EXCEPT !.rounds = a.rounds]
        BY <1>1, AddedRound
      <3>2. QED
        BY <1>1, <3>1 DEF WithRounds
    <2>2. QED
      BY ONLY <1>3, <2>1, SeenWithRounds
  <1>5. Service!CanGrow("t", v)
    BY <1>1, ViewFacts DEF Service!CanGrow
  <1>6. Service!Finalize(a, "failed", FALSE) \in Service!FailedRounds("t", v)
    BY <1>1, <1>5 DEF Service!FailedRounds
  <1>7. Service!Finalize(a, "failed", FALSE) = Seen("failed", "completion_judge", rs, no)
    <2>1. PICK f : f = "failed"
      OBVIOUS
    <2>2. Service!Finalize(a, "failed", FALSE) = Over(a, f, no)
      BY ONLY <1>1, <2>1 DEF Service!Finalize, Over
    <2>3. Over(a, f, no) = Seen(f, "completion_judge", rs, no)
      BY ONLY <1>4, SeenOver
    <2>4. QED
      BY <2>1, <2>2, <2>3
  <1>8. H # {} => AtNode(a, "human_execution") \in Service!Pauses("t", v)
    <2>1. Service!Pauses("t", v) = {AtNode(Service!AddRound(v, G), "human_execution") :
                                 G \in {F \in SUBSET Positions : F # {} /\ Service!CanGrow("t", v)}}
      BY ONLY TRUE DEF Service!Pauses, AtNode
    <2>2. QED
      BY <1>1, <1>5, <2>1
  <1>9. AtNode(a, "human_execution") = Seen("running", "human_execution", rs, w)
    BY ONLY <1>4, SeenAtNode
  <1>10. Service!FlowResults("t", v) = Service!Pauses("t", v) \cup Service!FailedRounds("t", v)
                                       \cup Service!Proposals("t", v) \cup Service!DeadEnds("t", v)
    BY DEF Service!FlowResults, Service!WaitsForHuman
  <1>11. QED
    BY <1>1, <1>6, <1>7, <1>8, <1>9, <1>10

(* The humans of the round stay open until they answer.                     *)
LEMMA AppliedHumans ==
  ASSUME GInv, at = "agents", \A s \in Agents : Finished(s)
  PROVE  /\ Applied \in Works /\ Humans(Applied) \in SUBSET Positions
         /\ \A s \in Humans(Applied) : Applied[s].status = "running"
         /\ Open(Applied) <=> Humans(Applied) # {}
  <1>1. Applied \in Works /\ DOMAIN Applied = DOMAIN plan.work
    BY AppliedHonest
  <1>2. \A s \in DOMAIN plan.work :
          /\ Applied[s].kind = IF s \in Agents THEN "agent" ELSE "human"
          /\ Applied[s].status = IF s \in Agents THEN agent[s].pc ELSE "running"
    BY DEF Applied
  <1>3. \A s \in DOMAIN plan.work : s \in Agents <=> plan.work[s] # "human"
    BY DEF Agents
  <1>4. \A s \in Agents : agent[s].pc # "running"
    BY DEF Finished
  <1>5. Humans(Applied) \in SUBSET Positions
    BY <1>1, WorkDomain DEF Humans
  <1>6. QED
    BY <1>1, <1>2, <1>3, <1>4, <1>5 DEF Humans, Open

LEMMA CollectEnds ==
  ASSUME GInv, RunOK, Collect
  PROVE  RunOK' /\ (at' = "idle" => AsPromised(task'))
  <1> DEFINE w == Applied
             r == NewRound(task, w)
             t == AppendPendingRound(task, w)
  <1>1. at = "agents" /\ Counting(task) /\ \A s \in Agents : Finished(s)
    BY WorkingFacts DEF Collect, WorkedOK
  <1>2. /\ run.from \in Task /\ GrownFrom(task, run.from) /\ run.from.status = "running"
        /\ task.awaiting = run.from.awaiting
        /\ task \in Task /\ RoundsOK(task) /\ task.status = "running"
    BY <1>1, RunFacts, WorkingFacts
  <1>3. /\ w \in Works /\ Humans(w) \in SUBSET Positions
        /\ \A s \in Humans(w) : w[s].status = "running"
        /\ Open(w) <=> Humans(w) # {}
        /\ Honest(w)
    BY <1>1, AppliedHumans, AppliedHonest
  <1>4. \/ task' = Finalize(t, "failed", FALSE) /\ at' = "idle"
        \/ Open(w) /\ task' = [t EXCEPT !.node = "human_execution"] /\ at' = "idle"
        \/ /\ ~Open(w) /\ at' = "completion_judge" /\ UNCHANGED run
           /\ task' = [task EXCEPT !.node = "context_update", !.rounds = Append(@, r),
                                   !.summary = @ \cup Done(r)]
    BY DEF Collect, Ends
  <1> HIDE DEF w
  <1>5. t = [task EXCEPT !.rounds = Append(@, r)]
    <2>1. \A i \in DOMAIN task.rounds : task.rounds[i].index # task.loop
      BY <1>1, <1>2, TaskFields, RoundFields DEF Counting, Below
    <2>2. QED
      BY <2>1 DEF AppendPendingRound
  <1> HIDE DEF t
  <1>6. r \in Round /\ r.work = w /\ Len(task.rounds) + 1 <= task.loop
    <2>1. PICK u, x : u = [rounds |-> Append(task.rounds, x)] /\ x = NewRound(task, w)
      OBVIOUS
    <2>2. u.rounds = Append(task.rounds, NewRound(task, w))
      BY <2>1
    <2>3. NewRound(task, w) \in Round /\ Len(u.rounds) = Len(task.rounds) + 1 /\ Len(u.rounds) <= task.loop
      <3>1. task \in Task /\ RoundsOK(task) /\ Counting(task) /\ w \in Works /\ Honest(w)
        BY <1>1, <1>2, <1>3
      <3>2. QED
        BY ONLY <2>2, <3>1, AppendRound
    <2>4. QED
      BY <2>3 DEF NewRound
  <1> HIDE DEF r
  <1>7. /\ t \in Task /\ t.rounds = Append(task.rounds, r) /\ t.status = "running"
        /\ t.awaiting = task.awaiting
    <2> DEFINE rs == Append(task.rounds, r)
    <2>1. rs \in Seq(Round)
      BY <1>2, <1>6, TaskFields
    <2>2. t = [task EXCEPT !.rounds = rs]
      BY <1>5
    <2> HIDE DEF rs
    <2>3. t \in Task /\ t.rounds = rs /\ t.status = "running" /\ t.awaiting = task.awaiting
      BY <1>2, <2>1, <2>2 DEF Task
    <2>4. QED
      BY <2>3 DEF rs
  <1>8. Len(run.from.rounds) < MaxLoop
    BY <1>1, <1>2, <1>6, TaskFields, MaxLoopAssumption DEF Counting, GrownFrom
  <1>9. PICK a, rs, wait : /\ a = Service!AddRound(View(run.from), Humans(w))
                           /\ rs = a.rounds /\ wait = run.from.awaiting
    OBVIOUS
  <1>10. /\ Seen("failed", "completion_judge", rs, FALSE) \in Promised
         /\ Open(w) => Seen("running", "human_execution", rs, wait) \in Promised
    <2>1. PICK f, H : f = run.from /\ H = Humans(w)
      OBVIOUS
    <2>2. /\ f \in Task /\ f.status = "running" /\ Len(f.rounds) < MaxLoop
          /\ H \in SUBSET Positions /\ wait = f.awaiting
          /\ rs = Service!AddRound(View(f), H).rounds
      BY <1>2, <1>3, <1>8, <1>9, <2>1
    <2>3. /\ Seen("failed", "completion_judge", rs, FALSE) \in Service!FlowResults("t", View(f))
          /\ H # {} => Seen("running", "human_execution", rs, wait) \in Service!FlowResults("t", View(f))
      BY ONLY <2>2, Rounds
    <2>4. QED
      BY <1>3, <2>1, <2>3, PromisedResults
  <1>11. ASSUME NEW u \in Task, u.rounds = t.rounds,
                NEW v, v = Seen(u.status, u.node, rs, u.awaiting), v \in Promised
         PROVE  AsPromised(u)
    <2>1. v.rounds = rs /\ v = [View(u) EXCEPT !.rounds = v.rounds]
      <3>1. v = Seen(u.status, u.node, rs, u.awaiting)
        BY <1>11
      <3>2. QED
        BY ONLY <3>1, SeenAlike
    <2>2. PICK f : f = run.from
      OBVIOUS
    <2>3. /\ f \in Task /\ GrownFrom(task, f) /\ a = Service!AddRound(View(f), Humans(w))
          /\ v.rounds = a.rounds /\ u.rounds = Append(task.rounds, r)
      BY <1>2, <1>7, <1>9, <1>11, <2>1, <2>2
    <2>4. SameForHumans(View(u), v)
      BY ONLY <1>2, <1>3, <1>6, <1>11, <2>1, <2>3, LastRound
    <2>5. QED
      BY <1>11, <2>4 DEF AsPromised
  <1>12. CASE task' = Finalize(t, "failed", FALSE) /\ at' = "idle"
    <2>1. task' = [t EXCEPT !.status = "failed", !.node = "completion_judge", !.awaiting = FALSE]
      BY <1>12 DEF Finalize
    <2>2. /\ task' \in Task /\ task'.rounds = t.rounds /\ task'.status = "failed"
          /\ task'.node = "completion_judge" /\ task'.awaiting = FALSE
      BY <1>7, <2>1 DEF Task
    <2>3. AsPromised(task')
      BY <1>10, <1>11, <2>2
    <2>4. QED
      BY <1>12, <2>3, RunPrime
  <1>13. CASE Open(w) /\ task' = [t EXCEPT !.node = "human_execution"] /\ at' = "idle"
    <2>1. /\ task' \in Task /\ task'.rounds = t.rounds /\ task'.status = "running"
          /\ task'.node = "human_execution" /\ task'.awaiting = wait
      BY <1>2, <1>7, <1>9, <1>13 DEF Task
    <2>2. AsPromised(task')
      BY <1>10, <1>11, <1>13, <2>1
    <2>3. QED
      BY <1>13, <2>2, RunPrime
  <1>14. CASE /\ ~Open(w) /\ at' = "completion_judge" /\ UNCHANGED run
              /\ task' = [task EXCEPT !.node = "context_update", !.rounds = Append(@, r),
                                      !.summary = @ \cup Done(r)]
    <2> DEFINE rs1 == Append(task.rounds, r)
               out == task.summary \cup Done(r)
    <2>1. task' = [task EXCEPT !.node = "context_update", !.rounds = rs1, !.summary = out]
      BY <1>14
    <2> HIDE DEF rs1, out
    <2>2. task'.rounds = rs1 /\ task'.awaiting = task.awaiting
      BY <1>2, <2>1 DEF Task
    <2>3. \A s \in DOMAIN r.work : r.work[s].kind # "human"
      BY <1>3, <1>6, <1>14 DEF Humans
    <2>4. GrownFrom(task', run.from)
      BY <1>2, <1>6, <2>2, <2>3, GrownMore DEF rs1
    <2>5. /\ GrownFrom(task', run'.from)
          /\ run'.from.status = "running" /\ task'.awaiting = run'.from.awaiting
          /\ run'.claimed => run'.saved = run'.from
      BY <1>1, <1>2, <1>14, <2>2, <2>4, RunFacts
    <2>6. QED
      BY <1>14, <2>5, RunPrime
  <1>15. QED
    BY <1>4, <1>12, <1>13, <1>14

LEMMA RoundDispatchRun == ASSUME GInv, RunOK, RoundDispatch PROVE RunOK' /\ at' # "idle"
  <1> DEFINE t == [task EXCEPT !.node = "dispatch_decision"]
  <1>1. at = "round_dispatch" /\ task \in Task
    BY WorkingFacts DEF RoundDispatch
  <1>2. t \in Task /\ t.rounds = task.rounds /\ t.awaiting = task.awaiting
    BY <1>1 DEF Task
  <1> HIDE DEF t
  <1>3. PICK p : task' = CountRound(t, p) /\ at' = RouteAfterPlan(task', p) /\ UNCHANGED run
    BY DEF RoundDispatch, t
  <1>4. task' = [t EXCEPT !.loop = t.loop + 1] \/ task' = t
    BY <1>3 DEF CountRound
  <1>5. task'.rounds = task.rounds /\ task'.awaiting = task.awaiting
    BY <1>2, <1>4 DEF Task
  <1>6. at' # "idle"
    BY <1>3 DEF RouteAfterPlan
  <1>7. QED
    BY <1>1, <1>3, <1>5, <1>6, RunGoesOn

LEMMA DistributeRun == ASSUME GInv, RunOK, Distribute PROVE RunOK' /\ at' # "idle"
  <1>1. /\ at = "subtask_execution" /\ at' = "agents" /\ UNCHANGED run /\ task \in Task
        /\ task' = [task EXCEPT !.node = "subtask_execution"]
    BY WorkingFacts DEF Distribute
  <1>2. task'.rounds = task.rounds /\ task'.awaiting = task.awaiting
    BY <1>1 DEF Task
  <1>3. QED
    BY <1>1, <1>2, RunGoesOn

LEMMA AgentStepRun ==
  ASSUME GInv, RunOK, NEW s \in Positions, AgentStep(s) PROVE RunOK' /\ at' # "idle"
  BY RunGoesOn DEF AgentStep

(* A run begins with what is then its task.                                 *)
LEMMA RunBegins ==
  ASSUME task'.status = "running", run'.from = task', run'.claimed => run'.saved = task'
  PROVE  RunOK'
  <1>1. GrownFrom(task', run'.from)
    BY DEF GrownFrom
  <1>2. QED
    BY <1>1, RunPrime

LEMMA RequestRun == ASSUME GInv, Request PROVE RunOK' /\ at = "idle"
  <1>1. ASSUME NEW t, at = "idle", Stores(t) PROVE RunOK'
    BY <1>1, RunPrime DEF Stores
  <1>2. ASSUME NEW t \in Task, t.status = "running", RunsInline(t) PROVE RunOK'
    <2>1. task' = [t EXCEPT !.started = TRUE] /\ run'.from = task' /\ run'.claimed = FALSE
      BY <1>2 DEF RunsInline
    <2>2. task'.status = "running"
      BY <1>2, <2>1 DEF Task
    <2>3. QED
      BY <2>1, <2>2, RunBegins
  <1>3. CASE Claim
    <2>1. /\ task' = [task EXCEPT !.node = "dispatch_decision", !.started = TRUE]
          /\ task.status = "running" /\ at = "idle" /\ task \in Task
          /\ run'.from = task' /\ run'.saved = task'
      BY <1>3 DEF Claim, GInv, TypeOK
    <2>2. task'.status = "running"
      BY <2>1 DEF Task
    <2>3. QED
      BY <2>1, <2>2, RunBegins
  <1>4. ASSUME NEW i \in DOMAIN task.rounds, NEW s \in DOMAIN task.rounds[i].work, HumanResult(i, s)
        PROVE  RunOK' /\ at = "idle"
    <2> DEFINE p == Posted(task, i, s, "succeeded")
               m == MergeCompletedRound(p, i)
    <2>1. /\ at = "idle" /\ task.status = "running"
          /\ (\E t : Stores(t)) \/ RunsInline(m)
      BY <1>4 DEF HumanResult, Posted
    <2>2. task \in Task /\ StoredOK(task)
      BY <2>1, IdleFacts
    <2>3. m \in Task /\ m.status = "running"
      BY <1>4, <2>1, <2>2, MergedFacts
    <2> HIDE DEF m
    <2>4. QED
      BY <1>1, <1>2, <2>1, <2>3
  <1>5. CASE SubmitResult
    BY <1>1, <1>2, <1>5 DEF SubmitResult, GInv, TypeOK
  <1>6. QED
    BY <1>3, <1>4, <1>5 DEF Request, Claim

(* What a run has of its beginning, and what it ends with.                  *)
LEMMA RunStep ==
  ASSUME GInv, RunOK, [Next]_vars
  PROVE  RunOK' /\ (at # "idle" /\ at' = "idle" => AsPromised(task'))
  <1>1. CASE Request
    BY <1>1, RequestRun
  <1>2. ASSUME at' = "idle" PROVE RunOK'
    BY <1>2 DEF RunOK
  <1>3. CASE GraphStep
    <2>1. PlannerRaises \/ AgentRaises \/ HumanIntervention => at' = "idle"
      BY DEF PlannerRaises, AgentRaises, HumanIntervention, Raise, Ends
    <2>2. QED
      BY <1>2, <1>3, <2>1, RoundDispatchRun, PlannerRaisesEnds, DistributeRun, AgentRaisesEnds,
         CollectEnds, CompletionJudgeEnds, HumanInterventionEnds DEF GraphStep
  <1>4. CASE \E s \in Positions : AgentStep(s)
    BY <1>4, AgentStepRun
  <1>5. CASE UNCHANGED vars
    BY <1>5, RunGoesOn DEF vars, RunOK
  <1>6. QED
    BY <1>1, <1>3, <1>4, <1>5 DEF Next

(* What a run gives the service is what the service's model of the flow     *)
(* allows, for every plan, every agent and every tool.                      *)
THEOREM FlowKeepsPromise == Spec => FlowAsPromised
  <1>1. Init => RunOK
    BY DEF Init, RunOK
  <1>2. GInv /\ RunOK /\ [Next]_vars => RunOK'
    BY RunStep
  <1>3. GInv /\ RunOK /\ [Next]_vars =>
          [at # "idle" /\ at' = "idle" => \E v \in Promised : SameForHumans(View(task'), v)]_vars
    BY RunStep DEF AsPromised
  <1>4. QED
    BY <1>1, <1>2, <1>3, GraphInvariance, PTL DEF Spec, FlowAsPromised
-----------------------------------------------------------------------------
(* How far the run is from its end, in nodes: every round takes up to five, *)
(* and the counter goes up before the round is run.                         *)
Place ==
  CASE at = "subtask_execution" -> 5
    [] at = "agents" -> 4
    [] at = "completion_judge" /\ plan.continue /\ plan.work # <<>> -> 3
    [] at = "round_dispatch" -> 2
    [] OTHER -> 1

NodesAhead == IF at = "idle" THEN 0 ELSE 6 * (MaxLoop - task.loop) + Place

(* How far an agent is from its outcome: the tools are used once, and the   *)
(* model is asked MaxRetries + 1 times at most before them and after them.  *)
CallsAhead(a) ==
  CASE a.pc = "queued" -> 2 * MaxRetries + 4
    [] a.pc = "asking" -> a.left + MaxRetries + 3
    [] a.pc = "tools" -> MaxRetries + 2
    [] a.pc = "telling" -> a.left + 1
    [] OTHER -> 0

(* Every step of a run brings it nearer to its end.                         *)
ComesNearer ==
  \/ NodesAhead' < NodesAhead
  \/ /\ NodesAhead' = NodesAhead
     /\ \E s \in Agents :
          /\ CallsAhead(agent'[s]) < CallsAhead(agent[s])
          /\ \A r \in Positions \ {s} : agent'[r] = agent[r]

RunsWindDown == [][at # "idle" => ComesNearer]_vars

(* Some agent can go on, has raised with nobody before or beside it, or all *)
(* are done and the round is collected.                                     *)
AgentsGoOn ==
  at = "agents" =>
    \/ \A s \in Agents : Finished(s)
    \/ InFlight # {}
    \/ \E s \in Agents : agent[s].pc = "queued" /\ MayStart(s)
    \/ \E s \in Agents : agent[s].pc = "raised" /\ \A r \in Agents : r < s => Finished(r)

(* A set of natural numbers that is not empty has a least one.              *)
LEMMA LeastOf ==
  ASSUME NEW S \in SUBSET Nat, S # {}
  PROVE  \E n \in S : \A m \in S : n <= m
  <1> DEFINE R == {ss \in Nat \X Nat : ss[1] < ss[2]}
  <1>1. IsWellFoundedOn(R, Nat)
    BY NatLessThanWellFounded, Zenon DEF OpToRel
  <1> HIDE DEF R
  <1>2. PICK n \in S : \A m \in S : ~(<<m, n>> \in R)
    BY <1>1, WFMin, Zenon
  <1>3. ASSUME NEW m \in S PROVE n <= m
    <2>1. <<m, n>> \in Nat \X Nat /\ <<m, n>>[1] = m /\ <<m, n>>[2] = n
      OBVIOUS
    <2>2. m < n => <<m, n>> \in R
      BY <2>1 DEF R
    <2>3. QED
      BY <1>2, <2>2
  <1>4. QED
    BY <1>3

LEMMA CallsFacts ==
  ASSUME NEW a \in Thread
  PROVE  /\ CallsAhead(a) \in Nat /\ a.left \in 0..MaxRetries /\ MaxRetries \in Nat
         /\ a.pc = "queued" => CallsAhead(a) = 2 * MaxRetries + 4
         /\ a.pc = "asking" => CallsAhead(a) = a.left + MaxRetries + 3
         /\ a.pc = "tools" => CallsAhead(a) = MaxRetries + 2
         /\ a.pc = "telling" => CallsAhead(a) = a.left + 1
         /\ a.pc \in {"succeeded", "failed", "raised"} => CallsAhead(a) = 0
  <1>1. a.left \in 0..MaxRetries /\ MaxRetries \in Nat
    BY BoundsAssumption DEF Thread
  <1>2. QED
    BY <1>1 DEF CallsAhead

(* What a step of an agent makes of its thread.                             *)
Advances(s, b) ==
  /\ agent' = [agent EXCEPT ![s] = b]
  /\ b \in Thread /\ b.pc # "off"
  /\ CallsAhead(b) < CallsAhead(agent[s])

LEMMA StartAgentAdvances ==
  ASSUME GInv, NEW s \in Positions, StartAgent(s)
  PROVE  \E b : Advances(s, b)
  <1> DEFINE a == agent[s]
  <1>1. a \in Thread /\ a.pc = "queued"
    BY DEF GInv, TypeOK, StartAgent
  <1>2. PICK pc \in {"asking", "succeeded", "raised"} : AgentGoes(s, [a EXCEPT !.pc = pc])
    BY DEF StartAgent
  <1> DEFINE b == [a EXCEPT !.pc = pc]
  <1>3. b \in Thread /\ b.pc = pc /\ b.left = a.left
    BY <1>1 DEF Thread
  <1>4. agent' = [agent EXCEPT ![s] = b]
    BY <1>2 DEF AgentGoes
  <1> HIDE DEF a, b
  <1>5. CallsAhead(b) < CallsAhead(a)
    BY <1>1, <1>3, CallsFacts
  <1>6. Advances(s, b)
    BY <1>3, <1>4, <1>5 DEF Advances, a
  <1>7. QED
    BY <1>6

LEMMA ModelCallAdvances ==
  ASSUME GInv, NEW s \in Positions, ModelCall(s)
  PROVE  \E b : Advances(s, b)
  <1> DEFINE a == agent[s]
  <1>1. a \in Thread /\ a.pc \in {"asking", "telling"} /\ a.left \in 0..MaxRetries
    BY DEF GInv, TypeOK, ModelCall, Thread
  <1>2. SUFFICES ASSUME NEW b, agent' = [agent EXCEPT ![s] = b], b \in Thread,
                        \/ b.pc \in {"succeeded", "failed"}
                        \/ b.pc = "tools" /\ a.pc = "asking"
                        \/ b.pc = a.pc /\ b.left < a.left
                 PROVE  Advances(s, b)
    <2>1. CASE \E calls, output \in BOOLEAN :
                 LET pc == AfterReply(a, calls, output) IN
                 AgentGoes(s, [a EXCEPT !.pc = pc, !.left = IF pc = "tools" THEN MaxRetries ELSE 0])
      <3>1. PICK pc \in {"tools", "succeeded", "failed"} :
              /\ AgentGoes(s, [a EXCEPT !.pc = pc, !.left = IF pc = "tools" THEN MaxRetries ELSE 0])
              /\ pc = "tools" => a.pc = "asking"
        BY <2>1 DEF AfterReply
      <3> DEFINE left == IF pc = "tools" THEN MaxRetries ELSE 0
                 b == [a EXCEPT !.pc = pc, !.left = left]
      <3>2. left \in 0..MaxRetries
        BY <1>1, BoundsAssumption
      <3>3. agent' = [agent EXCEPT ![s] = b]
        BY <3>1 DEF AgentGoes
      <3> HIDE DEF left
      <3>4. b \in Thread /\ b.pc = pc
        BY <1>1, <3>2 DEF Thread
      <3>5. QED
        BY <1>2, <3>1, <3>3, <3>4
    <2>2. CASE a.left > 0 /\ AgentGoes(s, [a EXCEPT !.left = @ - 1])
      <3> DEFINE left == a.left - 1
                 b == [a EXCEPT !.left = left]
      <3>1. left \in 0..MaxRetries /\ left < a.left
        BY <1>1, <2>2, BoundsAssumption
      <3>2. agent' = [agent EXCEPT ![s] = b]
        BY <2>2 DEF AgentGoes
      <3> HIDE DEF left
      <3>3. b \in Thread /\ b.pc = a.pc /\ b.left = left
        BY <1>1, <3>1 DEF Thread
      <3>4. QED
        BY <1>2, <3>1, <3>2, <3>3
    <2>3. CASE AgentGoes(s, [a EXCEPT !.pc = AfterError(a), !.left = 0])
      <3>1. PICK pc \in {"succeeded", "failed"} : AgentGoes(s, [a EXCEPT !.pc = pc, !.left = 0])
        BY <2>3 DEF AfterError
      <3> DEFINE b == [a EXCEPT !.pc = pc, !.left = 0]
      <3>2. agent' = [agent EXCEPT ![s] = b]
        BY <3>1 DEF AgentGoes
      <3>3. 0 \in 0..MaxRetries
        BY BoundsAssumption
      <3>4. b \in Thread /\ b.pc = pc
        BY <1>1, <3>3 DEF Thread
      <3>5. QED
        BY <1>2, <3>2, <3>4
    <2>4. QED
      BY <2>1, <2>2, <2>3 DEF ModelCall
  <1> HIDE DEF a
  <1>3. CallsAhead(b) < CallsAhead(a)
    BY <1>1, <1>2, CallsFacts
  <1>4. b.pc # "off"
    BY <1>1, <1>2
  <1>5. QED
    BY <1>2, <1>3, <1>4 DEF Advances, a

LEMMA RunToolsAdvances ==
  ASSUME GInv, NEW s \in Positions, RunTools(s)
  PROVE  \E b : Advances(s, b)
  <1> DEFINE a == agent[s]
  <1>1. a \in Thread /\ a.pc = "tools"
    BY DEF GInv, TypeOK, RunTools
  <1>2. PICK outcome \in {"ok", "failed"} :
          agent' = [agent EXCEPT ![s] = [a EXCEPT !.pc = "telling", !.tools = outcome,
                                                  !.twice = a.tools # "none"]]
    BY DEF RunTools, AgentGoes
  <1> DEFINE b == [a EXCEPT !.pc = "telling", !.tools = outcome, !.twice = a.tools # "none"]
  <1>3. b \in Thread /\ b.pc = "telling"
    BY <1>1 DEF Thread
  <1>4. agent' = [agent EXCEPT ![s] = b]
    BY <1>2
  <1> HIDE DEF a, b
  <1>5. CallsAhead(b) < CallsAhead(a)
    BY <1>1, <1>3, CallsFacts
  <1>6. Advances(s, b)
    BY <1>3, <1>4, <1>5 DEF Advances, a
  <1>7. QED
    BY <1>6

LEMMA AgentAdvances ==
  ASSUME GInv, NEW s \in Positions, AgentStep(s)
  PROVE  \E b : Advances(s, b)
  BY StartAgentAdvances, ModelCallAdvances, RunToolsAdvances DEF AgentStep

LEMMA AgentComesNearer ==
  ASSUME GInv, NEW s \in Positions, AgentStep(s)
  PROVE  ComesNearer
  <1>1. PICK b : Advances(s, b)
    BY AgentAdvances
  <1>2. s \in Agents /\ UNCHANGED <<task, plan, at>>
    BY DEF AgentStep
  <1>3. agent \in [Positions -> Thread]
    BY DEF GInv, TypeOK
  <1>4. agent'[s] = b /\ \A r \in Positions \ {s} : agent'[r] = agent[r]
    BY <1>1, <1>3 DEF Advances
  <1>5. CallsAhead(agent'[s]) < CallsAhead(agent[s])
    BY <1>1, <1>4 DEF Advances
  <1>6. NodesAhead' = NodesAhead
    BY <1>2 DEF NodesAhead, Place
  <1>7. QED
    BY <1>2, <1>4, <1>5, <1>6 DEF ComesNearer

LEMMA PlaceFacts ==
  ASSUME GInv
  PROVE  /\ task.loop \in 0..MaxLoop /\ MaxLoop \in Nat
         /\ Place \in 1..5
         /\ at = "idle" => NodesAhead = 0
         /\ at # "idle" => NodesAhead = 6 * (MaxLoop - task.loop) + Place
         /\ at = "subtask_execution" => Place = 5
         /\ at = "agents" => Place = 4
         /\ at = "completion_judge" =>
              Place = IF plan.continue /\ plan.work # <<>> THEN 3 ELSE 1
         /\ at = "round_dispatch" => Place = 2
         /\ at = "human_intervention" => Place = 1
  <1>1. task.loop \in 0..MaxLoop /\ MaxLoop \in Nat
    BY TaskFields, MaxLoopAssumption DEF GInv, TypeOK
  <1>2. QED
    BY <1>1 DEF Place, NodesAhead

(* A step to another node keeps the counter and lowers the place, or raises *)
(* the counter.                                                             *)
LEMMA EndComesNearer ==
  ASSUME GInv, GInv', at # "idle", at' = "idle"
  PROVE  ComesNearer
  <1>1. NodesAhead' = 0
    BY DEF NodesAhead
  <1>2. NodesAhead > 0
    BY PlaceFacts
  <1>3. QED
    BY <1>1, <1>2 DEF ComesNearer

LEMMA StepComesNearer ==
  ASSUME GInv, GInv', at # "idle", at' # "idle",
         \/ task'.loop = task.loop /\ Place' < Place
         \/ task'.loop = task.loop + 1
  PROVE  ComesNearer
  <1>1. NodesAhead = 6 * (MaxLoop - task.loop) + Place /\ Place \in 1..5
        /\ task.loop \in 0..MaxLoop /\ MaxLoop \in Nat
    BY PlaceFacts
  <1>2. NodesAhead' = 6 * (MaxLoop - task'.loop) + Place' /\ Place' \in 1..5
        /\ task'.loop \in 0..MaxLoop
    <2>1. task'.loop \in 0..MaxLoop
      BY TaskFields DEF GInv, TypeOK
    <2>2. Place' \in 1..5
      BY DEF Place
    <2>3. QED
      BY <2>1, <2>2 DEF NodesAhead
  <1>3. NodesAhead' < NodesAhead
    BY <1>1, <1>2
  <1>4. QED
    BY <1>3 DEF ComesNearer

LEMMA RoundDispatchNearer == ASSUME GInv, GInv', RoundDispatch PROVE ComesNearer
  <1> DEFINE t == [task EXCEPT !.node = "dispatch_decision"]
  <1>1. at = "round_dispatch" /\ task \in Task /\ task.loop \in 0..MaxLoop
    BY TaskFields DEF GInv, TypeOK, RoundDispatch
  <1>2. t \in Task /\ t.loop = task.loop
    BY <1>1 DEF Task
  <1>3. PICK p : task' = CountRound(t, p) /\ plan' = p /\ at' = RouteAfterPlan(task', p)
    BY DEF RoundDispatch
  <1> HIDE DEF t
  <1>4. CASE p.continue /\ p.work # <<>>
    <2>1. task'.loop = task.loop + 1
      BY <1>1, <1>2, <1>3, <1>4 DEF CountRound, Task
    <2>2. at' # "idle"
      BY <1>3 DEF RouteAfterPlan
    <2>3. QED
      BY <1>1, <2>1, <2>2, StepComesNearer
  <1>5. CASE ~(p.continue /\ p.work # <<>>)
    <2>1. task'.loop = task.loop
      BY <1>2, <1>3, <1>5 DEF CountRound
    <2>2. at' \in {"human_intervention", "completion_judge"}
      BY <1>3, <1>5 DEF RouteAfterPlan
    <2>3. Place' = 1 /\ Place = 2
      BY <1>1, <1>3, <1>5, <2>2 DEF Place
    <2>4. QED
      BY <1>1, <2>1, <2>2, <2>3, StepComesNearer
  <1>6. QED
    BY <1>4, <1>5

LEMMA GraphComesNearer == ASSUME GInv, GInv', GraphStep PROVE ComesNearer
  <1>1. task \in Task
    BY DEF GInv, TypeOK
  <1>2. CASE RoundDispatch
    BY <1>2, RoundDispatchNearer
  <1>3. CASE PlannerRaises \/ AgentRaises \/ HumanIntervention
    BY <1>3, EndComesNearer DEF PlannerRaises, AgentRaises, HumanIntervention, Raise, Ends
  <1>4. CASE Distribute
    <2>1. at = "subtask_execution" /\ at' = "agents" /\ task'.loop = task.loop
      BY <1>1, <1>4 DEF Distribute, Task
    <2>2. Place = 5 /\ Place' = 4
      BY <2>1 DEF Place
    <2>3. QED
      BY <2>1, <2>2, StepComesNearer
  <1>5. CASE Collect
    <2>1. CASE at' = "idle"
      BY <1>5, <2>1, EndComesNearer DEF Collect
    <2>2. CASE at' # "idle"
      <3>1. at = "agents" /\ at' = "completion_judge" /\ task'.loop = task.loop
        BY <1>1, <1>5, <2>2 DEF Collect, Ends, Task
      <3>2. Place = 4 /\ Place' \in {1, 3}
        BY <3>1 DEF Place
      <3>3. QED
        BY <3>1, <3>2, StepComesNearer
    <2>3. QED
      BY <2>1, <2>2
  <1>6. CASE CompletionJudge
    <2>1. CASE at' = "idle"
      BY <1>6, <2>1, EndComesNearer DEF CompletionJudge
    <2>2. CASE at' # "idle"
      <3>1. at = "completion_judge" /\ at' \in {"human_intervention", "round_dispatch"}
            /\ plan.continue /\ plan.work # <<>> /\ task'.loop = task.loop
        BY <1>1, <1>6, <2>2 DEF CompletionJudge, Ends, Task
      <3>2. Place = 3 /\ Place' \in {1, 2}
        BY <3>1 DEF Place
      <3>3. QED
        BY <3>1, <3>2, StepComesNearer
    <2>3. QED
      BY <2>1, <2>2
  <1>7. QED
    BY <1>2, <1>3, <1>4, <1>5, <1>6 DEF GraphStep

(* Every step of a run brings it nearer to its end, in a measure that is a  *)
(* natural number for the nodes and one for every agent.                    *)
THEOREM RunsComeNearer == Spec => RunsWindDown
  <1>1. GInv /\ GInv' /\ [Next]_vars => [at # "idle" => ComesNearer]_vars
    <2> SUFFICES ASSUME GInv, GInv', Next, at # "idle" PROVE ComesNearer
      OBVIOUS
    <2>1. CASE Request
      BY <2>1 DEF Request, Claim, HumanResult, SubmitResult
    <2>2. CASE GraphStep
      BY <2>2, GraphComesNearer
    <2>3. CASE \E s \in Positions : AgentStep(s)
      BY <2>3, AgentComesNearer
    <2>4. QED
      BY <2>1, <2>2, <2>3 DEF Next
  <1>2. QED
    BY <1>1, GraphInvariance, PTL DEF Spec, RunsWindDown

(* An agent of the round under way has been queued.                         *)
QueuedAll == at = "agents" => \A s \in Agents : agent[s].pc # "off"

LEMMA DistributeQueues == ASSUME GInv, Distribute PROVE QueuedAll'
  <1>1. plan' = plan /\ Agents \subseteq Positions
    BY AgentsArePositions DEF Distribute
  <1>2. \A s \in Agents : agent'[s] = [Off EXCEPT !.pc = "queued", !.left = MaxRetries]
    BY <1>1 DEF Distribute, Agents
  <1>3. [Off EXCEPT !.pc = "queued", !.left = MaxRetries].pc = "queued"
    BY DEF Off
  <1>4. QED
    BY <1>1, <1>2, <1>3 DEF QueuedAll, Agents

LEMMA AgentStaysQueued ==
  ASSUME GInv, QueuedAll, NEW s \in Positions, AgentStep(s)
  PROVE  QueuedAll'
  <1>1. PICK b : Advances(s, b)
    BY AgentAdvances
  <1>2. plan' = plan /\ at = "agents" /\ Agents \subseteq Positions /\ agent \in [Positions -> Thread]
    BY AgentsArePositions DEF AgentStep, GInv, TypeOK
  <1>3. \A r \in Agents : agent'[r] = IF r = s THEN b ELSE agent[r]
    BY <1>1, <1>2 DEF Advances
  <1>4. QED
    BY <1>1, <1>2, <1>3 DEF QueuedAll, Agents, Advances

LEMMA QueuedStep == ASSUME GInv, QueuedAll, [Next]_vars PROVE QueuedAll'
  <1>1. CASE UNCHANGED vars
    BY <1>1 DEF vars, QueuedAll, Agents
  <1>2. CASE Request
    BY <1>2 DEF Request, Claim, HumanResult, SubmitResult, Stores, RunsInline, QueuedAll
  <1>3. CASE GraphStep
    <2>1. CASE Distribute
      BY <2>1, DistributeQueues
    <2>2. CASE ~Distribute
      <3>1. at' # "agents"
        BY <1>3, <2>2 DEF GraphStep, RoundDispatch, PlannerRaises, AgentRaises, Collect,
           CompletionJudge, HumanIntervention, Raise, Ends, RouteAfterPlan
      <3>2. QED
        BY <3>1 DEF QueuedAll
    <2>3. QED
      BY <2>1, <2>2
  <1>4. CASE \E s \in Positions : AgentStep(s)
    BY <1>4, AgentStaysQueued
  <1>5. QED
    BY <1>1, <1>2, <1>3, <1>4 DEF Next

LEMMA AgentsNotStuck == ASSUME GInv, QueuedAll PROVE AgentsGoOn
  <1> SUFFICES ASSUME at = "agents", InFlight = {}, NEW r \in Agents, ~Finished(r)
               PROVE  \/ \E s \in Agents : agent[s].pc = "queued" /\ MayStart(s)
                      \/ \E s \in Agents : agent[s].pc = "raised"
                                           /\ \A q \in Agents : q < s => Finished(q)
    BY DEF AgentsGoOn
  <1> DEFINE Rest == {s \in Agents : ~Finished(s)}
  <1>1. Agents \subseteq Nat /\ Agents \subseteq Positions
    BY AgentsArePositions, BoundsAssumption DEF Positions
  <1>2. Rest \in SUBSET Nat /\ Rest # {}
    BY <1>1
  <1> HIDE DEF Rest
  <1>3. PICK s \in Rest : \A q \in Rest : s <= q
    BY <1>2, LeastOf
  <1>4. s \in Agents /\ ~Finished(s) /\ agent[s].pc \notin {"asking", "tools", "telling"}
    BY <1>3 DEF Rest, InFlight
  <1>5. agent[s].pc \in {"queued", "raised"}
    BY <1>1, <1>4 DEF QueuedAll, GInv, TypeOK, Thread, Finished
  <1>6. ASSUME NEW q \in Agents, q < s PROVE Finished(q)
    <2>1. q \in Nat /\ s \in Nat
      BY <1>1, <1>4
    <2>2. q \notin Rest
      BY <1>3, <1>6, <2>1
    <2>3. QED
      BY <2>2 DEF Rest
  <1>7. CASE agent[s].pc = "queued"
    <2>1. Cardinality(InFlight) = 0
      BY FS_EmptySet
    <2>2. Cardinality(InFlight) < MaxParallel
      BY <2>1, MaxParallelAssumption
    <2>3. \A q \in Agents : q < s => agent[q].pc # "queued"
      BY <1>6 DEF Finished
    <2>4. MayStart(s)
      BY <1>6, <2>2, <2>3 DEF MayStart
    <2>5. QED
      BY <1>4, <1>7, <2>4
  <1>8. CASE agent[s].pc = "raised"
    BY <1>4, <1>6, <1>8
  <1>9. QED
    BY <1>5, <1>7, <1>8

(* The agents of a round never wait for each other: until all are done, one *)
(* is at work, or may start, or has raised where the run will hear of it,   *)
(* also when the pool is smaller than the round.                            *)
THEOREM AgentsAreNeverStuck == Spec => []AgentsGoOn
  <1>1. Init => QueuedAll
    BY DEF Init, QueuedAll
  <1>2. GInv /\ QueuedAll /\ [Next]_vars => QueuedAll'
    BY QueuedStep
  <1>3. GInv /\ QueuedAll => AgentsGoOn
    BY AgentsNotStuck
  <1>4. QED
    BY <1>1, <1>2, <1>3, GraphInvariance, PTL DEF Spec
=============================================================================
