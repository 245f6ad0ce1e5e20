--------------------------- MODULE CodexRunnerProofs ---------------------------
(***************************************************************************)
(* What the local claims guarantee, for any subtasks and any number of     *)
(* threads and deaths of the process.                                      *)
(*                                                                         *)
(* The argument is about what the main thread knows.  The listing it has   *)
(* in hand may be stale, but only in one direction: a subtask the runner   *)
(* has to do with that is missing in it is settled for good, and one that  *)
(* is in it and is being worked on is still claimed (ListingOK).  So the   *)
(* review of an answered subtask runs out of ways to come back.            *)
(***************************************************************************)
EXTENDS CodexRunner, FiniteSetTheorems, TLAPS

Settled(s) == status[s] \in {"answered", "closed"}
On(th, s) == thread[th] # Idle /\ thread[th].subtask = s
Handles(th, s) == On(th, s) /\ thread[th].kind = "handler"
Known(s) == s \in pending \/ \E th \in Threads : On(th, s)

\* What is claimed, shown or worked on.
ClaimOK(s) ==
  /\ Known(s) \/ s \in claimed => status[s] # "absent"
  /\ s \in late => status[s] # "absent"
  /\ Known(s) => s \in claimed \/ Settled(s)
  /\ s \in claimed => Settled(s) \/ s \in pending \/ \E th \in Threads : Handles(th, s)
  /\ \A th, other \in Threads : Handles(th, s) /\ Handles(other, s) => th = other
  /\ \A th \in Threads : On(th, s) /\ thread[th].at = "taken" => Settled(s)

\* The terminal and the console exclude each other.
PlaceOK(s) ==
  /\ ~ui => s \notin pending /\ \A th \in Threads : On(th, s) => Handles(th, s)
  /\ ui => \A th \in Threads : On(th, s) => thread[th].at # "prompt"

\* What the main thread has in hand.
ListingOK(s) ==
  /\ s \in poll.todo => status[s] # "absent" /\ poll.at # "idle"
  /\ poll.at = "listed" /\ s \in poll.todo => (Known(s) => s \in claimed)
  /\ poll.at = "listed" /\ s \notin poll.todo => (Known(s) \/ s \in claimed => Settled(s))
  /\ poll.at = "claiming" /\ s \in poll.todo => ~Known(s) /\ s \notin claimed

BaseOK(s) == ClaimOK(s) /\ PlaceOK(s) /\ ListingOK(s)
-----------------------------------------------------------------------------
LEMMA BusyFields == \A t \in Busy :
  t.kind \in {"handler", "post"} /\ t.subtask \in Subtasks
  /\ t.at \in {"working", "prompt", "send", "sent", "taken", "refused", "failed"}
BY DEF Busy

LEMMA IdleIsNotBusy == Idle \notin Busy
<1>1. Idle.kind = "idle"
  BY DEF Idle
<1> QED BY <1>1, BusyFields

\* A thread that goes on stays what it is.
LEMMA GoTypes ==
  ASSUME TypeOK, NEW th \in Threads, thread[th] # Idle,
         NEW place \in {"prompt", "send", "sent", "taken", "refused", "failed"}, Go(th, place)
  PROVE  /\ thread' \in [Threads -> {Idle} \cup Busy]
         /\ thread'[th] # Idle
         /\ thread'[th].at = place
         /\ thread'[th].kind = thread[th].kind /\ thread'[th].subtask = thread[th].subtask
         /\ \A o \in Threads \ {th} : thread'[o] = thread[o]
<1>1. thread[th] \in Busy /\ thread \in [Threads -> {Idle} \cup Busy]
  BY DEF TypeOK
<1>2. thread' = [thread EXCEPT ![th].at = place]
  BY DEF Go
<1>3. thread'[th] = [thread[th] EXCEPT !.at = place]
  BY <1>1, <1>2
<1>4. [thread[th] EXCEPT !.at = place] \in Busy
  BY <1>1 DEF Busy
<1>5. /\ thread'[th].at = place
      /\ thread'[th].kind = thread[th].kind /\ thread'[th].subtask = thread[th].subtask
  BY <1>1, <1>3 DEF Busy
<1> QED BY <1>1, <1>2, <1>3, <1>4, <1>5, IdleIsNotBusy

\* Every step of a thread leaves it alone, ends it or moves it on.
LEMMA EndTypes ==
  ASSUME TypeOK, NEW th \in Threads, End(th)
  PROVE  /\ thread' \in [Threads -> {Idle} \cup Busy]
         /\ thread'[th] = Idle
         /\ \A o \in Threads \ {th} : thread'[o] = thread[o]
BY DEF TypeOK, End

\* A new thread.
LEMMA StartTypes ==
  ASSUME TypeOK, NEW th \in Threads, NEW t \in Busy, thread' = [thread EXCEPT ![th] = t]
  PROVE  /\ thread' \in [Threads -> {Idle} \cup Busy]
         /\ thread'[th] = t
         /\ \A o \in Threads \ {th} : thread'[o] = thread[o]
BY DEF TypeOK

LEMMA NewThreads ==
  \A s \in Subtasks : /\ [kind |-> "handler", subtask |-> s, at |-> "working"] \in Busy
                      /\ [kind |-> "post", subtask |-> s, at |-> "send"] \in Busy
BY DEF Busy

LEMMA SubtaskOf ==
  ASSUME TypeOK, NEW th \in Threads, thread[th] # Idle
  PROVE  thread[th].subtask \in Subtasks /\ thread[th] \in Busy
BY BusyFields DEF TypeOK

LEMMA TakeTypes ==
  ASSUME TypeOK, NEW s \in Subtasks, Take(s)
  PROVE  /\ status' \in [Subtasks -> {"absent", "open", "stranded", "answered", "closed"}]
         /\ answers' \in [Subtasks -> 0..2]
         /\ status'[s] = "answered"
         /\ answers'[s] = IF answers[s] = 0 THEN 1 ELSE 2
         /\ \A d \in Subtasks \ {s} : status'[d] = status[d] /\ answers'[d] = answers[d]
BY DEF TypeOK, Take

LEMMA AtWorkIsFinite ==
  \A s \in Subtasks : IsFiniteSet(AtWork(s)) /\ Cardinality(AtWork(s)) \in Nat
<1> SUFFICES ASSUME NEW s \in Subtasks
             PROVE  IsFiniteSet(AtWork(s)) /\ Cardinality(AtWork(s)) \in Nat
  OBVIOUS
<1>1. IsFiniteSet(AtWork(s))
  BY ThreadsAssumption, FS_Subset DEF AtWork, Running
<1> QED BY <1>1, FS_CardinalityType

LEMMA InitTypes == Init => TypeOK
BY MaxCrashesAssumption DEF Init, TypeOK, Asleep

LEMMA NextTypes == TypeOK /\ [Next]_vars => TypeOK'
<1> SUFFICES ASSUME TypeOK, [Next]_vars PROVE TypeOK'
  OBVIOUS
<1> USE DEF config, server, memory, process
<1>1. CASE Ask \/ Reconcile
  BY <1>1 DEF TypeOK, Ask, Reconcile, Listed, Asleep, ReconciledClaims, Candidates
<1>2. ASSUME NEW s \in Subtasks, NEW th \in Threads, Claim(s, th) PROVE TypeOK'
  BY <1>2, StartTypes, NewThreads DEF TypeOK, Claim, Asleep
<1>3. ASSUME NEW s \in Subtasks,
             Appear(s) \/ AnsweredElsewhere(s) \/ TaskEnds(s) \/ LostRequest(s) PROVE TypeOK'
  BY <1>3 DEF TypeOK, Appear, AnsweredElsewhere, TaskEnds, LostRequest
<1>4. ASSUME NEW s \in Subtasks, LateRequest(s) PROVE TypeOK'
  BY <1>4, TakeTypes DEF TypeOK, LateRequest
<1>5. ASSUME NEW th \in Threads, HandlerStep(th) PROVE TypeOK'
  <2>1. thread[th] # Idle
    BY <1>5 DEF HandlerStep, CodexSubmits, CodexAsksForReview, CodexFails, PromptAnswered,
                PromptSkipped, At
  <2>2. Go(th, "send") \/ Go(th, "prompt") \/ End(th)
    BY <1>5 DEF HandlerStep, CodexSubmits, CodexAsksForReview, CodexFails, PromptAnswered,
                PromptSkipped, GiveBack
  <2>3. thread' \in [Threads -> {Idle} \cup Busy]
    BY <2>1, <2>2, GoTypes, EndTypes
  <2> QED BY <1>5, <2>1, <2>3, SubtaskOf
          DEF TypeOK, HandlerStep, CodexSubmits, CodexAsksForReview, CodexFails, PromptAnswered,
              PromptSkipped, GiveBack
<1>6. ASSUME NEW th \in Threads, RequestStep(th) PROVE TypeOK'
  <2>1. thread[th] # Idle
    BY <1>6 DEF RequestStep, Send, Arrives, NoAnswer, Succeeds, Fails, At
  <2>2. \/ Go(th, "sent") \/ Go(th, "taken") \/ Go(th, "refused") \/ Go(th, "failed") \/ End(th)
    BY <1>6 DEF RequestStep, Send, Arrives, NoAnswer, Succeeds, Fails, GiveBack
  <2>3. thread' \in [Threads -> {Idle} \cup Busy]
    BY <2>1, <2>2, GoTypes, EndTypes
  <2>4. CASE Arrives(th)
    BY <2>1, <2>3, <2>4, SubtaskOf, TakeTypes DEF TypeOK, Arrives
  <2> QED BY <1>6, <2>1, <2>3, <2>4, SubtaskOf
          DEF TypeOK, RequestStep, Send, NoAnswer, Succeeds, Fails, GiveBack
<1>7. ASSUME NEW s \in Subtasks, NEW th \in Threads, PostBegins(s, th) PROVE TypeOK'
  BY <1>7, StartTypes, NewThreads DEF TypeOK, PostBegins
<1>8. CASE Crash
  <2>1. InFlight("sent") \subseteq Subtasks /\ InFlight("taken") \subseteq Subtasks
    BY DEF InFlight
  <2>2. crashes' \in 0..MaxCrashes
    BY <1>8, MaxCrashesAssumption DEF TypeOK, Crash
  <2>3. orphans' \in [Subtasks -> Nat]
    BY <1>8, AtWorkIsFinite DEF TypeOK, Crash
  <2> QED BY <1>8, <2>1, <2>2, <2>3 DEF TypeOK, Crash, Asleep
<1>10. CASE Restart
  BY <1>10 DEF TypeOK, Restart
<1>11. ASSUME NEW s \in Subtasks, OrphanEnds(s) PROVE TypeOK'
  <2>1. orphans' \in [Subtasks -> Nat]
    BY <1>11 DEF TypeOK, OrphanEnds
  <2> QED BY <1>11, <2>1 DEF TypeOK, OrphanEnds
<1>9. CASE UNCHANGED vars
  BY <1>9 DEF TypeOK, vars
<1> QED BY <1>1, <1>2, <1>3, <1>4, <1>5, <1>6, <1>7, <1>8, <1>9, <1>10, <1>11
       DEF Next, PollStep, ServerStep

\* The variables of the runner keep their types.
THEOREM Typing == Spec => []TypeOK
BY InitTypes, NextTypes, PTL DEF Spec
-----------------------------------------------------------------------------
\* What a step that concerns other subtasks leaves alone.
Same(s) ==
  /\ UNCHANGED config
  /\ status'[s] = status[s] /\ answers'[s] = answers[s]
  /\ s \in late' <=> s \in late
  /\ s \in unheard' <=> s \in unheard
  /\ s \in claimed' <=> s \in claimed
  /\ s \in pending' <=> s \in pending
  /\ poll'.at = poll.at /\ (s \in poll'.todo <=> s \in poll.todo)
  /\ \A th \in Threads : thread'[th] = thread[th] \/ (~On(th, s) /\ ~On(th, s)')

LEMMA Frame ==
  ASSUME NEW s \in Subtasks, Same(s), BaseOK(s) PROVE BaseOK(s)'
<1>1. \A th \in Threads : /\ On(th, s)' <=> On(th, s)
                          /\ On(th, s) => thread'[th] = thread[th]
                          /\ Handles(th, s)' <=> Handles(th, s)
  BY DEF Same, On, Handles
<1>2. Known(s)' <=> Known(s)
  BY <1>1 DEF Known, Same
<1>3. Settled(s)' <=> Settled(s)
  BY DEF Settled, Same
<1>4. ClaimOK(s)'
  BY <1>1, <1>2, <1>3 DEF BaseOK, ClaimOK, Same
<1>5. PlaceOK(s)'
  BY <1>1 DEF BaseOK, PlaceOK, Same, config
<1>6. ListingOK(s)'
  BY <1>1, <1>2, <1>3 DEF BaseOK, ListingOK, Same
<1> QED BY <1>4, <1>5, <1>6 DEF BaseOK

\* Only the status changes, forwards.
LEMMA StatusSteps ==
  ASSUME TypeOK, NEW s \in Subtasks, BaseOK(s),
         UNCHANGED <<config, claimed, pending, poll, thread>>,
         s \in late' => s \in late,
         \/ status'[s] = status[s]
         \/ status[s] = "absent" /\ status'[s] = "open"
         \/ status[s] = "open" /\ status'[s] \in {"answered", "stranded"}
         \/ status[s] = "answered" /\ status'[s] \in {"answered", "closed"}
  PROVE  BaseOK(s)'
<1>1. \A th \in Threads : (On(th, s)' <=> On(th, s)) /\ (Handles(th, s)' <=> Handles(th, s))
  BY DEF On, Handles
<1>2. Known(s)' <=> Known(s)
  BY <1>1 DEF Known
<1>3. Settled(s) => Settled(s)'
  BY DEF Settled
<1>4. status[s] # "absent" => status'[s] # "absent"
  OBVIOUS
<1>5. ClaimOK(s)'
  BY <1>1, <1>2, <1>3, <1>4 DEF BaseOK, ClaimOK
<1>6. PlaceOK(s)'
  BY <1>1 DEF BaseOK, PlaceOK, config
<1>7. ListingOK(s)'
  BY <1>1, <1>2, <1>3, <1>4 DEF BaseOK, ListingOK
<1> QED BY <1>5, <1>6, <1>7 DEF BaseOK

LEMMA ServerKeeps ==
  ASSUME TypeOK, ServerStep, NEW s \in Subtasks, BaseOK(s) PROVE BaseOK(s)'
<1> USE DEF config, server, memory, process
<1>1. PICK d \in Subtasks :
        Appear(d) \/ AnsweredElsewhere(d) \/ TaskEnds(d) \/ LateRequest(d) \/ LostRequest(d)
  BY DEF ServerStep
<1>2. UNCHANGED <<config, claimed, pending, poll, thread>> /\ late' \subseteq late
  BY <1>1 DEF Appear, AnsweredElsewhere, TaskEnds, LateRequest, LostRequest
<1>3. \/ status'[s] = status[s]
      \/ status[s] = "absent" /\ status'[s] = "open"
      \/ status[s] = "open" /\ status'[s] \in {"answered", "stranded"}
      \/ status[s] = "answered" /\ status'[s] \in {"answered", "closed"}
  BY <1>1 DEF TypeOK, Appear, AnsweredElsewhere, TaskEnds, LateRequest, LostRequest, Take, Accepts
<1> QED BY <1>2, <1>3, StatusSteps

LEMMA AskKeeps ==
  ASSUME TypeOK, Ask, NEW s \in Subtasks, BaseOK(s) PROVE BaseOK(s)'
<1> USE DEF config, server, memory, process
<1>1. /\ UNCHANGED <<config, status, late, claimed, pending, thread>>
      /\ poll'.at = "listed" /\ poll'.todo = Listed
  BY DEF Ask
<1>2. \A th \in Threads : (On(th, s)' <=> On(th, s)) /\ (Handles(th, s)' <=> Handles(th, s))
  BY <1>1 DEF On, Handles
<1>3. (Known(s)' <=> Known(s)) /\ (Settled(s)' <=> Settled(s))
  BY <1>1, <1>2 DEF Known, Settled
<1>4. ClaimOK(s)' /\ PlaceOK(s)'
  BY <1>1, <1>2, <1>3 DEF BaseOK, ClaimOK, PlaceOK
<1>5. ListingOK(s)'
  BY <1>1, <1>3 DEF BaseOK, ClaimOK, ListingOK, Listed, Settled, TypeOK
<1> QED BY <1>4, <1>5 DEF BaseOK

LEMMA ReconcileKeeps ==
  ASSUME TypeOK, Reconcile, NEW s \in Subtasks, BaseOK(s) PROVE BaseOK(s)'
<1> USE DEF config, server, memory, process
<1>1. /\ UNCHANGED <<config, status, late, thread>>
      /\ pending' = pending \cap poll.todo /\ claimed' = claimed \cap poll.todo
      /\ poll.at = "listed" /\ poll'.todo = poll.todo \ claimed
      /\ poll'.at = IF poll.todo \ claimed = {} THEN "idle" ELSE "claiming"
  BY DEF Reconcile, ReconciledClaims, Candidates, Asleep
<1>2. \A th \in Threads : (On(th, s)' <=> On(th, s)) /\ (Handles(th, s)' <=> Handles(th, s))
  BY <1>1 DEF On, Handles
<1>3. (Known(s)' => Known(s)) /\ (Settled(s)' <=> Settled(s))
  BY <1>1, <1>2 DEF Known, Settled
<1>4. ClaimOK(s)'
  BY <1>1, <1>2, <1>3 DEF BaseOK, ClaimOK, ListingOK
<1>5. PlaceOK(s)'
  BY <1>1, <1>2 DEF BaseOK, PlaceOK
<1>6. ListingOK(s)'
  BY <1>1, <1>3 DEF BaseOK, ListingOK
<1> QED BY <1>4, <1>5, <1>6 DEF BaseOK

LEMMA ClaimKeeps ==
  ASSUME TypeOK, NEW d \in Subtasks, NEW th \in Threads, Claim(d, th), NEW s \in Subtasks, BaseOK(s)
  PROVE  BaseOK(s)'
<1> USE DEF config, server, memory, process
<1>1. /\ UNCHANGED <<config, status, answers, late, unheard>>
      /\ poll.at = "claiming" /\ d \in poll.todo /\ claimed' = claimed \cup {d}
      /\ pending' = pending \/ (pending' = pending \cup {d} /\ ui)
      /\ poll'.todo = poll.todo \ {d}
      /\ poll'.at = IF poll.todo = {d} THEN "idle" ELSE "claiming"
  <2>1. CASE poll.todo = {d}
    BY <2>1 DEF Claim, Asleep
  <2>2. CASE poll.todo # {d}
    <3>1. poll' = [poll EXCEPT !.todo = poll.todo \ {d}] /\ poll.at = "claiming"
      BY <2>2 DEF Claim
    <3>2. poll'.todo = poll.todo \ {d} /\ poll'.at = poll.at
      BY <3>1 DEF TypeOK
    <3> QED BY <2>2, <3>1, <3>2 DEF Claim
  <2> QED BY <2>1, <2>2
<1>2. /\ thread[th] = Idle
      /\ thread'[th] = [kind |-> "handler", subtask |-> d, at |-> "working"]
      /\ \A o \in Threads \ {th} : thread'[o] = thread[o]
  BY NewThreads, StartTypes DEF Claim
<1>3. thread'[th] # Idle
  BY <1>2, NewThreads, IdleIsNotBusy
<1>4. CASE s # d
  <2>1. \A o \in Threads : thread'[o] = thread[o] \/ (~On(o, s) /\ ~On(o, s)')
    BY <1>2, <1>4 DEF On
  <2>2. CASE poll.todo # {d}
    BY <1>1, <1>4, <2>1, <2>2, Frame DEF Same
  <2>3. CASE poll.todo = {d}
    <3>1. \A o \in Threads : /\ On(o, s)' <=> On(o, s)
                             /\ On(o, s) => thread'[o] = thread[o]
                             /\ Handles(o, s)' <=> Handles(o, s)
      BY <2>1 DEF On, Handles
    <3>2. (Known(s)' <=> Known(s)) /\ (Settled(s)' <=> Settled(s))
      BY <1>1, <1>4, <3>1 DEF Known, Settled
    <3>3. ClaimOK(s)' /\ PlaceOK(s)'
      BY <1>1, <1>4, <3>1, <3>2 DEF BaseOK, ClaimOK, PlaceOK
    <3>4. ListingOK(s)'
      BY <1>1, <2>3 DEF ListingOK
    <3> QED BY <3>3, <3>4 DEF BaseOK
  <2> QED BY <2>2, <2>3
<1>5. CASE s = d
  <2>1. ~Known(s) /\ s \notin claimed /\ status[s] # "absent"
    BY <1>1, <1>5 DEF BaseOK, ListingOK
  <2>2. \A o \in Threads : On(o, s)' <=> o = th
    BY <1>2, <1>3, <1>5, <2>1 DEF Known, On
  <2>3. Handles(th, s)' /\ thread'[th].at = "working"
    BY <1>2, <1>3, <1>5 DEF Handles, On
  <2>4. ClaimOK(s)'
    BY <1>1, <1>5, <2>1, <2>2, <2>3 DEF ClaimOK, Handles
  <2>5. PlaceOK(s)'
    BY <1>1, <1>5, <2>1, <2>2, <2>3 DEF PlaceOK, Known
  <2>6. ListingOK(s)'
    BY <1>1, <1>5 DEF ListingOK
  <2> QED BY <2>4, <2>5, <2>6 DEF BaseOK
<1> QED BY <1>4, <1>5

\* A thread that goes on: its subtask and its kind stay.
LEMMA GoKeeps ==
  ASSUME TypeOK, NEW th \in Threads, thread[th] # Idle,
         NEW place \in {"prompt", "send", "sent", "taken", "refused", "failed"}, Go(th, place),
         place = "prompt" => ~ui,
         UNCHANGED <<config, memory, poll>>,
         NEW s \in Subtasks, BaseOK(s),
         status'[s] = status[s] \/ (Settled(s)' /\ status[s] # "absent"),
         s \in late' => s \in late \/ On(th, s),
         place = "taken" /\ On(th, s) => Settled(s)'
  PROVE  BaseOK(s)'
<1> USE DEF config, memory
<1>1. \A o \in Threads : /\ On(o, s)' <=> On(o, s)
                         /\ Handles(o, s)' <=> Handles(o, s)
                         /\ o # th => thread'[o] = thread[o]
  BY GoTypes DEF On, Handles
<1>2. thread'[th].at = place
  BY GoTypes
<1>3. (Known(s)' <=> Known(s)) /\ (Settled(s) => Settled(s)') /\ (On(th, s) => Known(s))
  BY <1>1 DEF Known, Settled
<1>4. status'[s] # "absent" <=> status[s] # "absent"
  BY DEF Settled
<1>5. ClaimOK(s)'
  BY <1>1, <1>2, <1>3, <1>4 DEF BaseOK, ClaimOK
<1>6. PlaceOK(s)'
  BY <1>1, <1>2 DEF BaseOK, PlaceOK
<1>7. ListingOK(s)'
  BY <1>3, <1>4 DEF BaseOK, ListingOK
<1> QED BY <1>5, <1>6, <1>7 DEF BaseOK

\* A thread that ends.  The subtask is settled, shown, or given back with its claim; or the
\* thread was a request of the console, which leaves things as they are.
LEMMA EndKeeps ==
  ASSUME TypeOK, NEW th \in Threads, thread[th] # Idle, End(th),
         UNCHANGED <<config, status, late, poll>>,
         NEW s \in Subtasks, BaseOK(s),
         ~On(th, s) => (s \in claimed' <=> s \in claimed) /\ (s \in pending' <=> s \in pending),
         s \in claimed' => s \in claimed,
         s \in pending' => s \in pending \/ (ui /\ On(th, s)),
         s \in pending /\ s \notin pending' => Settled(s),
         On(th, s) =>
           \/ s \in claimed' <=> s \in claimed
           \/ ~ui /\ Handles(th, s),
         Handles(th, s) => Settled(s) \/ s \in pending' \/ s \notin claimed'
  PROVE  BaseOK(s)'
<1> USE DEF config, memory
<1>1. \A o \in Threads : /\ On(o, s)' <=> On(o, s) /\ o # th
                         /\ Handles(o, s)' <=> Handles(o, s) /\ o # th
                         /\ o # th => thread'[o] = thread[o]
  BY EndTypes DEF On, Handles
<1>2. (Known(s)' => Known(s)) /\ (Settled(s) <=> Settled(s)')
  BY <1>1 DEF Known, Settled
<1>3. ASSUME s \in claimed, s \notin claimed' PROVE ~Known(s)'
  <2>1. ~ui /\ Handles(th, s)
    BY <1>3
  <2>2. \A o \in Threads : On(o, s) => o = th
    BY <2>1 DEF BaseOK, PlaceOK, ClaimOK
  <2>3. s \notin pending'
    BY <2>1 DEF BaseOK, PlaceOK
  <2> QED BY <1>1, <2>2, <2>3 DEF Known
<1>4. ClaimOK(s)'
  BY <1>1, <1>2, <1>3 DEF BaseOK, ClaimOK
<1>5. PlaceOK(s)'
  BY <1>1 DEF BaseOK, PlaceOK
<1>6. ListingOK(s)'
  BY <1>2, <1>3 DEF BaseOK, ListingOK
<1> QED BY <1>4, <1>5, <1>6 DEF BaseOK

LEMMA HandlerKeeps ==
  ASSUME TypeOK, NEW th \in Threads, HandlerStep(th), NEW s \in Subtasks, BaseOK(s)
  PROVE  BaseOK(s)'
<1> USE DEF config, server, memory, process
<1>1. thread[th] # Idle /\ UNCHANGED <<config, status, late, poll>>
  BY DEF HandlerStep, CodexSubmits, CodexAsksForReview, CodexFails, PromptAnswered, PromptSkipped, At
<1>2. CASE CodexSubmits(th) \/ PromptAnswered(th)
  BY <1>1, <1>2, GoKeeps DEF CodexSubmits, PromptAnswered
<1>3. CASE CodexAsksForReview(th) /\ ~ui
  BY <1>1, <1>3, GoKeeps DEF CodexAsksForReview
<1>4. CASE (CodexAsksForReview(th) \/ CodexFails(th)) /\ ui
  <2>1. End(th) /\ claimed' = claimed /\ pending' = pending \cup {thread[th].subtask}
    BY <1>4 DEF CodexAsksForReview, CodexFails, GiveBack
  <2>2. s = thread[th].subtask <=> On(th, s)
    BY <1>1 DEF On
  <2> QED BY <1>1, <1>4, <2>1, <2>2, EndKeeps DEF Handles
<1>5. CASE (CodexFails(th) /\ ~ui) \/ PromptSkipped(th)
  <2>1. End(th) /\ pending' = pending /\ claimed' = claimed \ {thread[th].subtask}
    BY <1>5 DEF CodexFails, GiveBack, PromptSkipped
  <2>2. s = thread[th].subtask <=> On(th, s)
    BY <1>1 DEF On
  <2>3. On(th, s) => ~ui /\ Handles(th, s)
    BY <1>5 DEF BaseOK, PlaceOK, Handles, PromptSkipped, At
  <2> QED BY <1>1, <2>1, <2>2, <2>3, EndKeeps DEF Handles
<1> QED BY <1>2, <1>3, <1>4, <1>5 DEF HandlerStep

LEMMA RequestKeeps ==
  ASSUME TypeOK, NEW th \in Threads, RequestStep(th), NEW s \in Subtasks, BaseOK(s)
  PROVE  BaseOK(s)'
<1> USE DEF config, server, memory, process
<1>1. thread[th] # Idle /\ UNCHANGED <<config, poll>>
  BY DEF RequestStep, Send, Arrives, NoAnswer, Succeeds, Fails, At
<1>2. s = thread[th].subtask <=> On(th, s)
  BY <1>1 DEF On
<1>3. CASE Send(th) \/ NoAnswer(th)
  BY <1>1, <1>2, <1>3, GoKeeps DEF Send, NoAnswer
<1>4. CASE Arrives(th)
  <2>1. CASE Accepts(thread[th].subtask)
    <3>1. Take(thread[th].subtask) /\ Go(th, "taken") /\ UNCHANGED <<late, claimed, pending>>
      BY <1>4, <2>1 DEF Arrives
    <3>2. IF On(th, s) THEN Settled(s)' /\ status[s] # "absent" ELSE status'[s] = status[s]
      BY <1>1, <1>2, <2>1, <3>1, SubtaskOf, TakeTypes DEF Accepts, Settled
    <3> QED BY <1>1, <3>1, <3>2, GoKeeps
  <2>2. CASE ~Accepts(thread[th].subtask)
    <3>1. Go(th, "refused") /\ UNCHANGED <<status, late, claimed, pending>>
      BY <1>4, <2>2 DEF Arrives
    <3> QED BY <1>1, <3>1, GoKeeps
  <2> QED BY <2>1, <2>2
<1>5. CASE Succeeds(th)
  <2>1. /\ End(th) /\ UNCHANGED <<status, late, claimed>>
        /\ pending' = IF thread[th].kind = "post" THEN pending \ {thread[th].subtask} ELSE pending
        /\ thread[th].at = "taken"
    BY <1>5 DEF Succeeds, At
  <2>2. On(th, s) => Settled(s)
    BY <2>1 DEF BaseOK, ClaimOK
  <2> QED BY <1>1, <1>2, <2>1, <2>2, EndKeeps DEF Handles
<1>6. CASE Fails(th) /\ thread[th].kind = "handler" /\ ui
  <2>1. End(th) /\ UNCHANGED <<status, late, claimed>> /\ pending' = pending \cup {thread[th].subtask}
    BY <1>6 DEF Fails, GiveBack
  <2> QED BY <1>1, <1>2, <1>6, <2>1, EndKeeps DEF Handles
<1>7. CASE Fails(th) /\ thread[th].kind = "handler" /\ ~ui
  <2>1. End(th) /\ UNCHANGED <<status, late, pending>> /\ claimed' = claimed \ {thread[th].subtask}
    BY <1>7 DEF Fails, GiveBack
  <2>2. On(th, s) <=> Handles(th, s)
    BY <1>7 DEF Handles
  <2> QED BY <1>1, <1>2, <1>7, <2>1, <2>2, EndKeeps
<1>8. CASE Fails(th) /\ thread[th].kind # "handler"
  <2>1. End(th) /\ UNCHANGED <<status, late>> /\ claimed' = claimed /\ pending' = pending
    BY <1>8 DEF Fails
  <2>2. ~Handles(th, s)
    BY <1>8 DEF Handles
  <2> QED BY <1>1, <2>1, <2>2, EndKeeps
<1> QED BY <1>3, <1>4, <1>5, <1>6, <1>7, <1>8 DEF RequestStep

LEMMA PostKeeps ==
  ASSUME TypeOK, NEW d \in Subtasks, NEW th \in Threads, PostBegins(d, th), NEW s \in Subtasks,
         BaseOK(s)
  PROVE  BaseOK(s)'
<1> USE DEF config, server, memory, process
<1>1. UNCHANGED <<config, status, answers, late, unheard, claimed, pending, poll>> /\ ui /\ d \in pending
  BY DEF PostBegins
<1>2. /\ thread[th] = Idle
      /\ thread'[th] = [kind |-> "post", subtask |-> d, at |-> "send"]
      /\ \A o \in Threads \ {th} : thread'[o] = thread[o]
  BY NewThreads, StartTypes DEF PostBegins
<1>3. \A o \in Threads : On(o, s)' => On(o, s) \/ s = d
  BY <1>2 DEF On
<1>4. (Known(s)' => Known(s)) /\ (Settled(s)' <=> Settled(s))
  BY <1>1, <1>3 DEF Known, Settled
<1>5. \A o \in Threads : Handles(o, s)' <=> Handles(o, s)
  BY <1>2 DEF Handles, On
<1>6. ClaimOK(s)'
  <2>1. \A o \in Threads : On(o, s)' /\ thread'[o].at = "taken" => On(o, s) /\ thread[o].at = "taken"
    BY <1>2 DEF On
  <2> QED BY <1>1, <1>4, <1>5, <2>1 DEF BaseOK, ClaimOK
<1>7. PlaceOK(s)'
  <2>1. \A o \in Threads : On(o, s)' /\ thread'[o].at = "prompt" => On(o, s) /\ thread[o].at = "prompt"
    BY <1>2 DEF On
  <2> QED BY <1>1, <2>1 DEF BaseOK, PlaceOK
<1>8. ListingOK(s)'
  BY <1>1, <1>4 DEF BaseOK, ListingOK
<1> QED BY <1>6, <1>7, <1>8 DEF BaseOK

LEMMA CrashKeeps ==
  ASSUME TypeOK, Crash \/ Restart, NEW s \in Subtasks, BaseOK(s) PROVE BaseOK(s)'
<1> USE DEF config, server, memory, process
<1>1. CASE Restart
  BY <1>1, Frame DEF Restart, Same
<1>2. CASE Crash
  <2>1. \A th \in Threads : thread'[th] = Idle
    BY <1>2 DEF Crash
  <2>2. ~Known(s)' /\ s \notin claimed' /\ \A th \in Threads : ~On(th, s)' /\ ~Handles(th, s)'
    BY <1>2, <2>1 DEF Crash, Known, On, Handles
  <2>3. s \in late' => status[s] # "absent"
    <3>1. s \in InFlight("sent") => Known(s)
      BY DEF InFlight, At, Known, On
    <3> QED BY <1>2, <3>1 DEF Crash, BaseOK, ClaimOK
  <2>4. status'[s] = status[s] /\ poll' = Asleep /\ s \notin pending'
    BY <1>2 DEF Crash
  <2> QED BY <2>2, <2>3, <2>4 DEF BaseOK, ClaimOK, PlaceOK, ListingOK, Asleep
<1> QED BY <1>1, <1>2
-----------------------------------------------------------------------------
Base == TypeOK /\ \A s \in Subtasks : BaseOK(s)

LEMMA BaseInvariance == Spec => []Base
<1>1. Init => Base
  <2> SUFFICES ASSUME Init PROVE Base
    OBVIOUS
  <2>1. ASSUME NEW s \in Subtasks PROVE BaseOK(s)
    BY DEF Init, BaseOK, ClaimOK, PlaceOK, ListingOK, Known, On, Handles, Asleep
  <2> QED BY <2>1, InitTypes DEF Base
<1>2. Base /\ [Next]_vars => Base'
  <2> SUFFICES ASSUME Base, [Next]_vars, NEW s \in Subtasks PROVE BaseOK(s)'
    BY NextTypes DEF Base
  <2>1. TypeOK /\ BaseOK(s)
    BY DEF Base
  <2>2. CASE PollStep
    BY <2>1, <2>2, AskKeeps, ReconcileKeeps, ClaimKeeps DEF PollStep
  <2>3. CASE ServerStep
    BY <2>1, <2>3, ServerKeeps
  <2>4. CASE Crash \/ Restart
    BY <2>1, <2>4, CrashKeeps
  <2>5. ASSUME NEW th \in Threads, HandlerStep(th) \/ RequestStep(th) PROVE BaseOK(s)'
    BY <2>1, <2>5, HandlerKeeps, RequestKeeps
  <2>6. ASSUME NEW d \in Subtasks, NEW th \in Threads, PostBegins(d, th) PROVE BaseOK(s)'
    BY <2>1, <2>6, PostKeeps
  <2>7. CASE UNCHANGED vars
    BY <2>1, <2>7, Frame DEF vars, Same, server, memory, process
  <2>8. ASSUME NEW d \in Subtasks, OrphanEnds(d) PROVE BaseOK(s)'
    BY <2>1, <2>8, Frame DEF OrphanEnds, Same, server, memory
  <2> QED BY <2>2, <2>3, <2>4, <2>5, <2>6, <2>7, <2>8 DEF Next
<1> QED BY <1>1, <1>2, PTL DEF Spec

\* No claim is left behind: what the runner keeps from its own polls is worked on or shown.
THEOREM ClaimsHeld == Spec => []ClaimsAreHeld
<1>1. Base => ClaimsAreHeld
  BY DEF Base, BaseOK, ClaimOK, ClaimsAreHeld, Listed, Settled, Running, Handles, On
<1> QED BY <1>1, BaseInvariance, PTL

LEMMA HandlersAreOne ==
  ASSUME Base, NEW s \in Subtasks, NEW th \in Running("handler", s),
         NEW other \in Running("handler", s)
  PROVE  th = other
<1>1. ASSUME NEW o \in Running("handler", s) PROVE o \in Threads /\ Handles(o, s)
  BY DEF Running, Handles, On, Idle
<1> QED BY <1>1 DEF Base, BaseOK, ClaimOK

LEMMA AtWorkIsOne ==
  ASSUME Base, NEW s \in Subtasks PROVE Cardinality(AtWork(s)) \in 0..1
<1>1. CASE AtWork(s) = {}
  <2>1. Cardinality(AtWork(s)) = 0
    BY <1>1, FS_EmptySet
  <2> QED BY <2>1
<1>2. CASE AtWork(s) # {}
  <2>1. PICK th : th \in AtWork(s)
    BY <1>2
  <2>2. AtWork(s) = {th}
    BY <2>1, HandlersAreOne DEF AtWork
  <2>3. Cardinality(AtWork(s)) = 1
    BY <2>2, FS_Singleton
  <2> QED BY <2>3
<1> QED BY <1>1, <1>2

\* A death leaves at most one Codex of a subtask behind.
FewOrphans == \A s \in Subtasks : orphans[s] <= crashes

LEMMA OrphansNext == Base /\ FewOrphans /\ [Next]_vars => FewOrphans'
<1> SUFFICES ASSUME Base, FewOrphans, [Next]_vars, NEW s \in Subtasks
             PROVE  orphans'[s] <= crashes'
  BY DEF FewOrphans
<1> USE DEF config, server, memory, process
<1>1. orphans[s] <= crashes /\ orphans[s] \in Nat /\ crashes \in Nat
  BY MaxCrashesAssumption DEF FewOrphans, Base, TypeOK
<1>2. CASE UNCHANGED <<crashes, orphans>>
  BY <1>1, <1>2
<1>3. CASE Crash
  BY <1>1, <1>3, AtWorkIsOne DEF Crash
<1>4. ASSUME NEW d \in Subtasks, OrphanEnds(d) PROVE orphans'[s] <= crashes'
  BY <1>1, <1>4 DEF OrphanEnds, Base, TypeOK
<1>5. CASE PollStep
  BY <1>2, <1>5 DEF PollStep, Ask, Reconcile, Claim
<1>6. CASE ServerStep
  BY <1>2, <1>6 DEF ServerStep, Appear, AnsweredElsewhere, TaskEnds, LateRequest, LostRequest
<1>7. ASSUME NEW th \in Threads, HandlerStep(th) \/ RequestStep(th)
      PROVE  orphans'[s] <= crashes'
  BY <1>2, <1>7 DEF HandlerStep, CodexSubmits, CodexAsksForReview, CodexFails, PromptAnswered,
                    PromptSkipped, RequestStep, Send, Arrives, NoAnswer, Succeeds, Fails
<1>8. ASSUME NEW d \in Subtasks, NEW th \in Threads, PostBegins(d, th)
      PROVE  orphans'[s] <= crashes'
  BY <1>2, <1>8 DEF PostBegins
<1>9. CASE Restart \/ UNCHANGED vars
  BY <1>2, <1>9 DEF Restart, vars
<1> QED BY <1>3, <1>4, <1>5, <1>6, <1>7, <1>8, <1>9 DEF Next

\* One handler for a subtask in one life of the process, and one more Codex at work on it
\* for each of its deaths and no more, whatever polls and failures interleave.
THEOREM OneCodexHolds == Spec => []OneCodexPerLife
<1>1. Init => FewOrphans
  BY DEF Init, FewOrphans
<1>2. Base /\ FewOrphans => OneCodexPerLife
  <2> SUFFICES ASSUME Base, FewOrphans, NEW s \in Subtasks
               PROVE  /\ \A th, other \in Running("handler", s) : th = other
                      /\ Cardinality(AtWork(s)) + orphans[s] <= crashes + 1
    BY DEF OneCodexPerLife
  <2>1. \A th, other \in Running("handler", s) : th = other
    BY HandlersAreOne
  <2>2. orphans[s] <= crashes /\ orphans[s] \in Nat /\ crashes \in Nat
    BY MaxCrashesAssumption DEF FewOrphans, Base, TypeOK
  <2> QED BY <2>1, <2>2, AtWorkIsOne
<1> QED BY <1>1, <1>2, OrphansNext, BaseInvariance, PTL DEF Spec
-----------------------------------------------------------------------------
(* Answers are not repeated. *)

Alone == autoSubmit /\ Tabs <= 1

HearOK(s) ==
  /\ s \in late => s \in unheard
  /\ \A th \in Threads : On(th, s) /\ thread[th].at = "failed" => s \in unheard
  /\ answers[s] # 0 => Settled(s)

\* Who has answered and heard of it does not answer again: nothing that could is left.
OneOK(s) ==
  /\ \A th, other \in Threads : On(th, s) /\ On(other, s) => th = other
  /\ \A th \in Threads : Handles(th, s) => s \notin pending
  /\ answers[s] # 0 /\ s \notin unheard =>
       /\ answers[s] = 1
       /\ \A th \in Threads : On(th, s) => thread[th].at = "taken"
       /\ s \in pending => \E th \in Threads : On(th, s)
       /\ s \in poll.todo => poll.at = "listed" /\ s \in claimed

AnswerOK(s) == HearOK(s) /\ (Alone => OneOK(s))

LEMMA AnswerFrame ==
  ASSUME NEW s \in Subtasks, Same(s), AnswerOK(s) PROVE AnswerOK(s)'
<1>1. \A th \in Threads : /\ On(th, s)' <=> On(th, s)
                          /\ On(th, s) => thread'[th] = thread[th]
                          /\ Handles(th, s)' <=> Handles(th, s)
  BY DEF Same, On, Handles
<1>2. (Settled(s)' <=> Settled(s)) /\ (Alone' <=> Alone)
  BY DEF Settled, Alone, Same, config
<1>3. HearOK(s)'
  BY <1>1, <1>2 DEF AnswerOK, HearOK, Same
<1>4. OneOK(s) => OneOK(s)'
  BY <1>1 DEF OneOK, Same
<1> QED BY <1>2, <1>3, <1>4 DEF AnswerOK

\* A step of a thread concerns its own subtask only.
LEMMA ThreadFrame ==
  ASSUME TypeOK, NEW th \in Threads, HandlerStep(th) \/ RequestStep(th),
         NEW s \in Subtasks, ~On(th, s)
  PROVE  Same(s)
<1> USE DEF config, server, memory, process
<1>1. thread[th] # Idle
  BY DEF HandlerStep, CodexSubmits, CodexAsksForReview, CodexFails, PromptAnswered, PromptSkipped,
         RequestStep, Send, Arrives, NoAnswer, Succeeds, Fails, At
<1>2. thread[th].subtask \in Subtasks \ {s}
  BY <1>1, SubtaskOf DEF On
<1>3. \/ End(th)
      \/ \E place \in {"prompt", "send", "sent", "taken", "refused", "failed"} : Go(th, place)
  BY DEF HandlerStep, CodexSubmits, CodexAsksForReview, CodexFails, PromptAnswered, PromptSkipped,
         RequestStep, Send, Arrives, NoAnswer, Succeeds, Fails, GiveBack
<1>4. \A o \in Threads : thread'[o] = thread[o] \/ (~On(o, s) /\ ~On(o, s)')
  <2>1. \A o \in Threads \ {th} : thread'[o] = thread[o]
    BY <1>1, <1>3, GoTypes, EndTypes
  <2>2. ~On(th, s)'
    <3>1. CASE End(th)
      BY <3>1, EndTypes DEF On
    <3>2. ASSUME NEW place \in {"prompt", "send", "sent", "taken", "refused", "failed"}, Go(th, place)
          PROVE  ~On(th, s)'
      BY <1>1, <1>2, <3>2, GoTypes DEF On
    <3> QED BY <1>3, <3>1, <3>2
  <2> QED BY <2>1, <2>2
<1>5. CASE HandlerStep(th)
  BY <1>2, <1>4, <1>5 DEF Same, HandlerStep, CodexSubmits, CodexAsksForReview, CodexFails,
         PromptAnswered, PromptSkipped, GiveBack
<1>6. CASE Arrives(th)
  BY <1>2, <1>4, <1>6, TakeTypes DEF Same, Arrives
<1>7. CASE Send(th) \/ NoAnswer(th) \/ Succeeds(th) \/ Fails(th)
  BY <1>2, <1>4, <1>7 DEF Same, Send, NoAnswer, Succeeds, Fails, GiveBack
<1> QED BY <1>5, <1>6, <1>7 DEF RequestStep

LEMMA ServerAnswers ==
  ASSUME TypeOK, ServerStep, NEW s \in Subtasks, AnswerOK(s) PROVE AnswerOK(s)'
<1> USE DEF config, server, memory, process
<1>1. PICK d \in Subtasks :
        Appear(d) \/ AnsweredElsewhere(d) \/ TaskEnds(d) \/ LateRequest(d) \/ LostRequest(d)
  BY DEF ServerStep
<1>2. UNCHANGED <<config, unheard, claimed, pending, poll, thread>> /\ late' \subseteq late
  BY <1>1 DEF Appear, AnsweredElsewhere, TaskEnds, LateRequest, LostRequest
<1>3. \A th \in Threads : (On(th, s)' <=> On(th, s)) /\ (Handles(th, s)' <=> Handles(th, s))
  BY <1>2 DEF On, Handles
<1>4. (Settled(s) => Settled(s)') /\ (Alone' <=> Alone)
  <2>1. Settled(s) => Settled(s)'
    BY <1>1 DEF TypeOK, Appear, AnsweredElsewhere, TaskEnds, LateRequest, LostRequest, Take, Accepts,
                Settled
  <2> QED BY <1>2, <2>1 DEF Alone
<1>5. CASE answers'[s] = answers[s]
  <2>1. HearOK(s)'
    BY <1>2, <1>3, <1>4, <1>5 DEF AnswerOK, HearOK
  <2>2. OneOK(s) => OneOK(s)'
    BY <1>2, <1>3, <1>5 DEF OneOK
  <2> QED BY <1>4, <2>1, <2>2 DEF AnswerOK
<1>6. CASE answers'[s] # answers[s]
  <2>1. s \in late /\ Settled(s)' /\ s \in unheard'
    <3>1. LateRequest(d) /\ Accepts(d) /\ Take(d)
      BY <1>1, <1>6 DEF Appear, AnsweredElsewhere, TaskEnds, LateRequest, LostRequest
    <3>2. s = d
      BY <1>6, <3>1, TakeTypes
    <3> QED BY <1>2, <3>1, <3>2, TakeTypes DEF AnswerOK, HearOK, LateRequest, Settled
  <2>2. HearOK(s)'
    BY <1>2, <1>3, <2>1 DEF AnswerOK, HearOK
  <2>3. OneOK(s) => OneOK(s)'
    BY <1>2, <1>3, <2>1 DEF OneOK
  <2> QED BY <1>4, <2>2, <2>3 DEF AnswerOK
<1> QED BY <1>5, <1>6

LEMMA PollAnswers ==
  ASSUME TypeOK, PollStep, NEW s \in Subtasks, BaseOK(s), AnswerOK(s) PROVE AnswerOK(s)'
<1> USE DEF config, server, memory, process
<1>1. CASE Ask \/ Reconcile
  <2>1. UNCHANGED <<config, status, answers, late, unheard, thread>>
    BY <1>1 DEF Ask, Reconcile
  <2>2. \A th \in Threads : (On(th, s)' <=> On(th, s)) /\ (Handles(th, s)' <=> Handles(th, s))
    BY <2>1 DEF On, Handles
  <2>3. (Settled(s)' <=> Settled(s)) /\ (Alone' <=> Alone)
    BY <2>1 DEF Settled, Alone
  <2>4. HearOK(s)'
    BY <2>1, <2>2, <2>3 DEF AnswerOK, HearOK
  <2>5. CASE Ask
    <3>1. s \in poll'.todo => ~Settled(s)
      BY <2>5 DEF Ask, Listed, Settled
    <3>2. OneOK(s) => OneOK(s)'
      BY <2>1, <2>2, <2>5, <3>1 DEF OneOK, Ask, AnswerOK, HearOK
    <3> QED BY <2>3, <2>4, <3>2 DEF AnswerOK
  <2>6. CASE Reconcile
    <3>1. pending' \subseteq pending /\ poll'.todo = poll.todo \ claimed
      BY <2>6 DEF Reconcile, Candidates, Asleep
    <3>2. OneOK(s) => OneOK(s)'
      BY <2>1, <2>2, <3>1 DEF OneOK
    <3> QED BY <2>3, <2>4, <3>2 DEF AnswerOK
  <2> QED BY <1>1, <2>5, <2>6
<1>2. ASSUME NEW d \in Subtasks, NEW th \in Threads, Claim(d, th) PROVE AnswerOK(s)'
  <2>1. /\ UNCHANGED <<config, status, answers, late, unheard>>
        /\ poll.at = "claiming" /\ d \in poll.todo /\ claimed' = claimed \cup {d}
        /\ autoSubmit => pending' = pending
        /\ poll'.todo \subseteq poll.todo
    BY <1>2 DEF Claim, Asleep, TypeOK
  <2>2. /\ thread[th] = Idle
        /\ thread'[th] = [kind |-> "handler", subtask |-> d, at |-> "working"]
        /\ \A o \in Threads \ {th} : thread'[o] = thread[o]
    BY <1>2, NewThreads, StartTypes DEF Claim
  <2>3. \A o \in Threads : On(o, s)' => (On(o, s) /\ thread'[o] = thread[o]) \/ (o = th /\ s = d)
    BY <2>2 DEF On
  <2>4. \A o \in Threads : On(o, s) => On(o, s)' /\ thread'[o] = thread[o]
    BY <2>2 DEF On
  <2>5. (Settled(s)' <=> Settled(s)) /\ (Alone' <=> Alone)
    BY <2>1 DEF Settled, Alone
  <2>6. HearOK(s)'
    BY <2>1, <2>2, <2>3, <2>5 DEF AnswerOK, HearOK
  <2>7. s = d => ~Known(s)
    BY <2>1 DEF BaseOK, ListingOK
  <2>8. Alone /\ OneOK(s) => OneOK(s)'
    <3> SUFFICES ASSUME Alone, OneOK(s) PROVE OneOK(s)'
      OBVIOUS
    <3>1. \A o, other \in Threads : On(o, s)' /\ On(other, s)' => o = other
      BY <2>3, <2>7 DEF OneOK, Known
    <3>2. \A o \in Threads : Handles(o, s)' => s \notin pending'
      BY <2>1, <2>3, <2>7 DEF OneOK, Known, Handles, Alone
    <3>3. answers'[s] # 0 /\ s \notin unheard' => s # d
      BY <2>1 DEF OneOK
    <3>4. answers'[s] # 0 /\ s \notin unheard' =>
            /\ \A o \in Threads : On(o, s)' => thread'[o].at = "taken"
            /\ s \in pending' => \E o \in Threads : On(o, s)'
            /\ s \notin poll'.todo
      BY <2>1, <2>3, <2>4, <3>3 DEF OneOK, Alone
    <3> QED BY <2>1, <3>1, <3>2, <3>4 DEF OneOK
  <2> QED BY <2>5, <2>6, <2>8 DEF AnswerOK
<1> QED BY <1>1, <1>2 DEF PollStep

\* A thread that is on a subtask and does not yet know the server's word.
LEMMA NotHeard ==
  ASSUME NEW s \in Subtasks, NEW th \in Threads, On(th, s), thread[th].at # "taken", OneOK(s)
  PROVE  answers[s] = 0 \/ s \in unheard
BY DEF OneOK

LEMMA HandlerAnswers ==
  ASSUME TypeOK, NEW th \in Threads, HandlerStep(th), NEW s \in Subtasks, AnswerOK(s)
  PROVE  AnswerOK(s)'
<1> USE DEF config, server, memory, process
<1>1. CASE ~On(th, s)
  BY <1>1, ThreadFrame, AnswerFrame
<1>2. CASE On(th, s)
  <2>1. /\ thread[th] # Idle /\ thread[th].at \in {"working", "prompt"}
        /\ UNCHANGED <<config, status, answers, late, unheard, poll>>
    BY <1>2 DEF HandlerStep, CodexSubmits, CodexAsksForReview, CodexFails, PromptAnswered,
                PromptSkipped, At
  <2>2. \/ End(th)
        \/ pending' = pending /\ (Go(th, "send") \/ Go(th, "prompt"))
    BY DEF HandlerStep, CodexSubmits, CodexAsksForReview, CodexFails, PromptAnswered,
           PromptSkipped, GiveBack
  <2>3. \A o \in Threads \ {th} : thread'[o] = thread[o]
    BY <2>1, <2>2, GoTypes, EndTypes
  <2>4. CASE End(th)
    <3>1. thread'[th] = Idle
      BY <2>4, EndTypes
    <3>2. \A o \in Threads : On(o, s)' => On(o, s) /\ o # th /\ thread'[o] = thread[o]
      BY <2>3, <3>1 DEF On
    <3>3. (Settled(s)' <=> Settled(s)) /\ (Alone' <=> Alone)
      BY <2>1 DEF Settled, Alone
    <3>4. HearOK(s)'
      BY <2>1, <3>2, <3>3 DEF AnswerOK, HearOK
    <3>5. OneOK(s) => OneOK(s)'
      <4> SUFFICES ASSUME OneOK(s) PROVE OneOK(s)'
        OBVIOUS
      <4>1. \A o \in Threads : ~On(o, s)'
        BY <1>2, <3>2 DEF OneOK
      <4>2. answers'[s] = 0 \/ s \in unheard'
        BY <1>2, <2>1, NotHeard
      <4> QED BY <4>1, <4>2 DEF OneOK, Handles
    <3> QED BY <3>3, <3>4, <3>5 DEF AnswerOK
  <2>5. CASE pending' = pending /\ (Go(th, "send") \/ Go(th, "prompt"))
    <3>1. /\ thread'[th] # Idle /\ thread'[th].at \in {"send", "prompt"}
          /\ thread'[th].kind = thread[th].kind
      BY <2>1, <2>5, GoTypes
    <3>2. \A o \in Threads : On(o, s)' => On(o, s) /\ (o = th \/ thread'[o] = thread[o])
      BY <1>2, <2>3 DEF On
    <3>3. (Settled(s)' <=> Settled(s)) /\ (Alone' <=> Alone)
      BY <2>1 DEF Settled, Alone
    <3>4. HearOK(s)'
      BY <2>1, <3>1, <3>2, <3>3 DEF AnswerOK, HearOK
    <3>5. OneOK(s) => OneOK(s)'
      <4> SUFFICES ASSUME OneOK(s) PROVE OneOK(s)'
        OBVIOUS
      <4>1. \A o \in Threads : Handles(o, s)' => Handles(o, s)
        BY <3>1, <3>2 DEF Handles
      <4>2. answers'[s] = 0 \/ s \in unheard'
        BY <1>2, <2>1, NotHeard
      <4> QED BY <2>5, <3>2, <4>1, <4>2 DEF OneOK
    <3> QED BY <3>3, <3>4, <3>5 DEF AnswerOK
  <2> QED BY <2>2, <2>4, <2>5
<1> QED BY <1>1, <1>2

\* A request that goes on.
LEMMA GoAnswers ==
  ASSUME TypeOK, NEW th \in Threads, NEW s \in Subtasks, On(th, s), AnswerOK(s), BaseOK(s),
         UNCHANGED <<config, claimed, pending, poll>>,
         \/ Send(th) \/ Arrives(th) \/ NoAnswer(th)
  PROVE  AnswerOK(s)'
<1> USE DEF config, server, memory, process
<1>1. thread[th] # Idle /\ s = thread[th].subtask
  BY DEF On
<1>2. PICK place \in {"sent", "taken", "refused", "failed"} : Go(th, place)
  BY DEF Send, Arrives, NoAnswer
<1>3. /\ thread'[th] # Idle /\ thread'[th].at = place /\ thread'[th].kind = thread[th].kind
      /\ \A o \in Threads \ {th} : thread'[o] = thread[o]
  BY <1>1, <1>2, GoTypes
<1>4. /\ \A o \in Threads : On(o, s)' => On(o, s) /\ (o = th \/ thread'[o] = thread[o])
      /\ \A o \in Threads : Handles(o, s)' => Handles(o, s)
  BY <1>3, On(th, s) DEF On, Handles
<1>5. Alone' <=> Alone
  BY DEF Alone
<1>6. CASE Send(th) \/ (Arrives(th) /\ ~Accepts(s))
  <2>1. UNCHANGED <<status, answers, late, unheard>> /\ thread[th].at \in {"send", "sent"}
    BY <1>1, <1>6 DEF Send, Arrives, At
  <2>2. thread'[th].at # "failed"
    BY <1>1, <1>6, GoTypes DEF Send, Arrives
  <2>3. HearOK(s)'
    BY <1>4, <2>1, <2>2 DEF AnswerOK, HearOK, Settled
  <2>4. OneOK(s) => answers'[s] = 0 \/ s \in unheard'
    BY <2>1, NotHeard
  <2>5. OneOK(s) => OneOK(s)'
    BY <1>4, <2>4 DEF OneOK
  <2> QED BY <1>5, <2>3, <2>5 DEF AnswerOK
<1>7. CASE NoAnswer(th)
  <2>1. /\ UNCHANGED <<status, answers>> /\ late' \subseteq late \cup {s}
        /\ unheard' = unheard \cup {s}
    BY <1>1, <1>7 DEF NoAnswer
  <2>2. HearOK(s)'
    BY <2>1 DEF AnswerOK, HearOK, Settled
  <2>3. OneOK(s) => OneOK(s)'
    BY <1>4, <2>1 DEF OneOK
  <2> QED BY <1>5, <2>2, <2>3 DEF AnswerOK
<1>8. CASE Arrives(th) /\ Accepts(s)
  <2>1. /\ Take(s) /\ UNCHANGED <<late, unheard>> /\ thread[th].at = "sent"
        /\ Go(th, "taken")
    BY <1>1, <1>8 DEF Arrives, At
  <2>2. status'[s] = "answered" /\ answers'[s] = IF answers[s] = 0 THEN 1 ELSE 2
    BY <2>1, TakeTypes
  <2>3. thread'[th].at = "taken"
    BY <1>1, <2>1, GoTypes
  <2>4. HearOK(s)'
    BY <1>4, <2>1, <2>2, <2>3 DEF AnswerOK, HearOK, Settled
  <2>5. OneOK(s) => OneOK(s)'
    <3> SUFFICES ASSUME OneOK(s) PROVE OneOK(s)'
      OBVIOUS
    <3>1. s \in unheard' \/ answers'[s] = 1
      BY <2>1, <2>2, NotHeard
    <3>2. \A o \in Threads : On(o, s)' => thread'[o].at = "taken"
      BY <1>4, <2>3 DEF OneOK
    <3>3. On(th, s)'
      BY <1>1, <1>2, <1>3, GoTypes DEF On
    <3>4. s \in poll.todo => poll.at = "listed" /\ s \in claimed
      BY DEF BaseOK, ListingOK, Known, TypeOK
    <3> QED BY <1>4, <3>1, <3>2, <3>3, <3>4 DEF OneOK
  <2> QED BY <1>5, <2>4, <2>5 DEF AnswerOK
<1> QED BY <1>6, <1>7, <1>8

LEMMA RequestAnswers ==
  ASSUME TypeOK, NEW th \in Threads, RequestStep(th), NEW s \in Subtasks, BaseOK(s), AnswerOK(s)
  PROVE  AnswerOK(s)'
<1> USE DEF config, server, memory, process
<1>1. CASE ~On(th, s)
  BY <1>1, ThreadFrame, AnswerFrame
<1>2. CASE On(th, s) /\ (Send(th) \/ Arrives(th) \/ NoAnswer(th))
  BY <1>2, GoAnswers DEF Send, Arrives, NoAnswer
<1>3. CASE On(th, s) /\ (Succeeds(th) \/ Fails(th))
  <2>1. /\ thread[th] # Idle /\ s = thread[th].subtask
        /\ UNCHANGED <<config, status, answers, late, unheard, poll>> /\ End(th)
    BY <1>3 DEF Succeeds, Fails, GiveBack, On
  <2>2. thread'[th] = Idle /\ \A o \in Threads \ {th} : thread'[o] = thread[o]
    BY <2>1, EndTypes
  <2>3. \A o \in Threads : On(o, s)' => On(o, s) /\ o # th /\ thread'[o] = thread[o]
    BY <2>2 DEF On
  <2>4. (Settled(s)' <=> Settled(s)) /\ (Alone' <=> Alone)
    BY <2>1 DEF Settled, Alone
  <2>5. HearOK(s)'
    BY <2>1, <2>3, <2>4 DEF AnswerOK, HearOK
  <2>6. OneOK(s) => OneOK(s)'
    <3> SUFFICES ASSUME OneOK(s) PROVE OneOK(s)'
      OBVIOUS
    <3>1. \A o \in Threads : ~On(o, s)' /\ ~Handles(o, s)'
      BY <1>3, <2>3 DEF OneOK, Handles
    <3>2. CASE Fails(th)
      <4>1. answers'[s] = 0 \/ s \in unheard'
        BY <1>3, <2>1, <3>2, NotHeard DEF Fails, At
      <4> QED BY <3>1, <4>1 DEF OneOK
    <3>3. CASE Succeeds(th)
      <4>1. claimed' = claimed /\ s \notin pending'
        BY <1>3, <2>1, <3>3, SubtaskOf, BusyFields DEF Succeeds, OneOK, Handles
      <4> QED BY <2>1, <3>1, <4>1 DEF OneOK
    <3> QED BY <1>3, <3>2, <3>3
  <2> QED BY <2>4, <2>5, <2>6 DEF AnswerOK
<1> QED BY <1>1, <1>2, <1>3 DEF RequestStep

LEMMA PostAnswers ==
  ASSUME TypeOK, NEW d \in Subtasks, NEW th \in Threads, PostBegins(d, th), NEW s \in Subtasks,
         AnswerOK(s)
  PROVE  AnswerOK(s)'
<1> USE DEF config, server, memory, process
<1>1. /\ UNCHANGED <<config, status, answers, late, unheard, claimed, pending, poll>>
      /\ d \in pending /\ Cardinality(Posts) < Tabs
  BY DEF PostBegins
<1>2. /\ thread[th] = Idle
      /\ thread'[th] = [kind |-> "post", subtask |-> d, at |-> "send"]
      /\ \A o \in Threads \ {th} : thread'[o] = thread[o]
  BY NewThreads, StartTypes DEF PostBegins
<1>3. CASE s # d
  <2>1. \A o \in Threads : thread'[o] = thread[o] \/ (~On(o, s) /\ ~On(o, s)')
    BY <1>2, <1>3 DEF On
  <2>2. Same(s)
    BY <1>1, <2>1 DEF Same
  <2> QED BY <2>2, AnswerFrame
<1>4. CASE s = d
  <2>1. \A o \in Threads : On(o, s)' => o = th \/ (On(o, s) /\ thread'[o] = thread[o])
    BY <1>2 DEF On
  <2>2. (Settled(s)' <=> Settled(s)) /\ (Alone' <=> Alone)
    BY <1>1 DEF Settled, Alone
  <2>3. HearOK(s)'
    BY <1>1, <1>2, <2>1, <2>2 DEF AnswerOK, HearOK
  <2>4. Alone /\ OneOK(s) => OneOK(s)'
    <3> SUFFICES ASSUME Alone, OneOK(s) PROVE OneOK(s)'
      OBVIOUS
    <3>1. Posts = {}
      <4>1. IsFiniteSet(Posts)
        BY ThreadsAssumption, FS_Subset DEF Posts
      <4>2. Cardinality(Posts) = 0
        BY <1>1, <4>1, FS_CardinalityType, TabsAssumption DEF Alone
      <4> QED BY <4>1, <4>2, FS_EmptySet
    <3>2. \A o \in Threads : ~On(o, s)
      <4> SUFFICES ASSUME NEW o \in Threads, On(o, s) PROVE FALSE
        OBVIOUS
      <4>1. thread[o].kind \in {"handler", "post"}
        BY SubtaskOf, BusyFields DEF On
      <4>2. thread[o].kind # "handler"
        BY <1>1, <1>4 DEF OneOK, Handles
      <4> QED BY <3>1, <4>1, <4>2 DEF Posts
    <3>3. answers'[s] = 0 \/ s \in unheard'
      BY <1>1, <1>4, <3>2 DEF OneOK
    <3>4. \A o \in Threads : ~Handles(o, s)'
      BY <1>2, <2>1, <3>2 DEF Handles
    <3> QED BY <2>1, <3>2, <3>3, <3>4 DEF OneOK
  <2> QED BY <2>2, <2>3, <2>4 DEF AnswerOK
<1> QED BY <1>3, <1>4

LEMMA CrashAnswers ==
  ASSUME TypeOK, Crash \/ Restart, NEW s \in Subtasks, AnswerOK(s) PROVE AnswerOK(s)'
<1> USE DEF config, server, memory, process
<1>1. CASE Restart
  BY <1>1, AnswerFrame DEF Restart, Same
<1>2. CASE Crash
  <2>1. /\ UNCHANGED <<config, status, answers>> /\ unheard \subseteq unheard'
        /\ s \in late' => s \in late \/ s \in unheard'
        /\ pending' = {} /\ poll'.todo = {}
    BY <1>2 DEF Crash, Asleep
  <2>2. \A th \in Threads : ~On(th, s)' /\ ~Handles(th, s)'
    BY <1>2 DEF Crash, On, Handles
  <2>3. (Settled(s)' <=> Settled(s)) /\ (Alone' <=> Alone)
    BY <2>1 DEF Settled, Alone
  <2>4. HearOK(s)'
    BY <2>1, <2>2, <2>3 DEF AnswerOK, HearOK
  <2>5. OneOK(s) => OneOK(s)'
    BY <2>1, <2>2 DEF OneOK
  <2> QED BY <2>3, <2>4, <2>5 DEF AnswerOK
<1> QED BY <1>1, <1>2
-----------------------------------------------------------------------------
IInv == Base /\ \A s \in Subtasks : AnswerOK(s)

LEMMA AnswerInvariance == Spec => []IInv
<1>1. Init => IInv
  <2> SUFFICES ASSUME Init PROVE IInv
    OBVIOUS
  <2>1. ASSUME NEW s \in Subtasks PROVE AnswerOK(s)
    BY DEF Init, AnswerOK, HearOK, OneOK, On, Handles
  <2>2. Base
    <3>1. ASSUME NEW s \in Subtasks PROVE BaseOK(s)
      BY DEF Init, BaseOK, ClaimOK, PlaceOK, ListingOK, Known, On, Handles, Asleep
    <3> QED BY <3>1, InitTypes DEF Base
  <2> QED BY <2>1, <2>2 DEF IInv
<1>2. Base /\ Base' /\ IInv /\ [Next]_vars => IInv'
  <2> SUFFICES ASSUME Base, IInv, [Next]_vars, NEW s \in Subtasks PROVE AnswerOK(s)'
    BY DEF IInv
  <2>1. TypeOK /\ BaseOK(s) /\ AnswerOK(s)
    BY DEF Base, IInv
  <2>2. CASE PollStep
    BY <2>1, <2>2, PollAnswers
  <2>3. CASE ServerStep
    BY <2>1, <2>3, ServerAnswers
  <2>4. CASE Crash \/ Restart
    BY <2>1, <2>4, CrashAnswers
  <2>5. ASSUME NEW th \in Threads, HandlerStep(th) \/ RequestStep(th) PROVE AnswerOK(s)'
    BY <2>1, <2>5, HandlerAnswers, RequestAnswers
  <2>6. ASSUME NEW d \in Subtasks, NEW th \in Threads, PostBegins(d, th) PROVE AnswerOK(s)'
    BY <2>1, <2>6, PostAnswers
  <2>7. CASE UNCHANGED vars
    BY <2>1, <2>7, AnswerFrame DEF vars, Same, server, memory, process
  <2>8. ASSUME NEW d \in Subtasks, OrphanEnds(d) PROVE AnswerOK(s)'
    BY <2>1, <2>8, AnswerFrame DEF OrphanEnds, Same, server, memory
  <2> QED BY <2>2, <2>3, <2>4, <2>5, <2>6, <2>7, <2>8 DEF Next
<1> QED BY <1>1, <1>2, BaseInvariance, PTL DEF Spec

\* With automatic submission and one window of the console, a second answer is accepted
\* only after one whose acceptance the runner did not hear of, whatever stale polls,
\* failures and deaths of the process come in between.
THEOREM AnswersOnceHolds == Spec => []AnswersOnce
<1>1. IInv => AnswersOnce
  <2> SUFFICES ASSUME IInv, autoSubmit, Tabs <= 1, NEW s \in Subtasks \ unheard
               PROVE  answers[s] <= 1
    BY DEF AnswersOnce
  <2>1. OneOK(s)
    BY DEF IInv, AnswerOK, Alone
  <2> QED BY <2>1 DEF OneOK
<1> QED BY <1>1, AnswerInvariance, PTL
-----------------------------------------------------------------------------
(* What is left of AnsweredGoesAway without fairness: the review of an      *)
(* answered subtask can come back, but only so often.                       *)

InHand(s) == \E th \in Threads : Handles(th, s)

\* How often the listing in hand and the handler at work may still show the subtask.
ChancesLeft(s) == (IF s \in poll.todo THEN 2 ELSE 0) + (IF InHand(s) THEN 1 ELSE 0)

\* The review of an answered subtask comes back only at the cost of such a chance, and
\* no step gives a new one (pending_manual is filled by claims and by handlers that end).
AnsweredRunsOut ==
  [][\A s \in Subtasks : Settled(s) =>
       /\ Settled(s)' /\ ChancesLeft(s)' <= ChancesLeft(s)
       /\ s \in pending' \ pending => ChancesLeft(s)' < ChancesLeft(s)]_vars

\* A request of the console never works on the subtask or prompts for it.
PostsSend ==
  \A th \in Threads : thread[th] # Idle /\ thread[th].at \in {"working", "prompt"} =>
    thread[th].kind = "handler"

LEMMA PostsSendNext == TypeOK /\ PostsSend /\ [Next]_vars => PostsSend'
<1> SUFFICES ASSUME TypeOK, PostsSend, [Next]_vars PROVE PostsSend'
  OBVIOUS
<1> USE DEF config, server, memory, process
<1>1. CASE UNCHANGED thread
  BY <1>1 DEF PostsSend
<1>2. ASSUME NEW s \in Subtasks, NEW th \in Threads, Claim(s, th) \/ PostBegins(s, th)
      PROVE  PostsSend'
  <2>1. PICK t \in {[kind |-> "handler", subtask |-> s, at |-> "working"],
                    [kind |-> "post", subtask |-> s, at |-> "send"]} :
          thread' = [thread EXCEPT ![th] = t]
    BY <1>2 DEF Claim, PostBegins
  <2>2. thread'[th] = t /\ \A o \in Threads \ {th} : thread'[o] = thread[o]
    BY <2>1, NewThreads, StartTypes
  <2>3. t.at \in {"working", "prompt"} => t.kind = "handler"
    BY <2>1
  <2> QED BY <2>2, <2>3 DEF PostsSend
<1>3. ASSUME NEW th \in Threads, thread[th] # Idle,
             NEW place \in {"prompt", "send", "sent", "taken", "refused", "failed"},
             Go(th, place), place = "prompt" => thread[th].kind = "handler"
      PROVE  PostsSend'
  BY <1>3, GoTypes DEF PostsSend
<1>4. ASSUME NEW th \in Threads, End(th) PROVE PostsSend'
  BY <1>4, EndTypes DEF PostsSend
<1>5. ASSUME NEW th \in Threads, HandlerStep(th) PROVE PostsSend'
  <2>1. thread[th] # Idle /\ thread[th].kind = "handler"
    BY <1>5 DEF PostsSend, HandlerStep, CodexSubmits, CodexAsksForReview, CodexFails,
                PromptAnswered, PromptSkipped, At
  <2>2. Go(th, "send") \/ Go(th, "prompt") \/ End(th)
    BY <1>5 DEF HandlerStep, CodexSubmits, CodexAsksForReview, CodexFails, PromptAnswered,
                PromptSkipped, GiveBack
  <2> QED BY <1>3, <1>4, <2>1, <2>2
<1>6. ASSUME NEW th \in Threads, RequestStep(th) PROVE PostsSend'
  <2>1. thread[th] # Idle
    BY <1>6 DEF RequestStep, Send, Arrives, NoAnswer, Succeeds, Fails, At
  <2>2. Go(th, "sent") \/ Go(th, "taken") \/ Go(th, "refused") \/ Go(th, "failed") \/ End(th)
    BY <1>6 DEF RequestStep, Send, Arrives, NoAnswer, Succeeds, Fails, GiveBack
  <2> QED BY <1>3, <1>4, <2>1, <2>2
<1>7. CASE Crash
  BY <1>7 DEF Crash, PostsSend
<1>8. CASE Ask \/ Reconcile \/ ServerStep \/ Restart \/ UNCHANGED vars
  BY <1>1, <1>8 DEF Ask, Reconcile, ServerStep, Appear, AnsweredElsewhere, TaskEnds, LateRequest,
                    LostRequest, Restart, vars
<1>9. ASSUME NEW s \in Subtasks, OrphanEnds(s) PROVE PostsSend'
  BY <1>1, <1>9 DEF OrphanEnds
<1> QED BY <1>2, <1>5, <1>6, <1>7, <1>8, <1>9 DEF Next, PollStep

\* What a step may do about a settled subtask.
RunsOut(s) ==
  /\ Settled(s)'
  /\ s \in poll'.todo => s \in poll.todo
  /\ InHand(s)' => InHand(s) \/ (s \in poll.todo /\ s \notin poll'.todo)
  /\ s \in pending' /\ s \notin pending =>
       (s \in poll.todo /\ s \notin poll'.todo) \/ (InHand(s) /\ ~InHand(s)')

LEMMA FewerChances ==
  ASSUME NEW s \in Subtasks, RunsOut(s)
  PROVE  /\ ChancesLeft(s)' <= ChancesLeft(s)
         /\ s \in pending' \ pending => ChancesLeft(s)' < ChancesLeft(s)
BY DEF RunsOut, ChancesLeft

\* A thread that ends or goes on.
LEMMA ThreadRunsOut ==
  ASSUME TypeOK, PostsSend, NEW th \in Threads, HandlerStep(th) \/ RequestStep(th),
         NEW s \in Subtasks, BaseOK(s), Settled(s)
  PROVE  RunsOut(s)
<1> USE DEF config, server, memory, process
<1>1. thread[th] # Idle /\ poll' = poll
  BY DEF HandlerStep, CodexSubmits, CodexAsksForReview, CodexFails, PromptAnswered, PromptSkipped,
         RequestStep, Send, Arrives, NoAnswer, Succeeds, Fails, At
<1>2. Settled(s)'
  <2>1. CASE Arrives(th) /\ Accepts(thread[th].subtask)
    BY <1>1, <2>1, TakeTypes, SubtaskOf DEF Arrives, Settled
  <2>2. CASE ~(Arrives(th) /\ Accepts(thread[th].subtask))
    <3>1. status' = status
      BY <2>2 DEF HandlerStep, CodexSubmits, CodexAsksForReview, CodexFails, PromptAnswered,
                  PromptSkipped, RequestStep, Send, Arrives, NoAnswer, Succeeds, Fails
    <3> QED BY <3>1 DEF Settled
  <2> QED BY <2>1, <2>2
<1>3. \/ \E place \in {"prompt", "send", "sent", "taken", "refused", "failed"} : Go(th, place)
      \/ End(th)
  BY DEF HandlerStep, CodexSubmits, CodexAsksForReview, CodexFails, PromptAnswered, PromptSkipped,
         RequestStep, Send, Arrives, NoAnswer, Succeeds, Fails, GiveBack
<1>4. \A o \in Threads : Handles(o, s)' => Handles(o, s) /\ (o = th => ~End(th))
  <2>1. CASE End(th)
    BY <2>1, EndTypes DEF Handles, On
  <2>2. ASSUME NEW place \in {"prompt", "send", "sent", "taken", "refused", "failed"}, Go(th, place),
               ~End(th)
        PROVE  \A o \in Threads : Handles(o, s)' => Handles(o, s)
    BY <1>1, <2>2, GoTypes DEF Handles, On
  <2> QED BY <1>3, <2>1, <2>2
<1>5. ASSUME s \in pending', s \notin pending
      PROVE  InHand(s) /\ ~InHand(s)'
  <2>1. End(th) /\ s = thread[th].subtask /\ thread[th].kind = "handler"
    BY <1>5 DEF HandlerStep, CodexSubmits, CodexAsksForReview, CodexFails, PromptAnswered,
                PromptSkipped, RequestStep, Send, Arrives, NoAnswer, Succeeds, Fails, GiveBack,
                PostsSend, At
  <2>2. Handles(th, s)
    BY <1>1, <2>1 DEF Handles, On
  <2>3. \A o \in Threads : Handles(o, s) => o = th
    BY <2>2 DEF BaseOK, ClaimOK
  <2> QED BY <1>4, <2>1, <2>2, <2>3 DEF InHand
<1> QED BY <1>1, <1>2, <1>4, <1>5 DEF RunsOut, InHand

LEMMA StepRunsOut ==
  ASSUME Base, PostsSend, [Next]_vars, NEW s \in Subtasks, Settled(s)
  PROVE  RunsOut(s)
<1> USE DEF config, server, memory, process
<1>1. TypeOK /\ BaseOK(s)
  BY DEF Base
<1>2. CASE UNCHANGED thread /\ UNCHANGED status /\ pending' \subseteq pending
           /\ (s \in poll'.todo => s \in poll.todo)
  BY <1>2 DEF RunsOut, InHand, Handles, On, Settled
<1>3. CASE Ask
  BY <1>2, <1>3 DEF Ask, Listed, Settled
<1>4. CASE Reconcile
  BY <1>2, <1>4 DEF Reconcile, Candidates, Asleep
<1>5. ASSUME NEW d \in Subtasks, NEW th \in Threads, Claim(d, th)
      PROVE  RunsOut(s)
  <2>1. /\ status' = status /\ pending' \subseteq pending \cup {d}
        /\ d \in poll.todo /\ poll'.todo = poll.todo \ {d}
    BY <1>1, <1>5 DEF Claim, Asleep, TypeOK
  <2>2. /\ thread'[th].subtask = d
        /\ \A o \in Threads \ {th} : thread'[o] = thread[o]
    BY <1>1, <1>5, NewThreads, StartTypes DEF Claim
  <2> QED BY <2>1, <2>2 DEF RunsOut, InHand, Handles, On, Settled
<1>6. CASE ServerStep
  <2>1. UNCHANGED <<pending, poll, thread>>
    BY <1>6 DEF ServerStep, Appear, AnsweredElsewhere, TaskEnds, LateRequest, LostRequest
  <2>2. Settled(s)'
    BY <1>1, <1>6 DEF TypeOK, ServerStep, Appear, AnsweredElsewhere, TaskEnds, LateRequest,
                      LostRequest, Take, Accepts, Settled
  <2> QED BY <2>1, <2>2 DEF RunsOut, InHand, Handles, On
<1>7. CASE Crash
  <2>1. status' = status /\ pending' = {} /\ poll'.todo = {}
    BY <1>7 DEF Crash, Asleep
  <2>2. \A o \in Threads : thread'[o] = Idle
    BY <1>7 DEF Crash
  <2> QED BY <2>1, <2>2 DEF RunsOut, InHand, Handles, On, Settled
<1>8. ASSUME NEW th \in Threads, HandlerStep(th) \/ RequestStep(th)
      PROVE  RunsOut(s)
  BY <1>1, <1>8, ThreadRunsOut
<1>9. ASSUME NEW d \in Subtasks, NEW th \in Threads, PostBegins(d, th)
      PROVE  RunsOut(s)
  <2>1. UNCHANGED <<status, pending, poll>>
    BY <1>9 DEF PostBegins
  <2>2. /\ thread'[th].kind = "post"
        /\ \A o \in Threads \ {th} : thread'[o] = thread[o]
    BY <1>1, <1>9, NewThreads, StartTypes DEF PostBegins
  <2> QED BY <2>1, <2>2 DEF RunsOut, InHand, Handles, On, Settled
<1>10. CASE Restart \/ UNCHANGED vars
  BY <1>2, <1>10 DEF Restart, vars
<1>11. ASSUME NEW d \in Subtasks, OrphanEnds(d)
       PROVE  RunsOut(s)
  BY <1>2, <1>11 DEF OrphanEnds
<1> QED BY <1>3, <1>4, <1>5, <1>6, <1>7, <1>8, <1>9, <1>10, <1>11 DEF Next, PollStep

\* Whatever stale polls, late requests and deaths of the process come in between: the review
\* of an answered subtask comes back at most as often as ChancesLeft says, and never once no
\* listing in hand names the subtask and no handler works on it.
THEOREM ReviewsRunOut == Spec => AnsweredRunsOut
<1>1. Init => PostsSend
  BY DEF Init, PostsSend
<1>2. Base /\ PostsSend /\ [Next]_vars =>
        [\A s \in Subtasks : Settled(s) =>
           /\ Settled(s)' /\ ChancesLeft(s)' <= ChancesLeft(s)
           /\ s \in pending' \ pending => ChancesLeft(s)' < ChancesLeft(s)]_vars
  BY StepRunsOut, FewerChances DEF RunsOut
<1>3. Base => TypeOK
  BY DEF Base
<1> QED BY <1>1, <1>2, <1>3, BaseInvariance, PostsSendNext, PTL DEF Spec, AnsweredRunsOut
=============================================================================
