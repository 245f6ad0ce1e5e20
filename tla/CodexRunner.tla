------------------------------ MODULE CodexRunner ------------------------------
(***************************************************************************)
(* The Codex runner (taskhub-codex-runner/taskhub_codex_runner.py): a      *)
(* process on a user's machine that polls the human subtasks of that user, *)
(* lets Codex answer each of them in a thread of its own, and shows to the *)
(* user, in a web console or on the terminal, what Codex may not answer.   *)
(* Claims and reviews live in its memory only; the server knows nothing of *)
(* them.  The server appears as the status of the subtasks; other people   *)
(* may answer them there, and their tasks may end at any time.             *)
(*                                                                         *)
(* Configuration: once = dry_run = FALSE; ui and autoSubmit are fixed by   *)
(* Init.                                                                   *)
(***************************************************************************)
EXTENDS Naturals, FiniteSets

CONSTANTS
  Subtasks,
  Threads,    \* handler threads and requests of the console; bounds their number
  Tabs,       \* how many requests of the console may run at a time
  MaxCrashes  \* bounds the deaths of the process

ASSUME ThreadsAssumption == IsFiniteSet(Threads)
ASSUME TabsAssumption == Tabs \in Nat
ASSUME MaxCrashesAssumption == MaxCrashes \in Nat

VARIABLES
  ui, autoSubmit,  \* the configuration
  status,          \* of the subtasks, at the server
  answers,         \* answers of this runner the server accepted: 0, 1 or more (2)
  late,            \* subtasks with a request under way whose sender has given up
  unheard,         \* subtasks some answer to whose request never reached the runner
  up, crashes,
  orphans,         \* Codexes at work on a subtask whose runner has died
  claimed,         \* local_claimed
  pending,         \* pending_manual, the reviews
  poll,            \* the main thread: where it is and the subtasks it has in hand
  thread           \* the handlers and the requests of the console

config == <<ui, autoSubmit>>
server == <<status, answers, late>>
memory == <<claimed, pending>>
process == <<up, crashes, orphans>>
vars == <<config, server, unheard, process, memory, poll, thread>>

Idle == [kind |-> "idle"]
Busy == [kind : {"handler", "post"}, subtask : Subtasks,
         at : {"working", "prompt", "send", "sent", "taken", "refused", "failed"}]
Asleep == [at |-> "idle", todo |-> {}]

Running(kind, s) == {th \in Threads : thread[th].kind = kind /\ thread[th].subtask = s}
Posts == {th \in Threads : thread[th].kind = "post"}
At(th, place) == thread[th] # Idle /\ thread[th].at = place
Go(th, place) == thread' = [thread EXCEPT ![th].at = place]
End(th) == thread' = [thread EXCEPT ![th] = Idle]

Init ==
  /\ ui \in BOOLEAN /\ autoSubmit \in BOOLEAN
  /\ status = [s \in Subtasks |-> "absent"]
  /\ answers = [s \in Subtasks |-> 0]
  /\ late = {} /\ unheard = {}
  /\ up = TRUE /\ crashes = 0
  /\ orphans = [s \in Subtasks |-> 0]
  /\ claimed = {} /\ pending = {}
  /\ poll = Asleep
  /\ thread = [th \in Threads |-> Idle]
-----------------------------------------------------------------------------
(* The server, as the runner sees it *)

\* list_human_subtasks asks for the status of the subtask, not of its task.
Listed == {s \in Subtasks : status[s] \in {"open", "stranded"}}
\* submit_subtask_result asks for the status of the task, not of the subtask.
Accepts(s) == status[s] \in {"open", "answered"}

Take(s) ==
  /\ status' = [status EXCEPT ![s] = "answered"]
  /\ answers' = [answers EXCEPT ![s] = IF @ = 0 THEN 1 ELSE 2]

\* A round of the flow dispatches a human subtask.
Appear(s) ==
  /\ status[s] = "absent"
  /\ status' = [status EXCEPT ![s] = "open"]
  /\ UNCHANGED <<config, answers, late, unheard, process, memory, poll, thread>>

\* Someone answers in the task centre.
AnsweredElsewhere(s) ==
  /\ status[s] = "open"
  /\ status' = [status EXCEPT ![s] = "answered"]
  /\ UNCHANGED <<config, answers, late, unheard, process, memory, poll, thread>>

\* The task ends, on this answer or because another subtask failed.
TaskEnds(s) ==
  /\ Accepts(s)
  /\ status' = [status EXCEPT ![s] = IF @ = "open" THEN "stranded" ELSE "closed"]
  /\ UNCHANGED <<config, answers, late, unheard, process, memory, poll, thread>>

\* A request arrives whose sender no longer waits, or is lost.
LateRequest(s) ==
  /\ s \in late
  /\ late' \in {late, late \ {s}}
  /\ IF Accepts(s) THEN Take(s) ELSE UNCHANGED <<status, answers>>
  /\ UNCHANGED <<config, unheard, process, memory, poll, thread>>

LostRequest(s) ==
  /\ s \in late
  /\ late' = late \ {s}
  /\ UNCHANGED <<config, status, answers, unheard, process, memory, poll, thread>>
-----------------------------------------------------------------------------
(* The main thread: run_forever, poll_once *)

\* The server answers the poll; the answer is on its way.
Ask ==
  /\ up /\ poll.at = "idle"
  /\ poll' = [at |-> "listed", todo |-> Listed]
  /\ UNCHANGED <<config, server, unheard, process, memory, thread>>

\* Variant: every poll starts afresh.
NoClaims == {}
ReconciledClaims == claimed \cap poll.todo
Candidates == poll.todo \ claimed

\* Variant: reconciles the claims only.
ReconcileClaimsOnly ==
  /\ up /\ poll.at = "listed"
  /\ claimed' = ReconciledClaims
  /\ poll' = IF Candidates = {} THEN Asleep
             ELSE [at |-> "claiming", todo |-> Candidates]
  /\ UNCHANGED <<config, server, unheard, process, pending, thread>>

\* reconcile_remote_human_subtasks, and the candidates that remain.
Reconcile ==
  /\ up /\ poll.at = "listed"
  /\ pending' = pending \cap poll.todo
  /\ claimed' = ReconciledClaims
  /\ poll' = IF Candidates = {} THEN Asleep
             ELSE [at |-> "claiming", todo |-> Candidates]
  /\ UNCHANGED <<config, server, unheard, process, thread>>

\* One candidate of the loop; the thread may run from here on.
Claim(s, th) ==
  /\ up /\ poll.at = "claiming" /\ s \in poll.todo
  /\ thread[th] = Idle
  /\ claimed' = claimed \cup {s}
  /\ pending' = IF ui /\ ~autoSubmit THEN pending \cup {s} ELSE pending
  /\ thread' = [thread EXCEPT ![th] = [kind |-> "handler", subtask |-> s, at |-> "working"]]
  /\ poll' = IF poll.todo = {s} THEN Asleep ELSE [poll EXCEPT !.todo = @ \ {s}]
  /\ UNCHANGED <<config, server, unheard, process>>
-----------------------------------------------------------------------------
(* Handler threads: _handle_subtask *)

\* Variant: a failure is only logged.
OnlyLogs(th) == End(th) /\ UNCHANGED memory

\* The except branch: to the user, or back to the next poll.
GiveBack(th) ==
  /\ IF ui THEN pending' = pending \cup {thread[th].subtask} /\ UNCHANGED claimed
           ELSE claimed' = claimed \ {thread[th].subtask} /\ UNCHANGED pending
  /\ End(th)

\* find_task_context and the call of Codex, whose result says: submit or review.
CodexSubmits(th) ==
  /\ At(th, "working")
  /\ autoSubmit
  /\ Go(th, "send")
  /\ UNCHANGED <<config, server, unheard, process, memory, poll>>

CodexAsksForReview(th) ==
  /\ At(th, "working")
  /\ IF ui
     THEN pending' = pending \cup {thread[th].subtask} /\ UNCHANGED claimed /\ End(th)
     ELSE Go(th, "prompt") /\ UNCHANGED memory
  /\ UNCHANGED <<config, server, unheard, process, poll>>

CodexFails(th) ==
  /\ At(th, "working")
  /\ GiveBack(th)
  /\ UNCHANGED <<config, server, unheard, process, poll>>

\* prompt_for_manual_result: an answer, or nothing.
PromptAnswered(th) ==
  /\ At(th, "prompt")
  /\ Go(th, "send")
  /\ UNCHANGED <<config, server, unheard, process, memory, poll>>

PromptSkipped(th) ==
  /\ At(th, "prompt")
  /\ claimed' = claimed \ {thread[th].subtask}
  /\ End(th)
  /\ UNCHANGED <<config, server, unheard, process, pending, poll>>
-----------------------------------------------------------------------------
(* Requests of the console: POST /api/manual-results *)

\* Variant: takes the review away before the answer is accepted.
PostPopsReview(s, th) ==
  /\ up /\ ui
  /\ s \in pending
  /\ Cardinality(Posts) < Tabs
  /\ thread[th] = Idle
  /\ pending' = pending \ {s}
  /\ thread' = [thread EXCEPT ![th] = [kind |-> "post", subtask |-> s, at |-> "send"]]
  /\ UNCHANGED <<config, server, unheard, process, claimed, poll>>

PostBegins(s, th) ==
  /\ up /\ ui
  /\ s \in pending
  /\ Cardinality(Posts) < Tabs
  /\ thread[th] = Idle
  /\ thread' = [thread EXCEPT ![th] = [kind |-> "post", subtask |-> s, at |-> "send"]]
  /\ UNCHANGED <<config, server, unheard, process, memory, poll>>
-----------------------------------------------------------------------------
(* TaskHubClient._request, for both *)

Send(th) ==
  /\ At(th, "send")
  /\ Go(th, "sent")
  /\ UNCHANGED <<config, server, unheard, process, memory, poll>>

Arrives(th) ==
  /\ At(th, "sent")
  /\ IF Accepts(thread[th].subtask)
     THEN Take(thread[th].subtask) /\ Go(th, "taken")
     ELSE UNCHANGED <<status, answers>> /\ Go(th, "refused")
  /\ UNCHANGED <<config, late, unheard, process, memory, poll>>

\* A broken connection or 30 seconds without an answer.
NoAnswer(th) ==
  /\ At(th, "sent") \/ At(th, "taken")
  /\ late' = IF At(th, "sent") THEN late \cup {thread[th].subtask} ELSE late
  /\ unheard' = unheard \cup {thread[th].subtask}
  /\ Go(th, "failed")
  /\ UNCHANGED <<config, status, answers, process, memory, poll>>

\* Variant: the claim is released after success, not by the next poll.
ReleasesClaim(th) ==
  /\ At(th, "taken")
  /\ pending' = IF thread[th].kind = "post" THEN pending \ {thread[th].subtask} ELSE pending
  /\ claimed' = claimed \ {thread[th].subtask}
  /\ End(th)
  /\ UNCHANGED <<config, server, unheard, process, poll>>

\* submit_subtask_result has returned.
Succeeds(th) ==
  /\ At(th, "taken")
  /\ pending' = IF thread[th].kind = "post" THEN pending \ {thread[th].subtask} ELSE pending
  /\ End(th)
  /\ UNCHANGED <<config, server, unheard, process, claimed, poll>>

\* submit_subtask_result has raised; the console answers 502 and keeps the review.
Fails(th) ==
  /\ At(th, "refused") \/ At(th, "failed")
  /\ IF thread[th].kind = "handler" THEN GiveBack(th) ELSE End(th) /\ UNCHANGED memory
  /\ UNCHANGED <<config, server, unheard, process, poll>>
-----------------------------------------------------------------------------
(* The process *)

\* Variant: remembers threads instead of subtasks.
ThreadsInFlight(place) == {th \in Threads : At(th, place)}

InFlight(place) == {s \in Subtasks : \E th \in Threads :
                      At(th, place) /\ thread[th].subtask = s}

\* The handlers for which Codex works.
AtWork(s) == {th \in Running("handler", s) : thread[th].at = "working"}

\* Stopped, or ended by an error of the poll, which nothing catches.  Its threads end with
\* it, the Codexes it has started do not: each works on, for nobody.
Crash ==
  /\ up /\ crashes < MaxCrashes
  /\ up' = FALSE /\ crashes' = crashes + 1
  /\ claimed' = {} /\ pending' = {}
  /\ poll' = Asleep
  /\ thread' = [th \in Threads |-> Idle]
  /\ orphans' = [s \in Subtasks |-> orphans[s] + Cardinality(AtWork(s))]
  /\ late' = late \cup InFlight("sent")
  /\ unheard' = unheard \cup InFlight("sent") \cup InFlight("taken")
  /\ UNCHANGED <<config, status, answers>>

Restart ==
  /\ ~up /\ up' = TRUE
  /\ UNCHANGED <<config, server, unheard, crashes, orphans, memory, poll, thread>>

\* A Codex without its runner ends, whenever: its time limit died with the runner.
OrphanEnds(s) ==
  /\ orphans[s] > 0
  /\ orphans' = [orphans EXCEPT ![s] = @ - 1]
  /\ UNCHANGED <<config, server, unheard, up, crashes, memory, poll, thread>>
-----------------------------------------------------------------------------
HandlerStep(th) ==
  \/ CodexSubmits(th) \/ CodexAsksForReview(th) \/ CodexFails(th)
  \/ PromptAnswered(th) \/ PromptSkipped(th)
RequestStep(th) ==
  \/ Send(th) \/ Arrives(th) \/ NoAnswer(th) \/ Succeeds(th) \/ Fails(th)
PollStep == Ask \/ Reconcile \/ \E s \in Subtasks, th \in Threads : Claim(s, th)
ServerStep ==
  \E s \in Subtasks :
    Appear(s) \/ AnsweredElsewhere(s) \/ TaskEnds(s) \/ LateRequest(s) \/ LostRequest(s)

Next ==
  \/ PollStep \/ ServerStep \/ Crash \/ Restart
  \/ \E th \in Threads : HandlerStep(th) \/ RequestStep(th)
  \/ \E s \in Subtasks, th \in Threads : PostBegins(s, th)
  \/ \E s \in Subtasks : OrphanEnds(s)

Spec == Init /\ [][Next]_vars

\* The threads of a live process run; Codex and requests have time limits.  A user
\* at the terminal need not answer, but one who works with the console restarts the
\* process.  Nobody has to use the console.
Fairness ==
  /\ WF_vars(PollStep) /\ WF_vars(Restart)
  /\ \A th \in Threads :
       WF_vars((~At(th, "prompt") /\ HandlerStep(th)) \/ RequestStep(th))
FairSpec == Spec /\ Fairness
-----------------------------------------------------------------------------
TypeOK ==
  /\ ui \in BOOLEAN /\ autoSubmit \in BOOLEAN
  /\ status \in [Subtasks -> {"absent", "open", "stranded", "answered", "closed"}]
  /\ answers \in [Subtasks -> 0..2]
  /\ late \in SUBSET Subtasks /\ unheard \in SUBSET Subtasks
  /\ up \in BOOLEAN /\ crashes \in 0..MaxCrashes
  /\ orphans \in [Subtasks -> Nat]
  /\ claimed \in SUBSET Subtasks /\ pending \in SUBSET Subtasks
  /\ poll \in [at : {"idle", "listed", "claiming"}, todo : SUBSET Subtasks]
  /\ thread \in [Threads -> {Idle} \cup Busy]

\* Whatever the runner keeps claimed while the server lists it is in somebody's hands: a
\* handler works on it or the user is shown it.  (A claim keeps a subtask from every later
\* poll, so that one left behind by a failure would never be answered; the console removes
\* a review only after the server took the answer.)
ClaimsAreHeld ==
  \A s \in claimed \cap Listed : s \in pending \/ Running("handler", s) # {}

\* One life of the process never has two handlers on a subtask, whatever polls, failures
\* and given back claims come in between.  Codex may still work on it several times at once:
\* a death leaves its Codex at work, and the next process, which knows of no claims, starts
\* another.  So there is at most one more of them than the process has died.
OneCodexPerLife ==
  \A s \in Subtasks :
    /\ \A th, other \in Running("handler", s) : th = other
    /\ Cardinality(AtWork(s)) + orphans[s] <= crashes + 1

\* With automatic submission and one window of the console, the server takes a second
\* answer only if the runner did not hear of the first: no stale poll, no claim given
\* back and no review shown again makes the runner answer what it has answered.
\* (Without automatic submission a review exists while Codex still works, and comes back
\* when Codex ends.)
AnswersOnce ==
  autoSubmit /\ Tabs <= 1 => \A s \in Subtasks \ unheard : answers[s] <= 1

\* A subtask that was answered, by anybody, disappears from the reviews for good: the
\* iteration log (docs/iterations/, 2026-07-24) promises that the console does not go on
\* showing what the task centre has answered.
AnsweredGoesAway ==
  \A s \in Subtasks : status[s] = "answered" ~> [](s \notin pending)

\* With the console, an open subtask is answered or comes before the user, even when the
\* process dies in between.
OpenIsSeen ==
  ui => \A s \in Subtasks : status[s] = "open" ~> (status[s] # "open" \/ s \in pending)
=============================================================================
