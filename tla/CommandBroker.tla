----------------------------- MODULE CommandBroker -----------------------------
(***************************************************************************)
(* How the command line client (runner_cli.py) has the runner's process    *)
(* execute a command for it: through files.  A call writes <id>.json into  *)
(* requests/ and waits for <id>.json in responses/; a broker renames the   *)
(* request to <id>.processing, executes it at the server and writes the    *)
(* response.  A call has a deadline, may be killed, and the process of a   *)
(* broker may die at any point.  start_runner.sh keeps a second process    *)
(* away only in the background, so that two brokers may share the files.   *)
(*                                                                         *)
(* A call is one _request with its unique id.  Brokers take requests in    *)
(* any order (the code: oldest first), which allows more behaviours.       *)
(***************************************************************************)
EXTENDS Naturals

CONSTANTS
  Calls,
  Brokers,
  NoCall,     \* a broker has nothing in hand
  MaxCrashes  \* bounds the deaths of brokers

ASSUME NoCallAssumption == NoCall \notin Calls
ASSUME MaxCrashesAssumption == MaxCrashes \in Nat

VARIABLES
  call,        \* where each call is
  requests,    \* *.json in requests/
  processing,  \* *.processing in requests/
  responses,   \* *.json in responses/: what they say
  executed,    \* how often the server executed a command: 0, 1 or more (2)
  broker,      \* where each broker is
  crashes

files == <<requests, processing, responses>>
vars == <<call, files, executed, broker, crashes>>

Replies == {"ok", "error"}
NoReply == "none"
Hand == [at : {"idle", "batch", "executing", "answering", "cleaning"},
         batch : SUBSET Calls, call : Calls \cup {NoCall}, reply : Replies \cup {NoReply}]
Fresh == [at |-> "idle", batch |-> {}, call |-> NoCall, reply |-> NoReply]

Init ==
  /\ call = [c \in Calls |-> "new"]
  /\ requests = {} /\ processing = {}
  /\ responses = [c \in Calls |-> NoReply]
  /\ executed = [c \in Calls |-> 0]
  /\ broker = [b \in Brokers |-> Fresh]
  /\ crashes = 0
-----------------------------------------------------------------------------
(* The client: RunnerBrokerClient._request *)

Goes(c, place) == call' = [call EXCEPT ![c] = place]
DropResponse(c) == responses' = [responses EXCEPT ![c] = NoReply]

Request(c) ==
  /\ call[c] = "new"
  /\ Goes(c, "waiting")
  /\ requests' = requests \cup {c}
  /\ UNCHANGED <<processing, responses, executed, broker, crashes>>

\* The response is read, and removed in the finally branch.
Receive(c) ==
  /\ call[c] = "waiting" /\ responses[c] # NoReply
  /\ Goes(c, IF responses[c] = "ok" THEN "succeeded" ELSE "refused")
  /\ DropResponse(c)
  /\ UNCHANGED <<requests, processing, executed, broker, crashes>>

\* The deadline has passed: first the finally branch, then the request is withdrawn.
Deadline(c) ==
  /\ call[c] = "waiting"
  /\ Goes(c, "withdrawing")
  /\ DropResponse(c)
  /\ UNCHANGED <<requests, processing, executed, broker, crashes>>

\* Variant: the request is left to the broker.
WithdrawNothing(c) ==
  /\ call[c] = "withdrawing"
  /\ Goes(c, "timed_out")
  /\ UNCHANGED <<files, executed, broker, crashes>>

Withdraw(c) ==
  /\ call[c] = "withdrawing"
  /\ Goes(c, "timed_out")
  /\ requests' = requests \ {c}
  /\ UNCHANGED <<processing, responses, executed, broker, crashes>>

\* The client is interrupted, which still runs the finally branch, or killed.
Killed(c) ==
  /\ call[c] \in {"waiting", "withdrawing"}
  /\ Goes(c, "killed")
  /\ DropResponse(c) \/ UNCHANGED responses
  /\ UNCHANGED <<requests, processing, executed, broker, crashes>>
-----------------------------------------------------------------------------
(* The broker: _run_command_broker *)

Becomes(b, hand) == broker' = [broker EXCEPT ![b] = hand]
Left(b, c) == [broker[b] EXCEPT !.batch = @ \ {c}]

\* One listing of requests/.
Scan(b) ==
  /\ broker[b].at = "idle" /\ requests # {}
  /\ Becomes(b, [Fresh EXCEPT !.at = "batch", !.batch = requests])
  /\ UNCHANGED <<call, files, executed, crashes>>

\* Variant: a request that another broker took is executed all the same.
TakesAnyway(b, c) ==
  /\ broker[b].at = "batch" /\ c \in broker[b].batch
  /\ requests' = requests \ {c} /\ processing' = processing \cup {c}
  /\ Becomes(b, [Left(b, c) EXCEPT !.at = "executing", !.call = c])
  /\ UNCHANGED <<call, responses, executed, crashes>>

\* Renames the request, or finds it gone.
TakeUp(b, c) ==
  /\ broker[b].at = "batch" /\ c \in broker[b].batch
  /\ IF c \in requests
     THEN /\ requests' = requests \ {c} /\ processing' = processing \cup {c}
          /\ Becomes(b, [Left(b, c) EXCEPT !.at = "executing", !.call = c])
     ELSE /\ Becomes(b, Left(b, c))
          /\ UNCHANGED <<requests, processing>>
  /\ UNCHANGED <<call, responses, executed, crashes>>

Counted(n) == IF n = 0 THEN 1 ELSE 2

\* Variant: an error counts as a success.
AlwaysOk(done) == {"ok"}

\* Variant: a command that was not executed is to be retried by somebody.
RepliesRetry(done) == IF done THEN Replies ELSE {"retry"}

\* What _handle_broker_request makes of a command that was executed, or was not: an answer
\* may be lost on its way, and a refusal is an error.  (If the server executes the command
\* after the broker's own time limit, that is counted here.)
ReplyTo(done) == IF done THEN Replies ELSE {"error"}

Execute(b) ==
  /\ broker[b].at = "executing"
  /\ \E done \in BOOLEAN :
       /\ executed' = IF done THEN [executed EXCEPT ![broker[b].call] = Counted(@)]
                              ELSE executed
       /\ \E reply \in ReplyTo(done) :
            Becomes(b, [broker[b] EXCEPT !.at = "answering", !.reply = reply])
  /\ UNCHANGED <<call, files, crashes>>

Respond(b) ==
  /\ broker[b].at = "answering"
  /\ responses' = [responses EXCEPT ![broker[b].call] = broker[b].reply]
  /\ Becomes(b, [broker[b] EXCEPT !.at = "cleaning", !.reply = NoReply])
  /\ UNCHANGED <<call, requests, processing, executed, crashes>>

CleanUp(b) ==
  /\ broker[b].at = "cleaning"
  /\ processing' = processing \ {broker[b].call}
  /\ Becomes(b, [broker[b] EXCEPT !.at = "batch", !.call = NoCall])
  /\ UNCHANGED <<call, requests, responses, executed, crashes>>

BatchDone(b) ==
  /\ broker[b].at = "batch" /\ broker[b].batch = {}
  /\ Becomes(b, Fresh)
  /\ UNCHANGED <<call, files, executed, crashes>>

\* The process dies, perhaps with a command at the server, and is started again.
Crash(b) ==
  /\ crashes < MaxCrashes
  /\ crashes' = crashes + 1
  /\ Becomes(b, Fresh)
  /\ \/ UNCHANGED executed
     \/ /\ broker[b].at = "executing"
        /\ executed' = [executed EXCEPT ![broker[b].call] = Counted(@)]
  /\ UNCHANGED <<call, files>>
-----------------------------------------------------------------------------
ClientStep(c) == Request(c) \/ Receive(c) \/ Deadline(c) \/ Withdraw(c) \/ Killed(c)
BrokerStep(b) ==
  \/ Scan(b) \/ Execute(b) \/ Respond(b) \/ CleanUp(b) \/ BatchDone(b) \/ Crash(b)
  \/ \E c \in Calls : TakeUp(b, c)

Next == (\E c \in Calls : ClientStep(c)) \/ (\E b \in Brokers : BrokerStep(b))

Spec == Init /\ [][Next]_vars
-----------------------------------------------------------------------------
TypeOK ==
  /\ call \in [Calls -> {"new", "waiting", "withdrawing", "succeeded", "refused",
                         "timed_out", "killed"}]
  /\ requests \in SUBSET Calls /\ processing \in SUBSET Calls
  /\ responses \in [Calls -> Replies \cup {NoReply}]
  /\ executed \in [Calls -> 0..2]
  /\ broker \in [Brokers -> Hand]
  /\ crashes \in Nat

\* A command is executed once at most, whatever dies and however many processes serve the
\* files: a task is not published twice (the skill forbids the client to repeat a
\* publication, for the same reason).
AtMostOnce == \A c \in Calls : executed[c] <= 1

\* A call that reports success has had its command executed, exactly once: no response
\* is invented, and none of an interrupted attempt is mistaken for an answer.
SuccessIsExecution == \A c \in Calls : call[c] = "succeeded" => executed[c] = 1

\* A request that timed out while no broker had it is not taken up afterwards, although
\* brokers still have it in their listings: following the advice to start the runner and
\* calling again does not do the work twice.  (One that a broker has taken may still be
\* executed after its client has reported the failure.)
WithdrawnNeverRuns ==
  [][\A c \in Calls \ processing :
       call[c] = "timed_out" => c \notin processing' /\ executed'[c] = executed[c]]_vars
=============================================================================
