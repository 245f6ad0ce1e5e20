-------------------------- MODULE CommandBrokerProofs --------------------------
(***************************************************************************)
(* What the files guarantee, for any number of calls, brokers and deaths.  *)
(*                                                                         *)
(* That a command is executed at most once rests on the rename: a request  *)
(* is either still there and untouched (CallOK) or in the hand of the one  *)
(* broker that renamed it (HandOK), or over.                               *)
(***************************************************************************)
EXTENDS CommandBroker, TLAPS

Untouched(c) == executed[c] = 0 /\ c \notin processing

CallOK(c) ==
  /\ call[c] = "new" \/ c \in requests => Untouched(c)
  /\ call[c] \in {"new", "timed_out"} => c \notin requests
  /\ executed[c] <= 1
  /\ responses[c] = "ok" \/ call[c] = "succeeded" => executed[c] = 1

HandOK(b) ==
  /\ broker[b].at \in {"idle", "batch"} <=> broker[b].call = NoCall
  /\ broker[b].call # NoCall =>
       /\ broker[b].call \in processing
       /\ \A other \in Brokers : broker[other].call = broker[b].call => other = b
  /\ broker[b].at = "executing" => executed[broker[b].call] = 0
  /\ broker[b].at = "answering" /\ broker[b].reply = "ok" => executed[broker[b].call] = 1

IInv ==
  /\ TypeOK
  /\ \A c \in Calls : CallOK(c)
  /\ \A b \in Brokers : HandOK(b)

LEMMA InitTypes == Init => TypeOK
BY NoCallAssumption DEF Init, TypeOK, Hand, Fresh, Replies, NoReply

\* The types survive a step of a broker.
LEMMA BrokerTypes ==
  ASSUME TypeOK, NEW b \in Brokers, BrokerStep(b) PROVE TypeOK'
<1> USE DEF TypeOK, Replies, NoReply, files
<1>1. \A hand \in Hand : Becomes(b, hand) => broker' \in [Brokers -> Hand]
  BY DEF Becomes
<1>2. broker[b] \in Hand /\ Fresh \in Hand
  BY NoCallAssumption DEF Hand, Fresh
<1>3. ASSUME NEW c \in Calls PROVE Left(b, c) \in Hand
  BY <1>2 DEF Left, Hand
<1>4. CASE Scan(b)
  <2>1. [Fresh EXCEPT !.at = "batch", !.batch = requests] \in Hand
    BY DEF Hand, Fresh
  <2> QED BY <1>1, <1>4, <2>1 DEF Scan
<1>5. CASE Execute(b)
  <2>1. PICK done \in BOOLEAN, reply \in Replies :
          /\ executed' = IF done THEN [executed EXCEPT ![broker[b].call] = Counted(@)]
                                 ELSE executed
          /\ Becomes(b, [broker[b] EXCEPT !.at = "answering", !.reply = reply])
    BY <1>5 DEF Execute, ReplyTo
  <2>2. [broker[b] EXCEPT !.at = "answering", !.reply = reply] \in Hand
    BY <1>2, <2>1 DEF Hand
  <2>3. \A n : Counted(n) \in 0..2
    BY DEF Counted
  <2>4. executed' \in [Calls -> 0..2]
    BY <2>1, <2>3
  <2> QED BY <1>1, <1>5, <2>1, <2>2, <2>4 DEF Execute
<1>6. CASE Respond(b)
  <2>1. [broker[b] EXCEPT !.at = "cleaning", !.reply = NoReply] \in Hand
    BY <1>2 DEF Hand
  <2>2. broker[b].reply \in Replies \cup {NoReply}
    BY <1>2 DEF Hand
  <2> QED BY <1>1, <1>6, <2>1, <2>2 DEF Respond
<1>7. CASE CleanUp(b)
  <2>1. [broker[b] EXCEPT !.at = "batch", !.call = NoCall] \in Hand
    BY <1>2 DEF Hand
  <2> QED BY <1>1, <1>7, <2>1 DEF CleanUp
<1>8. CASE BatchDone(b)
  BY <1>1, <1>2, <1>8 DEF BatchDone
<1>9. CASE Crash(b)
  <2>1. executed' \in [Calls -> 0..2]
    BY <1>9 DEF Crash, Counted
  <2> QED BY <1>1, <1>2, <1>9, <2>1, MaxCrashesAssumption DEF Crash
<1>10. ASSUME NEW c \in Calls, TakeUp(b, c) PROVE TypeOK'
  <2>1. Left(b, c) \in Hand
    BY <1>3
  <2>2. [Left(b, c) EXCEPT !.at = "executing", !.call = c] \in Hand
    BY <2>1 DEF Hand
  <2> QED BY <1>1, <1>10, <2>1, <2>2 DEF TakeUp
<1> QED BY <1>4, <1>5, <1>6, <1>7, <1>8, <1>9, <1>10 DEF BrokerStep

LEMMA NextTypes == TypeOK /\ [Next]_vars => TypeOK'
<1>1. ASSUME TypeOK, NEW c \in Calls, ClientStep(c) PROVE TypeOK'
  BY <1>1 DEF TypeOK, Replies, NoReply, ClientStep, Request, Receive, Deadline, Withdraw, Killed,
              Goes, DropResponse
<1>2. ASSUME TypeOK, UNCHANGED vars PROVE TypeOK'
  BY <1>2 DEF TypeOK, vars, files
<1> QED BY <1>1, <1>2, BrokerTypes DEF Next

\* The calls, the files and the brokers keep their types.
THEOREM Typing == Spec => []TypeOK
BY InitTypes, NextTypes, PTL DEF Spec
-----------------------------------------------------------------------------
Clean == (\A c \in Calls : CallOK(c)) /\ (\A b \in Brokers : HandOK(b))

\* A client touches the files of its own call only, and never what a broker holds.
LEMMA ClientKeeps ==
  ASSUME IInv, NEW c \in Calls, ClientStep(c) PROVE Clean'
<1> USE DEF IInv, TypeOK
<1>1. UNCHANGED <<processing, executed, broker>>
  BY DEF ClientStep, Request, Receive, Deadline, Withdraw, Killed
<1>2. ASSUME NEW b \in Brokers PROVE HandOK(b)'
  BY <1>1 DEF HandOK
<1>3. ASSUME NEW d \in Calls, d # c PROVE CallOK(d)'
  <2>1. call'[d] = call[d] /\ responses'[d] = responses[d] /\ (d \in requests' <=> d \in requests)
    BY <1>3 DEF ClientStep, Request, Receive, Deadline, Withdraw, Killed, Goes, DropResponse
  <2> QED BY <1>1, <2>1 DEF CallOK, Untouched
<1>4. CallOK(c)'
  <2>1. CallOK(c)
    OBVIOUS
  <2> QED BY <1>1, <2>1 DEF CallOK, Untouched, ClientStep, Request, Receive, Deadline, Withdraw, Killed,
                 Goes, DropResponse, NoReply, Replies
<1> QED BY <1>2, <1>3, <1>4 DEF Clean

\* A broker touches the files of the call in its hand only, and takes no call in its hand
\* but by the rename.
LEMMA BrokerKeeps ==
  ASSUME IInv, NEW b \in Brokers, BrokerStep(b) PROVE Clean'
<1> USE DEF IInv, TypeOK, Hand
<1>1. CASE Scan(b) \/ BatchDone(b)
  <2>1. UNCHANGED <<call, files, executed>>
    BY <1>1 DEF Scan, BatchDone
  <2>2. /\ broker[b].call = NoCall
        /\ broker'[b].at \in {"idle", "batch"} /\ broker'[b].call = NoCall
        /\ \A d \in Brokers \ {b} : broker'[d] = broker[d]
    <3>1. broker[b].call = NoCall
      BY <1>1 DEF Scan, BatchDone, HandOK
    <3>2. CASE Scan(b)
      BY <3>1, <3>2 DEF Scan, Becomes, Fresh
    <3>3. CASE BatchDone(b)
      BY <3>1, <3>3 DEF BatchDone, Becomes, Fresh
    <3> QED BY <1>1, <3>2, <3>3
  <2>3. HandOK(b)'
    BY <2>2 DEF HandOK
  <2>4. ASSUME NEW d \in Brokers, d # b PROVE HandOK(d)'
    <3>1. HandOK(d) /\ broker'[d] = broker[d]
      BY <2>2, <2>4
    <3> QED BY <2>1, <2>2, <3>1 DEF HandOK, files
  <2> QED BY <2>1, <2>3, <2>4 DEF Clean, CallOK, Untouched, files
<1>2. CASE Execute(b)
  <2> DEFINE c == broker[b].call
  <2>1. c \in Calls /\ c \in processing /\ executed[c] = 0 /\ c \notin requests
    BY <1>2, NoCallAssumption DEF Execute, HandOK, CallOK, Untouched
  <2>2. PICK done \in BOOLEAN, reply \in Replies :
          /\ executed' = IF done THEN [executed EXCEPT ![c] = Counted(@)] ELSE executed
          /\ Becomes(b, [broker[b] EXCEPT !.at = "answering", !.reply = reply])
          /\ reply = "ok" => done
    BY <1>2 DEF Execute, ReplyTo, Replies
  <2>3. /\ executed'[c] = IF done THEN 1 ELSE 0
        /\ \A d \in Calls \ {c} : executed'[d] = executed[d]
    BY <2>1, <2>2 DEF Counted
  <2>4. UNCHANGED <<call, requests, processing, responses>>
    BY <1>2 DEF Execute, files
  <2>5. ASSUME NEW d \in Calls PROVE CallOK(d)'
    BY <2>1, <2>3, <2>4 DEF CallOK, Untouched
  <2>6. /\ broker'[b].at = "answering" /\ broker'[b].call = c /\ broker'[b].reply = reply
        /\ \A d \in Brokers \ {b} : broker'[d] = broker[d]
    BY <2>2 DEF Becomes
  <2>7. \A d \in Brokers \ {b} : broker[d].call # c
    BY <2>1, NoCallAssumption DEF HandOK
  <2>8. HandOK(b)'
    BY <2>1, <2>2, <2>3, <2>4, <2>6, <2>7, NoCallAssumption DEF HandOK
  <2>9. ASSUME NEW d \in Brokers, d # b PROVE HandOK(d)'
    <3>1. HandOK(d) /\ broker'[d] = broker[d] /\ broker[d].call # c
      BY <2>6, <2>7, <2>9
    <3>2. broker[d].call \in Calls => executed'[broker[d].call] = executed[broker[d].call]
      BY <2>3, <3>1
    <3>3. broker[d].call \in Calls \cup {NoCall}
      BY <2>9
    <3> QED BY <2>1, <2>4, <2>6, <3>1, <3>2, <3>3, NoCallAssumption DEF HandOK
  <2> QED BY <2>5, <2>8, <2>9 DEF Clean
<1>3. CASE Respond(b)
  <2> DEFINE c == broker[b].call
  <2>1. c \in Calls /\ c \in processing /\ c \notin requests
    BY <1>3, NoCallAssumption DEF Respond, HandOK, CallOK, Untouched
  <2>2. ASSUME NEW d \in Calls PROVE CallOK(d)'
    BY <1>3, <2>1 DEF Respond, CallOK, Untouched, HandOK
  <2>3. ASSUME NEW d \in Brokers PROVE HandOK(d)'
    BY <1>3, <2>1, NoCallAssumption DEF Respond, HandOK, Becomes
  <2> QED BY <2>2, <2>3 DEF Clean
<1>4. CASE CleanUp(b)
  <2> DEFINE c == broker[b].call
  <2>1. c \in Calls /\ c \in processing /\ c \notin requests
    BY <1>4, NoCallAssumption DEF CleanUp, HandOK, CallOK, Untouched
  <2>2. ASSUME NEW d \in Calls PROVE CallOK(d)'
    BY <1>4, <2>1 DEF CleanUp, CallOK, Untouched
  <2>3. ASSUME NEW d \in Brokers PROVE HandOK(d)'
    BY <1>4, <2>1, NoCallAssumption DEF CleanUp, HandOK, Becomes
  <2> QED BY <2>2, <2>3 DEF Clean
<1>5. CASE Crash(b)
  <2>1. UNCHANGED <<call, requests, processing, responses>> /\ Becomes(b, Fresh)
    BY <1>5 DEF Crash, files
  <2>2. CASE UNCHANGED executed
    <3>1. ASSUME NEW d \in Brokers PROVE HandOK(d)'
      BY <2>1, <2>2, NoCallAssumption DEF HandOK, Becomes, Fresh
    <3> QED BY <2>1, <2>2, <3>1 DEF Clean, CallOK, Untouched
  <2>3. CASE /\ broker[b].at = "executing"
             /\ executed' = [executed EXCEPT ![broker[b].call] = Counted(@)]
    <3> DEFINE c == broker[b].call
    <3>1. c \in Calls /\ c \in processing /\ executed[c] = 0 /\ c \notin requests
      BY <2>3, NoCallAssumption DEF HandOK, CallOK, Untouched
    <3>2. executed'[c] = 1 /\ \A d \in Calls \ {c} : executed'[d] = executed[d]
      BY <2>3, <3>1 DEF Counted
    <3>3. ASSUME NEW d \in Calls PROVE CallOK(d)'
      BY <2>1, <3>1, <3>2 DEF CallOK, Untouched
    <3>4. ASSUME NEW d \in Brokers PROVE HandOK(d)'
      BY <2>1, <3>1, <3>2, NoCallAssumption DEF HandOK, Becomes, Fresh
    <3> QED BY <3>3, <3>4 DEF Clean
  <2> QED BY <1>5, <2>2, <2>3 DEF Crash
<1>6. ASSUME NEW c \in Calls, TakeUp(b, c), c \in requests PROVE Clean'
  <2>1. /\ requests' = requests \ {c} /\ processing' = processing \cup {c}
        /\ Becomes(b, [Left(b, c) EXCEPT !.at = "executing", !.call = c])
        /\ UNCHANGED <<call, responses, executed>>
        /\ broker[b].at = "batch"
    BY <1>6 DEF TakeUp
  <2>2. executed[c] = 0 /\ c \notin processing
    BY <1>6 DEF CallOK, Untouched
  <2>3. ASSUME NEW d \in Brokers PROVE broker[d].call # c
    BY <2>2, NoCallAssumption DEF HandOK
  <2>4. broker'[b].at = "executing" /\ broker'[b].call = c
    BY <2>1 DEF Becomes, Left
  <2>5. ASSUME NEW d \in Brokers, d # b PROVE broker'[d] = broker[d]
    BY <2>1, <2>5 DEF Becomes
  <2>6. ASSUME NEW d \in Calls PROVE CallOK(d)'
    <3>1. call[c] # "new"
      BY <1>6 DEF CallOK
    <3> QED BY <2>1, <2>2, <3>1 DEF CallOK, Untouched
  <2>7. HandOK(b)'
    BY <2>1, <2>2, <2>3, <2>4, <2>5, NoCallAssumption DEF HandOK
  <2>8. ASSUME NEW d \in Brokers, d # b PROVE HandOK(d)'
    BY <2>1, <2>3, <2>4, <2>5, <2>8 DEF HandOK
  <2> QED BY <2>6, <2>7, <2>8 DEF Clean
<1>7. ASSUME NEW c \in Calls, TakeUp(b, c), c \notin requests PROVE Clean'
  <2>1. UNCHANGED <<call, requests, processing, responses, executed>> /\ Becomes(b, Left(b, c))
    BY <1>7 DEF TakeUp
  <2>2. /\ broker'[b].at = broker[b].at
        /\ broker'[b].call = broker[b].call
        /\ broker'[b].reply = broker[b].reply
    BY <2>1 DEF Becomes, Left
  <2>3. \A d \in Brokers \ {b} : broker'[d] = broker[d]
    BY <2>1 DEF Becomes
  <2>4. ASSUME NEW d \in Brokers PROVE HandOK(d)'
    BY <2>1, <2>2, <2>3 DEF HandOK
  <2> QED BY <2>1, <2>4 DEF Clean, CallOK, Untouched
<1> QED BY <1>1, <1>2, <1>3, <1>4, <1>5, <1>6, <1>7 DEF BrokerStep

\* What the three properties rest on: every call is with exactly one broker or with none.
LEMMA Invariance == Spec => []IInv
<1>1. Init => IInv
  BY InitTypes, NoCallAssumption DEF Init, IInv, CallOK, Untouched, HandOK, Fresh, NoReply
<1>2. IInv /\ [Next]_vars => IInv'
  <2> SUFFICES ASSUME IInv, [Next]_vars PROVE IInv'
    OBVIOUS
  <2>1. TypeOK'
    BY NextTypes DEF IInv
  <2>2. CASE Next
    BY <2>1, <2>2, ClientKeeps, BrokerKeeps DEF Next, Clean, IInv
  <2>3. CASE UNCHANGED vars
    BY <2>1, <2>3 DEF vars, files, IInv, CallOK, Untouched, HandOK
  <2> QED BY <2>2, <2>3
<1> QED BY <1>1, <1>2, PTL DEF Spec

\* No command is executed twice, however many brokers serve the files and die.
THEOREM AtMostOnceHolds == Spec => []AtMostOnce
<1>1. IInv => AtMostOnce
  BY DEF IInv, CallOK, AtMostOnce
<1> QED BY <1>1, Invariance, PTL

\* A success that a client reports stands for exactly one execution.
THEOREM SuccessHolds == Spec => []SuccessIsExecution
<1>1. IInv => SuccessIsExecution
  BY DEF IInv, CallOK, SuccessIsExecution
<1> QED BY <1>1, Invariance, PTL

\* What was withdrawn in time is neither taken up nor executed.
THEOREM WithdrawnHolds == Spec => WithdrawnNeverRuns
<1>1. ASSUME IInv, [Next]_vars, NEW c \in Calls \ processing, call[c] = "timed_out"
      PROVE  c \notin processing' /\ executed'[c] = executed[c]
  <2> USE DEF IInv, TypeOK, Hand
  <2>1. c \notin requests
    BY <1>1 DEF CallOK
  <2>2. ASSUME NEW b \in Brokers PROVE broker[b].call # c
    BY <1>1, NoCallAssumption DEF HandOK
  <2>3. ASSUME NEW d \in Calls, ClientStep(d) PROVE UNCHANGED <<processing, executed>>
    BY <2>3 DEF ClientStep, Request, Receive, Deadline, Withdraw, Killed
  <2>4. ASSUME NEW b \in Brokers, BrokerStep(b)
        PROVE  c \notin processing' /\ executed'[c] = executed[c]
    BY <1>1, <2>1, <2>2, <2>4
       DEF BrokerStep, Scan, TakeUp, Execute, Respond, CleanUp, BatchDone, Crash, files
  <2>5. CASE UNCHANGED vars
    BY <1>1, <2>5 DEF vars, files
  <2> QED BY <1>1, <2>3, <2>4, <2>5 DEF Next
<1>2. IInv /\ [Next]_vars =>
        (\A c \in Calls \ processing :
           call[c] = "timed_out" => c \notin processing' /\ executed'[c] = executed[c])
  BY <1>1
<1> QED BY <1>2, Invariance, PTL DEF Spec, WithdrawnNeverRuns
=============================================================================
