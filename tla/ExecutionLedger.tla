--------------------------- MODULE ExecutionLedger ---------------------------
(***************************************************************************)
(* What the execution history of a task promises to its readers (the rerun *)
(* panel, the audit of side effects): attempts are opened one at a time,   *)
(* under fresh keys, are started before they are closed, and are never     *)
(* touched again once closed.                                              *)
(***************************************************************************)
EXTENDS Naturals, Sequences

CONSTANTS
  Tasks,
  Keys, NoKey,   \* the key of a rerun; the first attempt has none
  Failures

VARIABLE ledger

Attempt == [state : {"open", "started", "closed"},
            outcome : {"running", "succeeded"} \cup Failures,
            key : Keys \cup {NoKey}]

Init == ledger = [t \in Tasks |-> <<>>]

\* A first attempt, or a retry with a key no attempt of the task has used.
Open(t) ==
  /\ \A n \in DOMAIN ledger[t] : ledger[t][n].state = "closed"
  /\ \E k \in Keys \cup {NoKey} :
       /\ k = NoKey <=> ledger[t] = <<>>
       /\ \A n \in DOMAIN ledger[t] : ledger[t][n].key # k
       /\ ledger' = [ledger EXCEPT ![t] =
            Append(@, [state |-> "open", outcome |-> "running", key |-> k])]

Start(t) ==
  \E n \in DOMAIN ledger[t] :
    /\ ledger[t][n].state = "open"
    /\ ledger' = [ledger EXCEPT ![t][n].state = "started"]

Close(t) ==
  \E n \in DOMAIN ledger[t], outcome \in {"succeeded"} \cup Failures :
    /\ ledger[t][n].state = "started"
    /\ ledger' = [ledger EXCEPT ![t][n] =
         [@ EXCEPT !.state = "closed", !.outcome = outcome]]

Next == \E t \in Tasks : Open(t) \/ Start(t) \/ Close(t)

Spec == Init /\ [][Next]_ledger
=============================================================================
