------------------------------ MODULE Registries ------------------------------
(***************************************************************************)
(* The registries of agents and workflow templates (app/services/          *)
(* storage.py) behind their routes: tables of rows in a database, or files *)
(* that every change reads, truncates and writes as a whole.  The requests *)
(* run in a pool of threads and take no lock.                              *)
(***************************************************************************)
EXTENDS Naturals

CONSTANTS
  Requests,   \* threads that serve requests
  Agents,     \* ids that agents may be given
  Workflows,  \* ids that workflow templates may be given
  None        \* no such record

ASSUME IdsAssumption ==
  Agents \cap Workflows = {} /\ None \notin Agents \cup Workflows

VARIABLES
  database,  \* rows, not files
  content,   \* the records: an agent holds its id, a workflow the agent of its node
  torn,      \* registries whose file cannot be read
  request,   \* what every thread is at
  used,      \* ids that have been given
  known,     \* what the clients were told the records are (not in the code)
  excused,   \* workflows that may name a deleted agent (not in the code)
  spoiled    \* files whose writers overlapped or died (not in the code)

vars == <<database, content, torn, request, used, known, excused, spoiled>>
-----------------------------------------------------------------------------
(* Types *)

Ids == Agents \cup Workflows
Registry == {"agents", "workflows"}
Record == Agents \cup {None}
Records == [Ids -> Record]
RegistryOf(x) == IF x \in Agents THEN "agents" ELSE "workflows"

Empty == [x \in Ids |-> None]

Request == [pc : {"idle", "check", "read", "truncate", "write", "overwrite"},
            op : {"create", "update", "delete"},
            id : Ids \cup {None}, value : Record, seen : Records]

Idle == [pc |-> "idle", op |-> "create", id |-> None, value |-> None, seen |-> Empty]

Init ==
  /\ database \in BOOLEAN
  /\ content = Empty
  /\ torn = {}
  /\ request = [r \in Requests |-> Idle]
  /\ used = {}
  /\ known = Empty
  /\ excused = {}
  /\ spoiled = {}
-----------------------------------------------------------------------------
(* Helpers *)

Goes(r, q) == request' = [request EXCEPT ![r] = q]

\* A thread that has read the registry and has still to write it.
Busy(q, registry) ==
  /\ request[q].pc \in {"truncate", "write", "overwrite"}
  /\ RegistryOf(request[q].id) = registry

\* A thread that deletes the agent and has found no workflow that names it.
Deleting(q, a) ==
  /\ request[q].op = "delete" /\ request[q].id = a
  /\ request[q].pc \in {"read", "truncate", "write", "overwrite"}

\* Variant: nobody looks.
NeverReferenced(a) == FALSE

Referenced(a) == \E w \in Workflows : content[w] = a

\* Variant: the row is inserted if it is not there.
Upserted(q) == [content EXCEPT ![q.id] = q.value]

\* An update or a delete names a row, which may have gone since it was read.
RowsAfter(q) ==
  [content EXCEPT ![q.id] = IF q.op = "create" \/ @ # None THEN q.value ELSE @]

\* list_agents, list_workflows
Listed(registry) == [x \in Ids |-> IF RegistryOf(x) = registry THEN content[x] ELSE None]

\* The whole list is written, as it was read, with the one record changed.
FileAfter(q) ==
  [x \in Ids |-> IF x = q.id THEN q.value
                 ELSE IF RegistryOf(x) = RegistryOf(q.id) THEN q.seen[x]
                 ELSE content[x]]
-----------------------------------------------------------------------------
(* Requests *)

\* A client sends any agent id as a workflow's node; an agent is never updated.
Begin(r) ==
  /\ request[r].pc = "idle"
  /\ \E x \in Ids, op \in {"create", "update", "delete"}, v \in Record :
       /\ x \in used <=> op # "create"
       /\ v = None <=> op = "delete"
       /\ x \in Agents => op # "update" /\ v \in {x, None}
       /\ Goes(r, [Idle EXCEPT !.op = op, !.id = x, !.value = v,
                     !.pc = IF x \in Agents /\ op = "delete" THEN "check" ELSE "read"])
       /\ used' = used \cup {x}
  /\ UNCHANGED <<database, content, torn, known, excused, spoiled>>

\* delete_agent: refused while a template names the agent
CheckReferences(r) ==
  LET q == request[r] IN
  /\ q.pc = "check"
  /\ Goes(r, IF "workflows" \in torn \/ Referenced(q.id) THEN Idle
             ELSE [q EXCEPT !.pc = "read"])
  /\ UNCHANGED <<database, content, torn, used, known, excused, spoiled>>

(* A file that is being written cannot be parsed: the request fails.  What  *)
(* is not there cannot be changed.  An insert into the database needs no    *)
(* look at it, here it takes one that it makes no use of.                   *)
Read(r) ==
  LET q == request[r]
      registry == RegistryOf(q.id)
  IN  /\ q.pc = "read"
      /\ IF registry \in torn \/ (q.op # "create" /\ content[q.id] = None)
         THEN Goes(r, Idle) /\ UNCHANGED spoiled
         ELSE /\ Goes(r, IF database THEN [q EXCEPT !.pc = "write"]
                         ELSE [q EXCEPT !.pc = "truncate", !.seen = Listed(registry)])
              /\ spoiled' = IF ~database /\ \E p \in Requests : Busy(p, registry)
                            THEN spoiled \cup {registry} ELSE spoiled
      /\ UNCHANGED <<database, content, torn, used, known, excused>>

\* write_text opens the file and empties it.
Truncate(r) ==
  LET q == request[r] IN
  /\ q.pc = "truncate"
  /\ Goes(r, [q EXCEPT !.pc = "write"])
  /\ torn' = torn \cup {RegistryOf(q.id)}
  /\ UNCHANGED <<database, content, used, known, excused, spoiled>>

\* What the clients may rely on: what is not there stays so until it is created.
Told(q) == IF q.op # "create" /\ known[q.id] = None THEN known
           ELSE [known EXCEPT ![q.id] = q.value]

\* The workflow names an agent that is not there, or that is being deleted.
Excused(q) ==
  IF q.id \in Agents THEN excused
  ELSE IF q.value # None /\ \/ content[q.value] = None
                            \/ \E p \in Requests : Deleting(p, q.value)
  THEN excused \cup {q.id} ELSE excused \ {q.id}

(* Whoever opened the file before this write and writes after it writes     *)
(* over it, from the start: a longer text leaves its end behind.            *)
Write(r) ==
  LET q == request[r]
      registry == RegistryOf(q.id)
  IN  /\ q.pc \in {"write", "overwrite"}
      /\ content' = IF database THEN RowsAfter(q) ELSE FileAfter(q)
      /\ \/ torn' = torn \ {registry}
         \/ q.pc = "overwrite" /\ torn' = torn \cup {registry}
      /\ request' = [p \in Requests |->
           IF p = r THEN Idle
           ELSE IF ~database /\ request[p].pc = "write" /\ RegistryOf(request[p].id) = registry
           THEN [request[p] EXCEPT !.pc = "overwrite"] ELSE request[p]]
      /\ known' = Told(q)
      /\ excused' = Excused(q)
      /\ UNCHANGED <<database, used, spoiled>>

\* The process dies and is started again; what it had emptied stays empty.
Dies ==
  /\ \E r \in Requests : request[r].pc # "idle"
  /\ request' = [r \in Requests |-> Idle]
  /\ spoiled' = spoiled \cup torn
  /\ UNCHANGED <<database, content, torn, used, known, excused>>

Next ==
  \/ \E r \in Requests :
       Begin(r) \/ CheckReferences(r) \/ Read(r) \/ Truncate(r) \/ Write(r)
  \/ Dies

Spec == Init /\ [][Next]_vars
-----------------------------------------------------------------------------
(* Properties *)

TypeOK ==
  /\ database \in BOOLEAN
  /\ content \in Records
  /\ torn \in SUBSET Registry
  /\ request \in [Requests -> Request]
  /\ used \in SUBSET Ids
  /\ known \in Records
  /\ excused \in SUBSET Workflows
  /\ spoiled \in SUBSET Registry

(* No acknowledged change is lost: in the database however the requests     *)
(* interleave (an update does not bring back what was deleted meanwhile),   *)
(* in a file unless two of its writers overlapped or one died; and unless   *)
(* that happened a file that cannot be read is about to be written.         *)
Kept ==
  /\ \A x \in Ids :
       database \/ RegistryOf(x) \notin spoiled => content[x] = known[x]
  /\ \A registry \in torn :
       /\ ~database
       /\ registry \in spoiled \/ \E r \in Requests : Busy(r, registry)

(* delete_agent looks at the workflows and deletes the agent in two steps:  *)
(* a template that names a deleted agent was written with it after the look *)
(* or after the deletion, unless a lost update of a file brought it back.   *)
References ==
  \A w \in Workflows :
    content[w] # None /\ w \notin excused /\ spoiled = {} => content[content[w]] # None
=============================================================================
