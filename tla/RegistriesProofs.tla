---------------------------- MODULE RegistriesProofs ----------------------------
(***************************************************************************)
(* What the registries keep, for any number of threads, agents, templates  *)
(* and deaths.                                                             *)
(*                                                                         *)
(* A file keeps every change as long as its writers come one after the     *)
(* other: the one that has read it holds what it contains (FileOK).  A     *)
(* template cannot come to name a deleted agent because whoever deletes it *)
(* has seen no template that names it, and who names it later is excused   *)
(* (DeletingOK).                                                           *)
(***************************************************************************)
EXTENDS Registries, TLAPS

RequestOK(r) ==
  request[r].pc # "idle" =>
    /\ request[r].id \in Ids
    /\ request[r].value = None <=> request[r].op = "delete"

\* What is written is what the one writer read, with one change.
WriterOK(r, registry) ==
  /\ request[r].pc # "overwrite"
  /\ request[r].op = "create" \/ content[request[r].id] # None
  /\ \A x \in Ids : RegistryOf(x) = registry => request[r].seen[x] = content[x]
  /\ \A p \in Requests : Busy(p, registry) => p = r

FileOK(registry) ==
  ~database /\ registry \notin spoiled =>
    \A r \in Requests : Busy(r, registry) => WriterOK(r, registry)

DatabaseOK ==
  database => /\ torn = {}
              /\ \A r \in Requests : request[r].pc \notin {"truncate", "overwrite"}

DeletingOK ==
  spoiled = {} =>
    \A r \in Requests, a \in Agents, w \in Workflows :
      Deleting(r, a) /\ content[w] = a => w \in excused

Types == TypeOK /\ \A r \in Requests : RequestOK(r)

Clean ==
  /\ \A registry \in Registry : FileOK(registry)
  /\ DatabaseOK
  /\ Kept
  /\ DeletingOK
  /\ References

IInv == Types /\ Clean
-----------------------------------------------------------------------------
LEMMA InitTypes == Init => Types
BY DEF Init, Types, RequestOK, TypeOK, Records, Record, Request, Idle, Empty, Registry

\* A thread goes from one well-formed request to another.
LEMMA RequestTypes ==
  ASSUME TypeOK, NEW r \in Requests, NEW q \in Request, Goes(r, q)
  PROVE  request' \in [Requests -> Request]
BY DEF TypeOK, Goes

LEMMA IdleType == Idle \in Request /\ Idle.pc = "idle"
BY DEF Idle, Request, Record, Records, Empty

LEMMA RegistryType == \A x : RegistryOf(x) \in Registry
BY DEF RegistryOf, Registry

LEMMA NextTypes == TypeOK /\ (\A r \in Requests : RequestOK(r)) /\ [Next]_vars => TypeOK'
<1> SUFFICES ASSUME TypeOK, \A r \in Requests : RequestOK(r), [Next]_vars PROVE TypeOK'
  OBVIOUS
<1> USE IdleType, RegistryType, RequestTypes
<1>1. \A r \in Requests : request[r] \in Request
  BY DEF TypeOK
<1>2. ASSUME NEW r \in Requests, Begin(r) PROVE TypeOK'
  <2>1. PICK x \in Ids, op \in {"create", "update", "delete"}, v \in Record :
          /\ Goes(r, [Idle EXCEPT !.op = op, !.id = x, !.value = v,
                        !.pc = IF x \in Agents /\ op = "delete" THEN "check" ELSE "read"])
          /\ used' = used \cup {x}
    BY <1>2 DEF Begin
  <2>2. [Idle EXCEPT !.op = op, !.id = x, !.value = v,
           !.pc = IF x \in Agents /\ op = "delete" THEN "check" ELSE "read"] \in Request
    BY DEF Request
  <2>3. request' \in [Requests -> Request]
    BY <2>1, <2>2
  <2> QED BY <1>2, <2>1, <2>3 DEF Begin, TypeOK
<1>3. ASSUME NEW r \in Requests, CheckReferences(r) PROVE TypeOK'
  <2>1. [request[r] EXCEPT !.pc = "read"] \in Request
    BY <1>1 DEF Request
  <2>2. request' \in [Requests -> Request]
    BY <1>3, <2>1 DEF CheckReferences
  <2> QED BY <1>3, <2>2 DEF CheckReferences, TypeOK
<1>4. ASSUME NEW r \in Requests, Read(r) PROVE TypeOK'
  <2>1. [request[r] EXCEPT !.pc = "write"] \in Request
    BY <1>1 DEF Request
  <2>2. Listed(RegistryOf(request[r].id)) \in Records
    BY DEF Listed, Records, Record, TypeOK
  <2>3. [request[r] EXCEPT !.pc = "truncate", !.seen = Listed(RegistryOf(request[r].id))]
          \in Request
    BY <1>1, <2>2 DEF Request
  <2>4. request' \in [Requests -> Request]
    BY <1>4, <2>1, <2>3 DEF Read
  <2> QED BY <1>4, <2>4 DEF Read, TypeOK
<1>5. ASSUME NEW r \in Requests, Truncate(r) PROVE TypeOK'
  <2>1. [request[r] EXCEPT !.pc = "write"] \in Request
    BY <1>1 DEF Request
  <2>2. request' \in [Requests -> Request]
    BY <1>5, <2>1 DEF Truncate
  <2> QED BY <1>5, <2>2 DEF Truncate, TypeOK
<1>6. ASSUME NEW r \in Requests, Write(r) PROVE TypeOK'
  <2>1. \A p \in Requests : [request[p] EXCEPT !.pc = "overwrite"] \in Request
    BY <1>1 DEF Request
  <2>2. request' \in [Requests -> Request]
    BY <1>1, <1>6, <2>1 DEF Write
  <2>3. request[r].value \in Record /\ request[r].seen \in Records
    BY <1>1 DEF Request
  <2>4. content' \in Records
    BY <1>6, <2>3 DEF Write, RowsAfter, FileAfter, Records, TypeOK
  <2>5. known' \in Records
    BY <1>6, <2>3 DEF Write, Told, Records, TypeOK
  <2>6. request[r].id \in Ids
    BY <1>6 DEF Write, RequestOK
  <2>7. excused' \in SUBSET Workflows
    <3>1. request[r].pc # "idle" /\ excused \in SUBSET Workflows
      BY <1>6 DEF Write, TypeOK
    <3> QED BY <1>6, <2>6, <3>1 DEF Write, Excused, Ids, TypeOK
  <2> QED BY <1>6, <2>2, <2>4, <2>5, <2>7 DEF Write, TypeOK
<1>7. ASSUME Dies PROVE TypeOK'
  BY <1>7 DEF Dies, TypeOK
<1>8. ASSUME UNCHANGED vars PROVE TypeOK'
  BY <1>8 DEF vars, TypeOK
<1> QED BY <1>2, <1>3, <1>4, <1>5, <1>6, <1>7, <1>8 DEF Next

SameTask(p) ==
  /\ request'[p].id = request[p].id
  /\ request'[p].op = request[p].op
  /\ request'[p].value = request[p].value

\* A thread that looks or empties goes on with what it was asked, or is done.
LEMMA GoesOn ==
  ASSUME TypeOK, NEW r \in Requests, CheckReferences(r) \/ Read(r) \/ Truncate(r)
  PROVE  /\ request'[r] = Idle \/ SameTask(r)
         /\ \A p \in Requests \ {r} : request'[p] = request[p]
<1> USE DEF SameTask, TypeOK
<1>1. request[r] \in Request
  OBVIOUS
<1>2. CASE CheckReferences(r)
  BY <1>1, <1>2 DEF CheckReferences, Goes, Request
<1>3. CASE Read(r)
  <2>1. \/ Goes(r, Idle)
        \/ Goes(r, [request[r] EXCEPT !.pc = "write"])
        \/ Goes(r, [request[r] EXCEPT !.pc = "truncate",
                                      !.seen = Listed(RegistryOf(request[r].id))])
    BY <1>3 DEF Read
  <2>2. CASE Goes(r, Idle)
    BY <2>2 DEF Goes
  <2>3. CASE Goes(r, [request[r] EXCEPT !.pc = "write"])
    BY <1>1, <2>3 DEF Goes, Request
  <2>4. CASE Goes(r, [request[r] EXCEPT !.pc = "truncate",
                                       !.seen = Listed(RegistryOf(request[r].id))])
    BY <1>1, <2>4 DEF Goes, Request
  <2> QED BY <2>1, <2>2, <2>3, <2>4
<1>4. CASE Truncate(r)
  BY <1>1, <1>4 DEF Truncate, Goes, Request
<1> QED BY <1>2, <1>3, <1>4

\* Every request has an id and says what is to become of it.
LEMMA NextRequests ==
  ASSUME Types, [Next]_vars, NEW p \in Requests PROVE RequestOK(p)'
<1> USE DEF Types, RequestOK, TypeOK
<1>1. request[p] \in Request /\ RequestOK(p)
  OBVIOUS
<1>2. ASSUME NEW r \in Requests, Begin(r) PROVE RequestOK(p)'
  <2>1. PICK x \in Ids, op \in {"create", "update", "delete"}, v \in Record :
          /\ v = None <=> op = "delete"
          /\ Goes(r, [Idle EXCEPT !.op = op, !.id = x, !.value = v,
                        !.pc = IF x \in Agents /\ op = "delete" THEN "check" ELSE "read"])
    BY <1>2 DEF Begin
  <2>2. CASE p = r
    <3> DEFINE q == [Idle EXCEPT !.op = op, !.id = x, !.value = v,
                       !.pc = IF x \in Agents /\ op = "delete" THEN "check" ELSE "read"]
    <3>1. request'[p] = q
      BY <2>1, <2>2 DEF Goes
    <3>2. q.id = x /\ q.op = op /\ q.value = v
      BY DEF Idle
    <3> QED BY <2>1, <3>1, <3>2
  <2>3. CASE p # r
    BY <1>1, <2>1, <2>3 DEF Goes
  <2> QED BY <2>2, <2>3
<1>3. ASSUME NEW r \in Requests, CheckReferences(r) \/ Read(r) \/ Truncate(r) PROVE RequestOK(p)'
  <2>1. request'[p] = Idle \/ SameTask(p)
    BY <1>1, <1>3, GoesOn DEF SameTask
  <2>2. request[p].pc = "idle" => request'[p] = request[p]
    BY <1>3, GoesOn DEF CheckReferences, Read, Truncate
  <2> QED BY <1>1, <2>1, <2>2, IdleType DEF SameTask
<1>4. ASSUME NEW r \in Requests, Write(r) PROVE RequestOK(p)'
  <2>1. request'[p] = Idle \/ request'[p] = request[p]
          \/ (request[p].pc = "write" /\ request'[p] = [request[p] EXCEPT !.pc = "overwrite"])
    BY <1>4 DEF Write
  <2>2. request'[p] = Idle \/ request'[p] = request[p] \/ (request[p].pc = "write" /\ SameTask(p))
    BY <1>1, <2>1 DEF SameTask, Request
  <2> QED BY <1>1, <2>2, IdleType DEF SameTask
<1>5. CASE Dies
  BY <1>5, IdleType DEF Dies
<1>6. CASE UNCHANGED vars
  BY <1>1, <1>6 DEF vars
<1> QED BY <1>2, <1>3, <1>4, <1>5, <1>6 DEF Next

\* The registries and what their threads are at keep their types.
THEOREM Typing == Spec => []TypeOK
<1>1. Types /\ [Next]_vars => Types'
  BY NextTypes, NextRequests DEF Types
<1>2. Types => TypeOK
  BY DEF Types
<1> QED BY InitTypes, <1>1, <1>2, PTL DEF Spec
-----------------------------------------------------------------------------
(* The invariant *)

LEMMA InitClean == Init => Clean
BY DEF Init, Clean, FileOK, DatabaseOK, Kept, DeletingOK, References, Busy, Deleting, Idle,
       Empty, Ids

\* A step that changes no record and lets no thread into a file.
LEMMA Quiet ==
  ASSUME IInv, UNCHANGED <<database, content, torn, known, excused, spoiled>>,
         \A p \in Requests, registry \in Registry :
           /\ Busy(p, registry)' <=> Busy(p, registry)
           /\ Busy(p, registry) => request'[p] = request[p],
         \A p \in Requests, a \in Agents :
           Deleting(p, a)' => Deleting(p, a) \/ (\A w \in Workflows : content[w] # a),
         \A p \in Requests :
           request'[p] = request[p] \/ request'[p].pc \notin {"truncate", "overwrite"}
  PROVE  Clean'
<1> USE DEF IInv, Clean
<1>1. ASSUME NEW registry \in Registry PROVE FileOK(registry)'
  <2>1. FileOK(registry)
    OBVIOUS
  <2>2. SUFFICES ASSUME ~database, registry \notin spoiled,
                        NEW r \in Requests, Busy(r, registry)'
                 PROVE  WriterOK(r, registry)'
    BY DEF FileOK
  <2>3. Busy(r, registry) /\ WriterOK(r, registry) /\ request'[r] = request[r]
    BY <2>1, <2>2 DEF FileOK
  <2> QED BY <2>3 DEF WriterOK
<1>2. DatabaseOK'
  BY DEF DatabaseOK
<1>3. Kept'
  <2>1. torn \in SUBSET Registry
    BY DEF Types, TypeOK
  <2> QED BY <2>1 DEF Kept
<1>4. DeletingOK'
  BY DEF DeletingOK
<1>5. References'
  BY DEF References
<1> QED BY <1>1, <1>2, <1>3, <1>4, <1>5

LEMMA BeginKeeps ==
  ASSUME IInv, NEW r \in Requests, Begin(r) PROVE Clean'
<1> USE DEF IInv, Types, TypeOK
<1>1. PICK x \in Ids, op \in {"create", "update", "delete"}, v \in Record :
        Goes(r, [Idle EXCEPT !.op = op, !.id = x, !.value = v,
                   !.pc = IF x \in Agents /\ op = "delete" THEN "check" ELSE "read"])
  BY DEF Begin
<1> DEFINE q == [Idle EXCEPT !.op = op, !.id = x, !.value = v,
                   !.pc = IF x \in Agents /\ op = "delete" THEN "check" ELSE "read"]
<1>2. /\ request'[r] = q
      /\ \A p \in Requests \ {r} : request'[p] = request[p]
  BY <1>1 DEF Goes
<1>3. /\ q.pc = IF x \in Agents /\ op = "delete" THEN "check" ELSE "read"
      /\ q.id = x /\ q.op = op
  BY DEF Idle
<1> HIDE DEF q
<1>4. request[r].pc = "idle" /\ UNCHANGED <<database, content, torn, known, excused, spoiled>>
  BY DEF Begin
<1>5. ASSUME NEW p \in Requests, NEW registry \in Registry
      PROVE  /\ Busy(p, registry)' <=> Busy(p, registry)
             /\ Busy(p, registry) => request'[p] = request[p]
  BY <1>2, <1>3, <1>4 DEF Busy
<1>6. ASSUME NEW p \in Requests, NEW a \in Agents, Deleting(p, a)' PROVE Deleting(p, a)
  BY <1>2, <1>3, <1>6 DEF Deleting
<1> QED BY <1>2, <1>3, <1>4, <1>5, <1>6, Quiet

LEMMA CheckKeeps ==
  ASSUME IInv, NEW r \in Requests, CheckReferences(r) PROVE Clean'
<1> USE DEF IInv, Types, TypeOK
<1>1. request[r] \in Request /\ request[r].pc = "check"
      /\ UNCHANGED <<database, content, torn, known, excused, spoiled>>
  BY DEF CheckReferences
<1>2. \A p \in Requests \ {r} : request'[p] = request[p]
  BY GoesOn
<1>3. \/ request'[r] = Idle
      \/ ~Referenced(request[r].id) /\ SameTask(r) /\ request'[r].pc = "read"
  BY <1>1 DEF CheckReferences, Goes, Request, SameTask
<1>4. ASSUME NEW p \in Requests, NEW registry \in Registry
      PROVE  /\ Busy(p, registry)' <=> Busy(p, registry)
             /\ Busy(p, registry) => request'[p] = request[p]
  BY <1>1, <1>2, <1>3, IdleType DEF Busy
<1>5. ASSUME NEW p \in Requests, NEW a \in Agents, Deleting(p, a)'
      PROVE  Deleting(p, a) \/ (\A w \in Workflows : content[w] # a)
  BY <1>1, <1>2, <1>3, <1>5, IdleType DEF Deleting, SameTask, Referenced
<1> QED BY <1>1, <1>2, <1>3, <1>4, <1>5, Quiet, IdleType

LEMMA StutterKeeps == IInv /\ UNCHANGED vars => Clean'
<1> SUFFICES ASSUME IInv, UNCHANGED vars PROVE Clean'
  OBVIOUS
<1> QED BY Quiet DEF vars, Busy, Deleting

LEMMA DiesKeeps == IInv /\ Dies => Clean'
<1> SUFFICES ASSUME IInv, Dies PROVE Clean'
  OBVIOUS
<1> USE DEF IInv, Clean
<1>1. /\ \A r \in Requests : request'[r].pc = "idle"
      /\ UNCHANGED <<database, content, torn, known, excused>>
      /\ spoiled' = spoiled \cup torn
  BY IdleType DEF Dies
<1>2. ASSUME NEW registry \in Registry PROVE FileOK(registry)'
  BY <1>1 DEF FileOK, Busy
<1>3. DatabaseOK'
  BY <1>1 DEF DatabaseOK
<1>4. Kept'
  BY <1>1 DEF Kept, DatabaseOK
<1>5. DeletingOK'
  BY <1>1 DEF DeletingOK, Deleting
<1>6. References'
  <2>1. spoiled' = {} => spoiled = {}
    BY <1>1
  <2> QED BY <1>1, <2>1 DEF References
<1> QED BY <1>2, <1>3, <1>4, <1>5, <1>6

LEMMA ReadKeeps ==
  ASSUME IInv, NEW r \in Requests, Read(r) PROVE Clean'
<1> USE DEF IInv, Types, TypeOK
<1>0. PICK reg \in Registry : reg = RegistryOf(request[r].id)
  BY RegistryType
<1>1. /\ request[r] \in Request /\ request[r].pc = "read" /\ reg \in Registry
      /\ UNCHANGED <<database, content, torn, known, excused>>
      /\ \A p \in Requests \ {r} : request'[p] = request[p]
  BY GoesOn DEF Read
<1>2. \/ request'[r] = Idle /\ spoiled' = spoiled
      \/ /\ database /\ SameTask(r) /\ request'[r].pc = "write" /\ spoiled' = spoiled
      \/ /\ ~database /\ SameTask(r) /\ request'[r].pc = "truncate"
         /\ request'[r].seen = Listed(reg)
         /\ request[r].op = "create" \/ content[request[r].id] # None
         /\ spoiled' = IF \E p \in Requests : Busy(p, reg)
                       THEN spoiled \cup {reg} ELSE spoiled
  <2>1. CASE request' = [request EXCEPT ![r] = Idle] /\ UNCHANGED spoiled
    BY <2>1
  <2>2. CASE /\ database /\ request' = [request EXCEPT ![r] = [request[r] EXCEPT !.pc = "write"]]
             /\ UNCHANGED spoiled
    BY <1>1, <2>2 DEF SameTask, Request
  <2>3. CASE /\ ~database
             /\ request' = [request EXCEPT ![r] = [request[r] EXCEPT !.pc = "truncate",
                                                                     !.seen = Listed(reg)]]
             /\ request[r].op = "create" \/ content[request[r].id] # None
             /\ spoiled' = IF \E p \in Requests : Busy(p, reg)
                           THEN spoiled \cup {reg} ELSE spoiled
    BY <1>1, <2>3 DEF SameTask, Request
  <2> QED BY <1>0, <2>1, <2>2, <2>3 DEF Read, Goes
<1>3. CASE request'[r] = Idle /\ spoiled' = spoiled
  <2>1. ASSUME NEW p \in Requests, NEW registry \in Registry
        PROVE  /\ Busy(p, registry)' <=> Busy(p, registry)
               /\ Busy(p, registry) => request'[p] = request[p]
    BY <1>1, <1>3, IdleType DEF Busy
  <2>2. ASSUME NEW p \in Requests, NEW a \in Agents, Deleting(p, a)' PROVE Deleting(p, a)
    BY <1>1, <1>3, <2>2, IdleType DEF Deleting
  <2> QED BY <1>1, <1>3, <2>1, <2>2, Quiet, IdleType
<1>4. ASSUME spoiled \subseteq spoiled', SameTask(r), request'[r].pc \in {"write", "truncate"}
      PROVE  DeletingOK' /\ References'
  <2>1. ASSUME NEW p \in Requests, NEW a \in Agents, Deleting(p, a)' PROVE Deleting(p, a)
    BY <1>1, <1>4, <2>1 DEF Deleting, SameTask
  <2>2. spoiled' = {} => spoiled = {}
    BY <1>4
  <2>3. DeletingOK'
    BY <1>1, <2>1, <2>2 DEF DeletingOK, Clean
  <2>4. References'
    BY <1>1, <2>2 DEF References, Clean
  <2> QED BY <2>3, <2>4
<1>5. CASE database /\ SameTask(r) /\ request'[r].pc = "write" /\ spoiled' = spoiled
  BY <1>1, <1>4, <1>5 DEF Clean, FileOK, DatabaseOK, Kept
<1>6. CASE /\ ~database /\ SameTask(r) /\ request'[r].pc = "truncate"
           /\ request'[r].seen = Listed(reg)
           /\ request[r].op = "create" \/ content[request[r].id] # None
           /\ spoiled' = IF \E p \in Requests : Busy(p, reg)
                         THEN spoiled \cup {reg} ELSE spoiled
  <2>1. Clean
    OBVIOUS
  <2>2. ASSUME NEW registry \in Registry PROVE FileOK(registry)'
    <3>1. SUFFICES ASSUME registry \notin spoiled', NEW p \in Requests, Busy(p, registry)'
                   PROVE  WriterOK(p, registry)'
      BY DEF FileOK
    <3>2. registry \notin spoiled
      BY <1>6, <3>1
    <3>3. CASE registry = reg
      <4>1. \A o \in Requests : ~Busy(o, reg)
        BY <1>1, <1>6, <3>1, <3>3
      <4>2. \A o \in Requests \ {r} : ~Busy(o, reg)'
        BY <1>1, <4>1 DEF Busy
      <4>3. p = r
        BY <3>1, <3>3, <4>2
      <4>4. \A x \in Ids : RegistryOf(x) = registry => request'[r].seen[x] = content[x]
        BY <1>6, <3>3 DEF Listed
      <4> QED BY <1>1, <1>6, <3>3, <4>2, <4>3, <4>4 DEF WriterOK, SameTask
    <3>4. CASE registry # reg
      <4>1. ~Busy(r, registry)'
        BY <1>0, <1>6, <3>4 DEF Busy, SameTask
      <4>2. \A o \in Requests : Busy(o, registry)' => Busy(o, registry)
        BY <1>1, <4>1 DEF Busy
      <4>3. p # r /\ WriterOK(p, registry)
        BY <1>6, <2>1, <3>1, <3>2, <4>1, <4>2 DEF Clean, FileOK
      <4> QED BY <1>1, <4>2, <4>3 DEF WriterOK
    <3> QED BY <3>3, <3>4
  <2>3. Kept'
    <3>1. \A p \in Requests, registry \in Registry : Busy(p, registry) => Busy(p, registry)'
      BY <1>1 DEF Busy
    <3>2. spoiled \subseteq spoiled'
      BY <1>6
    <3> QED BY <1>1, <2>1, <3>1, <3>2 DEF Clean, Kept
  <2>4. DatabaseOK'
    BY <1>1, <1>6 DEF DatabaseOK
  <2> QED BY <1>4, <1>6, <2>2, <2>3, <2>4 DEF Clean
<1> QED BY <1>2, <1>3, <1>5, <1>6

LEMMA TruncateKeeps ==
  ASSUME IInv, NEW r \in Requests, Truncate(r) PROVE Clean'
<1> USE DEF IInv, Types, TypeOK
<1>0. PICK reg \in Registry : reg = RegistryOf(request[r].id)
  BY RegistryType
<1>1. /\ request[r] \in Request /\ request[r].pc = "truncate"
      /\ torn' = torn \cup {reg}
      /\ UNCHANGED <<database, content, known, excused, spoiled>>
  BY <1>0 DEF Truncate
<1>2. /\ \A p \in Requests \ {r} : request'[p] = request[p]
      /\ SameTask(r) /\ request'[r].pc = "write" /\ request'[r].seen = request[r].seen
  BY <1>1 DEF Truncate, Goes, SameTask, Request
<1>3. \A p \in Requests, registry \in Registry : Busy(p, registry)' <=> Busy(p, registry)
  BY <1>1, <1>2 DEF Busy, SameTask
<1>4. Clean
  OBVIOUS
<1>5. ASSUME NEW registry \in Registry PROVE FileOK(registry)'
  BY <1>1, <1>2, <1>3, <1>4 DEF Clean, FileOK, WriterOK, SameTask
<1>6. ~database
  BY <1>1, <1>4 DEF Clean, DatabaseOK
<1>7. Busy(r, reg)'
  BY <1>0, <1>2 DEF Busy, SameTask
<1>8. Kept'
  BY <1>1, <1>3, <1>4, <1>6, <1>7 DEF Clean, Kept
<1>9. DeletingOK'
  <2>1. \A p \in Requests, a \in Agents : Deleting(p, a)' => Deleting(p, a)
    BY <1>1, <1>2 DEF Deleting, SameTask
  <2> QED BY <1>1, <1>4, <2>1 DEF Clean, DeletingOK
<1>10. References'
  BY <1>1, <1>4 DEF Clean, References
<1> QED BY <1>1, <1>5, <1>6, <1>8, <1>9, <1>10 DEF Clean, DatabaseOK

\* The writer of a registry that is not spoiled changes its own record only.
LEMMA WriteChanges ==
  ASSUME IInv, NEW r \in Requests, Write(r),
         database \/ RegistryOf(request[r].id) \notin spoiled
  PROVE  \A x \in Ids : content'[x] = RowsAfter(request[r])[x]
<1> USE DEF IInv, Types, TypeOK
<1>1. PICK q \in Request : q = request[r]
  OBVIOUS
<1>2. q.pc \in {"write", "overwrite"} /\ q.id \in Ids
  BY <1>1 DEF Write, RequestOK
<1>3. CASE database
  BY <1>3 DEF Write
<1>4. CASE ~database
  <2>1. Busy(r, RegistryOf(q.id))
    BY <1>1, <1>2 DEF Busy
  <2>2. WriterOK(r, RegistryOf(q.id))
    BY <1>1, <1>4, <2>1, RegistryType DEF Clean, FileOK
  <2>3. q.op = "create" \/ content[q.id] # None
    BY <1>1, <2>2 DEF WriterOK
  <2>4. \A x \in Ids : RegistryOf(x) = RegistryOf(q.id) => q.seen[x] = content[x]
    BY <1>1, <2>2 DEF WriterOK
  <2>5. content' = FileAfter(q)
    BY <1>1, <1>4 DEF Write
  <2>6. ASSUME NEW x \in Ids PROVE FileAfter(q)[x] = RowsAfter(q)[x]
    <3>1. FileAfter(q)[x] = IF x = q.id THEN q.value ELSE content[x]
      BY <2>4 DEF FileAfter
    <3>2. RowsAfter(q)[x] = IF x = q.id THEN q.value ELSE content[x]
      BY <2>3 DEF RowsAfter, Records
    <3> QED BY <3>1, <3>2
  <2> QED BY <1>1, <2>5, <2>6
<1> QED BY <1>3, <1>4

LEMMA WriteKeeps ==
  ASSUME IInv, NEW r \in Requests, Write(r) PROVE Clean'
<1> USE DEF IInv, Types, TypeOK
<1>0. PICK q \in Request, reg \in Registry : q = request[r] /\ reg = RegistryOf(request[r].id)
  BY RegistryType
<1>1. /\ q.pc \in {"write", "overwrite"} /\ q.id \in Ids
      /\ q.value = None <=> q.op = "delete"
  BY <1>0 DEF Write, RequestOK
<1>2. /\ UNCHANGED <<database, spoiled>>
      /\ known' = Told(q) /\ excused' = Excused(q)
      /\ torn' = torn \ {reg} \/ (q.pc = "overwrite" /\ torn' = torn \cup {reg})
  BY <1>0 DEF Write
<1>3. /\ request'[r] = Idle
      /\ \A p \in Requests \ {r} :
           \/ request'[p] = request[p]
           \/ /\ ~database /\ request[p].pc = "write" /\ request'[p].pc = "overwrite"
              /\ SameTask(p) /\ request'[p].seen = request[p].seen
  <2>1. \A p \in Requests : request[p] \in Request
    OBVIOUS
  <2>2. \A p \in Requests \ {r} :
          \/ request'[p] = request[p]
          \/ /\ ~database /\ request[p].pc = "write"
             /\ request'[p] = [request[p] EXCEPT !.pc = "overwrite"]
    BY DEF Write
  <2>3. request'[r] = Idle
    BY DEF Write
  <2>4. ASSUME NEW p \in Requests, request'[p] = [request[p] EXCEPT !.pc = "overwrite"]
        PROVE  /\ request'[p].pc = "overwrite" /\ request'[p].seen = request[p].seen
               /\ SameTask(p)
    BY <2>1, <2>4 DEF SameTask, Request
  <2> QED BY <2>2, <2>3, <2>4
<1>4. \A p \in Requests, registry \in Registry :
        Busy(p, registry)' <=> Busy(p, registry) /\ p # r
  BY <1>3, IdleType DEF Busy, SameTask
<1>5. \A p \in Requests, a \in Agents : Deleting(p, a)' => Deleting(p, a) /\ p # r
  BY <1>3, IdleType DEF Deleting, SameTask
<1>6. Clean /\ Busy(r, reg)
  BY <1>0, <1>1 DEF Busy
<1>7. database \/ reg \notin spoiled => \A x \in Ids : content'[x] = RowsAfter(q)[x]
  BY <1>0, WriteChanges
<1>8. ~database => \A x \in Ids : RegistryOf(x) # reg => content'[x] = content[x]
  BY <1>0 DEF Write, FileAfter
<1>9. ASSUME NEW registry \in Registry PROVE FileOK(registry)'
  <2>1. SUFFICES ASSUME ~database, registry \notin spoiled,
                        NEW p \in Requests, Busy(p, registry)'
                 PROVE  WriterOK(p, registry)'
    BY <1>2 DEF FileOK
  <2>2. p # r /\ Busy(p, registry) /\ WriterOK(p, registry)
    BY <1>4, <1>6, <2>1 DEF Clean, FileOK
  <2>3. registry # reg
    BY <1>6, <2>2 DEF WriterOK
  <2>4. \A x \in Ids : RegistryOf(x) = registry => content'[x] = content[x]
    BY <1>8, <2>1, <2>3
  <2>5. request'[p] = request[p]
    BY <1>0, <2>2, <2>3 DEF Write, Busy
  <2>6. request[p].id \in Ids /\ RegistryOf(request[p].id) = registry
    BY <2>2 DEF Busy, RequestOK
  <2> QED BY <1>4, <2>2, <2>4, <2>5, <2>6 DEF WriterOK
<1>10. DatabaseOK'
  <2>1. SUFFICES ASSUME database PROVE /\ torn' = {}
                                       /\ \A p \in Requests : request'[p].pc \notin {"truncate", "overwrite"}
    BY <1>2 DEF DatabaseOK
  <2>2. torn = {} /\ \A p \in Requests : request[p].pc \notin {"truncate", "overwrite"}
    BY <1>6, <2>1 DEF Clean, DatabaseOK
  <2> QED BY <1>0, <1>2, <1>3, <2>1, <2>2, IdleType
<1>11. Kept'
  <2>1. ASSUME NEW x \in Ids, database \/ RegistryOf(x) \notin spoiled
        PROVE  content'[x] = known'[x]
    <3>1. content[x] = known[x]
      BY <1>6, <2>1 DEF Clean, Kept
    <3>2. known'[x] = IF x = q.id /\ (q.op = "create" \/ known[x] # None) THEN q.value ELSE known[x]
      BY <1>2 DEF Told, Records
    <3>3. RowsAfter(q)[x] = IF x = q.id /\ (q.op = "create" \/ content[x] # None)
                            THEN q.value ELSE content[x]
      BY DEF RowsAfter, Records
    <3>4. CASE database \/ reg \notin spoiled
      BY <1>7, <3>1, <3>2, <3>3, <3>4
    <3>5. CASE ~database /\ reg \in spoiled
      <4>1. RegistryOf(x) # reg /\ x # q.id
        BY <1>0, <2>1, <3>5
      <4> QED BY <1>8, <3>1, <3>2, <3>5, <4>1
    <3> QED BY <3>4, <3>5
  <2>2. ASSUME NEW registry \in torn'
        PROVE  ~database /\ (registry \in spoiled \/ \E p \in Requests : Busy(p, registry)')
    <3>1. ~database
      BY <1>2, <1>10, <2>2 DEF DatabaseOK
    <3>2. CASE registry = reg
      <4>1. q.pc = "overwrite"
        BY <1>2, <2>2, <3>2
      <4>2. reg \in spoiled
        BY <1>0, <1>6, <3>1, <4>1 DEF Clean, FileOK, WriterOK
      <4> QED BY <3>1, <3>2, <4>2
    <3>3. CASE registry # reg
      <4>1. registry \in torn /\ registry \in Registry
        BY <1>2, <2>2, <3>3
      <4>2. registry \in spoiled \/ \E p \in Requests : Busy(p, registry)
        BY <1>6, <4>1 DEF Clean, Kept
      <4>3. ~Busy(r, registry)
        BY <1>0, <3>3 DEF Busy
      <4> QED BY <1>4, <3>1, <4>1, <4>2, <4>3
    <3> QED BY <3>2, <3>3
  <2> QED BY <1>2, <2>1, <2>2 DEF Kept
<1>12. /\ spoiled = {} => \A x \in Ids :
             content'[x] = IF x = q.id /\ (q.op = "create" \/ content[x] # None)
                           THEN q.value ELSE content[x]
       /\ \A w \in Workflows : w # q.id /\ w \in excused => w \in excused'
  <2>1. \A w \in Workflows : w # q.id /\ w \in excused => w \in excused'
    BY <1>2 DEF Excused
  <2>2. spoiled = {} => \A x \in Ids : content'[x] = RowsAfter(q)[x]
    BY <1>7
  <2>3. \A x \in Ids :
          RowsAfter(q)[x] = IF x = q.id /\ (q.op = "create" \/ content[x] # None)
                            THEN q.value ELSE content[x]
    BY DEF RowsAfter, Records
  <2> QED BY <2>1, <2>2, <2>3
<1>13. DeletingOK'
  <2>1. SUFFICES ASSUME spoiled = {}, NEW p \in Requests, NEW a \in Agents, NEW w \in Workflows,
                        Deleting(p, a)', content'[w] = a
                 PROVE  w \in excused'
    BY <1>2 DEF DeletingOK
  <2>2. w \in Ids /\ a # None /\ w \notin Agents
    BY IdsAssumption DEF Ids
  <2>3. CASE w # q.id
    <3>1. content[w] = a
      BY <1>12, <2>1, <2>2, <2>3
    <3> QED BY <1>5, <1>6, <1>12, <2>1, <2>3, <3>1 DEF Clean, DeletingOK
  <2>4. CASE w = q.id
    <3>1. q.value = a
      BY <1>12, <2>1, <2>2, <2>4
    <3> QED BY <1>2, <1>5, <2>1, <2>2, <2>4, <3>1 DEF Excused
  <2> QED BY <2>3, <2>4
<1>14. References'
  <2>1. SUFFICES ASSUME NEW w \in Workflows, content'[w] # None, w \notin excused', spoiled = {}
                 PROVE  content'[content'[w]] # None
    BY <1>2 DEF References
  <2>2. w \in Ids /\ w \notin Agents
    BY IdsAssumption DEF Ids
  <2>3. CASE w # q.id
    <3>1. PICK a \in Agents : content'[w] = a /\ content[w] = a
      BY <1>12, <2>1, <2>2, <2>3 DEF Records, Record
    <3>2. content[a] # None /\ w \notin excused /\ a \in Ids
      BY <1>6, <1>12, <2>1, <2>3, <3>1 DEF Clean, References, Ids
    <3>3. q.id = a => q.value # None
      <4>1. SUFFICES ASSUME q.id = a, q.value = None PROVE FALSE
        OBVIOUS
      <4>2. Deleting(r, a)
        BY <1>0, <1>1, <4>1 DEF Deleting
      <4> QED BY <1>6, <2>1, <3>1, <3>2, <4>2 DEF Clean, DeletingOK
    <3> QED BY <1>12, <2>1, <3>1, <3>2, <3>3
  <2>4. CASE w = q.id
    <3>1. content'[w] = q.value
      BY <1>12, <2>1, <2>2, <2>4
    <3>2. q.value \in Agents /\ q.value \in Ids /\ q.value # q.id
      BY <2>1, <2>2, <2>4, <3>1 DEF Request, Record, Ids
    <3>3. content[q.value] # None
      BY <1>2, <2>1, <2>2, <2>4, <3>1 DEF Excused
    <3> QED BY <1>12, <2>1, <3>1, <3>2, <3>3
  <2> QED BY <2>3, <2>4
<1> QED BY <1>9, <1>10, <1>11, <1>13, <1>14 DEF Clean
-----------------------------------------------------------------------------
THEOREM Invariance == Spec => []IInv
<1>1. Init => IInv
  BY InitTypes, InitClean DEF IInv
<1>2. IInv /\ [Next]_vars => IInv'
  <2>1. SUFFICES ASSUME IInv, [Next]_vars PROVE IInv'
    OBVIOUS
  <2>2. Types'
    BY <2>1, NextTypes, NextRequests DEF IInv, Types
  <2>3. Clean'
    BY <2>1, BeginKeeps, CheckKeeps, ReadKeeps, TruncateKeeps, WriteKeeps, DiesKeeps,
       StutterKeeps DEF Next
  <2> QED BY <2>2, <2>3 DEF IInv
<1> QED BY <1>1, <1>2, PTL DEF Spec

(* No acknowledged change is lost: never in the database, and in a file     *)
(* only where two of its writers overlapped or one died.                    *)
THEOREM ChangesKept == Spec => []Kept
<1>1. IInv => Kept
  BY DEF IInv, Clean
<1> QED BY <1>1, Invariance, PTL

(* delete_agent's look and its deletion let no template name a deleted      *)
(* agent but one that was written with it in between or later.              *)
THEOREM NoDanglingReference == Spec => []References
<1>1. IInv => References
  BY DEF IInv, Clean
<1> QED BY <1>1, Invariance, PTL
=============================================================================
