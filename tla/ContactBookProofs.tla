--------------------------- MODULE ContactBookProofs ---------------------------
(***************************************************************************)
(* The safety properties of ContactBook, proved for any users, contacts,     *)
(* requests, restarts and outages, and that it implements PoolOnce.         *)
(***************************************************************************)
EXTENDS ContactBook, TLAPS

-----------------------------------------------------------------------------
(* Types                                                                    *)

(* What a request that is under way looks like after a step on it.          *)
LEMMA TaskUpdates ==
  ASSUME TypeOK, NEW r \in Requests, task[r] # None
  PROVE  /\ task[r] \in Task
         /\ \A s \in Stages : [task[r] EXCEPT !.stage = s] \in Task
         /\ \A i \in RowIds :
              [task[r] EXCEPT !.stage = "stored", !.row = i] \in Task
         /\ \A k \in Contact :
              [task[r] EXCEPT !.stage = "seal", !.contact = k] \in Task
         /\ \A c \in Cids :
              [task[r] EXCEPT !.stage = "pinned", !.cid = c] \in Task
         /\ [task[r] EXCEPT !.cancelled = TRUE] \in Task
<1>1. task[r] \in Task
  BY DEF TypeOK
<1>2. "stored" \in Stages /\ "seal" \in Stages /\ "pinned" \in Stages
  BY DEF Stages
<1> HIDE DEF Stages
<1> QED
  BY <1>1, <1>2 DEF Task

LEMMA NewTaskType ==
  ASSUME NEW op \in Ops, NEW t \in Token, NEW s \in Stages
  PROVE  /\ NewTask(op, t, s) \in Task
         /\ \A k \in Contact : [NewTask(op, t, s) EXCEPT !.contact = k] \in Task
         /\ \A a \in Addresses, S \in SUBSET Contact :
              [NewTask(op, t, s) EXCEPT !.addr = a, !.seen = S] \in Task
         /\ \A S \in SUBSET Contact : [NewTask(op, t, s) EXCEPT !.seen = S] \in Task
<1> HIDE DEF Ops, Token, Stages
<1> QED
  BY DEF NewTask, Task

(* The fields of a request under way.                                       *)
LEMMA TaskFields ==
  ASSUME TypeOK, NEW r \in Requests, task[r] # None
  PROVE  /\ task[r].op \in Ops
         /\ task[r].token \in Token
         /\ task[r].token.user \in Users
         /\ task[r].token.chain \in Chains
         /\ task[r].token.epoch \in Epochs
         /\ task[r].stage \in Stages
         /\ task[r].cancelled \in BOOLEAN
         /\ task[r].addr \in Addresses \cup {None}
         /\ task[r].contact \in Contact \cup {None}
         /\ task[r].row \in RowIds \cup {None}
         /\ task[r].cid \in Cids \cup {None}
         /\ task[r].seen \in SUBSET Contact
<1>1. task[r] \in Task
  BY DEF TypeOK
<1> HIDE DEF Ops, Stages, Epochs
<1> QED
  BY <1>1 DEF Task, Token

LEMMA RowFields ==
  ASSUME TypeOK, NEW i \in RowIds, rows[i] # None
  PROVE  /\ rows[i] \in Row
         /\ rows[i].user \in Users
         /\ rows[i].contact \in Contact
         /\ rows[i].contact.addr \in Addresses
         /\ rows[i].contact.key \in PubKeys
         /\ rows[i].contact.network \in Networks
<1>1. rows[i] \in Row
  BY DEF TypeOK
<1> QED
  BY <1>1 DEF Row, Contact

LEMMA TypeInit == Init => TypeOK
  BY BoundAssumption DEF Init, TypeOK, Epochs

(* Every step of a request replaces its task by another one or by none.     *)
LEMMA EndType ==
  ASSUME TypeOK, NEW r \in Requests, End(r)
  PROVE  task' \in [Requests -> Task \cup {None}]
  BY DEF End, TypeOK

LEMMA GoToType ==
  ASSUME TypeOK, NEW r \in Requests, task[r] # None, NEW s \in Stages, GoTo(r, s)
  PROVE  task' \in [Requests -> Task \cup {None}]
<1>1. task' = [task EXCEPT ![r] = [task[r] EXCEPT !.stage = s]]
  BY DEF GoTo
<1>2. [task[r] EXCEPT !.stage = s] \in Task
  BY TaskUpdates
<1> QED
  BY <1>1, <1>2 DEF TypeOK

LEMMA ArriveType ==
  ASSUME TypeOK, NEW r \in Requests, NEW k \in Task, Arrive(r, k)
  PROVE  TypeOK'
  BY DEF Arrive, TypeOK, provider, history

(* A row stored for an add request.                                         *)
LEMMA InsertType ==
  ASSUME TypeOK, Equipped, NEW r \in Requests, NEW i \in RowIds, Insert(r, i)
  PROVE  /\ [user |-> task[r].token.user, contact |-> task[r].contact] \in Row
         /\ TypeOK'
<1>1. task[r] # None /\ task[r].op = "add"
  BY DEF Insert, Doing, At
<1>2. [user |-> task[r].token.user, contact |-> task[r].contact] \in Row
  BY <1>1, TaskFields DEF Equipped, Row
<1>3. task' = [task EXCEPT ![r] = [task[r] EXCEPT !.stage = "stored", !.row = i]]
  BY DEF Insert
<1>4. task' \in [Requests -> Task \cup {None}]
  BY <1>1, <1>3, TaskUpdates DEF TypeOK
<1> QED
  BY <1>2, <1>4 DEF Insert, TypeOK, history, provider

LEMMA LookupType ==
  ASSUME TypeOK, NEW r \in Requests, NEW i \in RowIds, Lookup(r, i)
  PROVE  TypeOK'
<1>1. task[r] # None /\ rows[i] # None
  BY DEF Lookup, At, Matching, ContactsOf
<1>2. rows[i].contact \in Contact
  BY <1>1, RowFields
<1>3. task' = [task EXCEPT ![r] =
                 [task[r] EXCEPT !.stage = "seal", !.contact = rows[i].contact]]
  BY DEF Lookup
<1>4. task' \in [Requests -> Task \cup {None}]
  BY <1>1, <1>2, <1>3, TaskUpdates DEF TypeOK
<1> QED
  BY <1>4 DEF Lookup, TypeOK, history, provider

LEMMA UploadType ==
  ASSUME TypeOK, NEW r \in Requests, NEW c \in Cids, UploadBytes(r, c)
  PROVE  TypeOK'
<1>1. task[r] # None
  BY DEF UploadBytes, At
<1>2. task[r].contact.key \in PubKeys
  BY ConfigAssumption DEF UploadBytes, Sendable
<1>3. task' = [task EXCEPT ![r] = [task[r] EXCEPT !.stage = "pinned", !.cid = c]]
  BY DEF UploadBytes
<1>4. task' \in [Requests -> Task \cup {None}]
  BY <1>1, <1>3, TaskUpdates DEF TypeOK
<1> QED
  BY <1>2, <1>4 DEF UploadBytes, TypeOK, history, provider

(* The plan a send request answers with.                                    *)
PlanOf(r) == [user |-> task[r].token.user, chain |-> task[r].token.chain,
              recipient |-> task[r].addr, cid |-> task[r].cid,
              bridge |-> BridgeOf(task[r].contact)]

LEMMA PlanType ==
  ASSUME TypeOK, Equipped, Sourced, NEW r \in Requests, At(r, "pinned")
  PROVE  PlanOf(r) \in Plan
<1>1. task[r] # None /\ task[r].stage = "pinned"
  BY DEF At
<1>2. task[r].contact # None /\ task[r].cid # None /\ task[r].addr # None
  <2>1. task[r].op = "send"
    BY <1>1, TaskFields DEF Equipped, Ops
  <2> QED
    BY <1>1, <2>1 DEF Equipped
<1>3. task[r].contact.network \in Networks
  BY <1>1, <1>2, TaskFields DEF Contact
<1>4. BridgeOf(task[r].contact) \in Bridges
  BY <1>1, <1>3, ConfigAssumption DEF Sourced, Sendable, BridgeOf, At
<1> QED
  BY <1>1, <1>2, <1>4, TaskFields DEF PlanOf, Plan

(* The ends of an insertion; told says whether it is acknowledged.           *)
Adds(r) == TooLong(r) \/ InsertFails(r) \/ InsertAnswered(r) \/ InsertInDoubt(r)

LEMMA Adding ==
  ASSUME TypeOK, Equipped, NEW r \in Requests, Adds(r)
  PROVE  /\ task[r] # None /\ AckOf(r) \in Ack /\ End(r)
         /\ UNCHANGED <<rows, up, outages, provider, tokens, pins, plans, lost, panics>>
         /\ \/ acked' = acked
            \/ At(r, "stored") /\ acked' = acked \cup {AckOf(r)}
<1>1. task[r] # None
  BY DEF Adds, TooLong, InsertFails, InsertAnswered, InsertInDoubt, Doing, At
<1>2. task[r].op = "add"
  <2>1. task[r].stage = "stored" => task[r].op \notin {"verify", "list", "send"}
    BY <1>1 DEF Equipped
  <2> QED
    BY <1>1, <2>1, TaskFields
       DEF Adds, TooLong, InsertFails, InsertAnswered, InsertInDoubt, Doing, At, Ops
<1>3. AckOf(r) \in Ack
  BY <1>1, <1>2, TaskFields DEF AckOf, Ack, Equipped
<1> QED
  BY <1>1, <1>3
     DEF Adds, TooLong, InsertFails, InsertAnswered, InsertInDoubt, AddAnswered, Told

LEMMA StepType ==
  ASSUME TypeOK, Equipped, Sourced, NEW r \in Requests, Step(r)
  PROVE  TypeOK'
<1>0. /\ "dial" \in Stages /\ "pool" \in Stages /\ "ready" \in Stages
      /\ "done" \in {"idle", "dialing", "done"}
  BY DEF Stages
<1>1. CASE EnterOnce(r)
  BY <1>0, <1>1, GoToType DEF EnterOnce, At, TypeOK, history
<1>2. CASE DialOk(r)
  BY <1>0, <1>2, GoToType DEF DialOk, At, TypeOK, history
<1>3. CASE DialFails(r)
  BY <1>0, <1>3, GoToType DEF DialFails, OnceDone, At, TypeOK, history
<1>4. CASE PassOnce(r)
  <2>1. task' \in [Requests -> Task \cup {None}]
    BY <1>0, <1>4, GoToType, EndType DEF PassOnce, At
  <2> QED
    BY <1>4, <2>1 DEF PassOnce, TypeOK, history, provider
<1>5. CASE IssueTokens(r)
  <2>1. task[r].token \in Token
    BY <1>5, TaskFields DEF IssueTokens, Doing, At
  <2>2. tokens' \in SUBSET Token
    BY <1>5, <2>1 DEF IssueTokens, TypeOK
  <2> QED
    BY <1>5, <2>2, EndType DEF IssueTokens, TypeOK, history, provider
<1>6. CASE \E i \in RowIds : Insert(r, i)
  BY <1>6, InsertType
<1>7. CASE QueryFails(r) \/ Refuse(r) \/ UploadFails(r) \/ NoContract(r)
  BY <1>7, EndType
     DEF QueryFails, Refuse, UploadFails, NoContract,
         TypeOK, history, provider
<1>8. CASE Adds(r)
  BY <1>8, Adding, EndType DEF TypeOK, provider
<1>9. CASE List(r) \/ NotFound(r)
  <2>1. task[r] # None
    BY <1>9 DEF List, NotFound, Doing, At
  <2>2. lost' \in SUBSET Contact
    BY <1>9, <2>1, TaskFields DEF List, NotFound, TypeOK
  <2> QED
    BY <1>9, <2>2, EndType DEF List, NotFound, TypeOK, provider
<1>10. CASE NilPool(r)
  <2>1. [issued |-> task[r].token.epoch, at |-> epoch] \in Panic
    BY <1>10, TaskFields DEF NilPool, At, Panic, TypeOK
  <2> QED
    BY <1>10, <2>1, EndType DEF NilPool, TypeOK, provider
<1>11. CASE \E i \in RowIds : Lookup(r, i)
  BY <1>11, LookupType
<1>12. CASE \E c \in Cids : UploadBytes(r, c)
  BY <1>12, UploadType
<1>13. CASE Respond(r)
  <2>1. plans' \in SUBSET Plan
    BY <1>13, PlanType DEF Respond, PlanOf, TypeOK
  <2> QED
    BY <1>13, <2>1, EndType DEF Respond, TypeOK, provider
<1> QED
  BY <1>1, <1>2, <1>3, <1>4, <1>5, <1>6, <1>7, <1>8, <1>9, <1>10, <1>11, <1>12,
     <1>13
     DEF Step, Adds

LEMMA TypeStep ==
  ASSUME TypeOK, Equipped, Sourced, [Next]_vars
  PROVE  TypeOK'
<1>1. CASE \E r \in Requests, u \in Users, c \in Chains : StartVerify(r, u, c)
  <2> PICK r \in Requests, u \in Users, c \in Chains : StartVerify(r, u, c)
    BY <1>1
  <2>1. [user |-> u, chain |-> c, epoch |-> epoch] \in Token
    BY DEF Token, TypeOK
  <2>2. "verify" \in Ops /\ "pool" \in Stages
    BY DEF Ops, Stages
  <2> QED
    BY <2>1, <2>2, NewTaskType, ArriveType DEF StartVerify
<1>2. CASE \E r \in Requests, t \in tokens, k \in Contact : StartAdd(r, t, k)
  <2> PICK r \in Requests, t \in tokens, k \in Contact : StartAdd(r, t, k)
    BY <1>2
  <2>1. t \in Token /\ "add" \in Ops /\ "pool" \in Stages
    BY DEF Ops, Stages, TypeOK
  <2> QED
    BY <2>1, NewTaskType, ArriveType DEF StartAdd
<1>3. CASE \E r \in Requests, t \in tokens : StartList(r, t)
  <2> PICK r \in Requests, t \in tokens : StartList(r, t)
    BY <1>3
  <2>1. t \in Token /\ "list" \in Ops /\ "pool" \in Stages
    BY DEF Ops, Stages, TypeOK
  <2>2. AckedOf(t.user) \in SUBSET Contact
    BY DEF AckedOf
  <2> QED
    BY <2>1, <2>2, NewTaskType, ArriveType DEF StartList
<1>4. CASE \E r \in Requests, t \in tokens, a \in Addresses : StartSend(r, t, a)
  <2> PICK r \in Requests, t \in tokens, a \in Addresses : StartSend(r, t, a)
    BY <1>4
  <2>1. t \in Token /\ "send" \in Ops /\ "lookup" \in Stages
    BY DEF Ops, Stages, TypeOK
  <2>2. AckedFor(t.user, a) \in SUBSET Contact
    BY DEF AckedFor, AckedOf
  <2> QED
    BY <2>1, <2>2, NewTaskType, ArriveType DEF StartSend
<1>5. CASE \E r \in Requests : Step(r)
  BY <1>5, StepType
<1>6. CASE \E r \in Requests : Cancel(r)
  <2> PICK r \in Requests : Cancel(r)
    BY <1>6
  <2>1. task' = [task EXCEPT ![r] = [task[r] EXCEPT !.cancelled = TRUE]]
    BY DEF Cancel
  <2>2. task' \in [Requests -> Task \cup {None}]
    BY <2>1, TaskUpdates DEF Cancel, TypeOK
  <2> QED
    BY <2>2 DEF Cancel, TypeOK, history, provider
<1>7. CASE Outage \/ Recovery
  <2>1. outages' \in 0 .. MaxOutages
    BY <1>7, BoundAssumption DEF Outage, Recovery, TypeOK
  <2> QED
    BY <1>7, <2>1 DEF Outage, Recovery, TypeOK, history, provider
<1>8. CASE Restart
  BY <1>8, BoundAssumption DEF Restart, TypeOK, Epochs, history
<1>9. CASE UNCHANGED vars
  BY <1>9 DEF vars, TypeOK
<1> QED
  BY <1>1, <1>2, <1>3, <1>4, <1>5, <1>6, <1>7, <1>8, <1>9 DEF Next

-----------------------------------------------------------------------------
(* What a request has in its hands                                          *)

(* A step of request r touches no other request.                            *)
LEMMA OthersStay ==
  ASSUME TypeOK, NEW r \in Requests, Step(r) \/ Cancel(r), NEW q \in Requests, q # r
  PROVE  task'[q] = task[q]
<1>1. CASE Cancel(r)
  BY <1>1 DEF Cancel, TypeOK
<1>2. CASE Step(r)
  BY <1>2
     DEF Step, EnterOnce, DialOk, DialFails, PassOnce, IssueTokens, Insert, TooLong,
         InsertAnswered, InsertFails, InsertInDoubt, AddAnswered, List, QueryFails,
         NilPool, NotFound, Lookup, Refuse, UploadBytes, UploadFails, Respond,
         NoContract, End, GoTo, TypeOK
<1> QED
  BY <1>1, <1>2

LEMMA StepOwner ==
  ASSUME NEW r \in Requests, Step(r)
  PROVE  task[r] # None
  BY DEF Step, EnterOnce, DialOk, DialFails, PassOnce, IssueTokens, Insert, TooLong,
         InsertAnswered, InsertFails, InsertInDoubt, AddAnswered, List, QueryFails,
         NilPool, NotFound, Lookup, Refuse, UploadBytes, UploadFails, Respond,
         NoContract, Doing, At

(* What a step does to the request it belongs to.                           *)
LEMMA OwnStep ==
  ASSUME TypeOK, Equipped, NEW r \in Requests, Step(r)
  PROVE  \/ task'[r] = None
         \/ /\ task[r].stage \in {"pool", "dial"}
            /\ \E s \in {"pool", "dial", "ready"} :
                 task'[r] = [task[r] EXCEPT !.stage = s]
         \/ /\ task[r].op = "add"
            /\ \E i \in RowIds : task'[r] = [task[r] EXCEPT !.stage = "stored", !.row = i]
         \/ /\ task[r].stage = "lookup"
            /\ \E i \in Matching(task[r].token.user, task[r].addr) :
                 task'[r] = [task[r] EXCEPT !.stage = "seal", !.contact = rows[i].contact]
         \/ /\ task[r].stage = "seal"
            /\ \E c \in Cids :
                 task'[r] = [task[r] EXCEPT !.stage = "pinned", !.cid = c]
<1>1. CASE EnterOnce(r) \/ DialOk(r) \/ DialFails(r)
  BY <1>1 DEF EnterOnce, DialOk, DialFails, GoTo, At, TypeOK
<1>2. CASE PassOnce(r)
  BY <1>2 DEF PassOnce, GoTo, End, At, TypeOK
<1>3. CASE \E i \in RowIds : Insert(r, i)
  BY <1>3 DEF Insert, Doing, At, TypeOK
<1>4. CASE \E i \in RowIds : Lookup(r, i)
  BY <1>4 DEF Lookup, At, TypeOK
<1>5. CASE \E c \in Cids : UploadBytes(r, c)
  BY <1>5 DEF UploadBytes, At, TypeOK
<1>6. CASE End(r)
  BY <1>6 DEF End, TypeOK
<1> QED
  BY <1>1, <1>2, <1>3, <1>4, <1>5, <1>6
     DEF Step, IssueTokens, TooLong, InsertAnswered, InsertFails, InsertInDoubt,
         AddAnswered, List, QueryFails, NilPool, NotFound, Refuse, UploadFails, Respond,
         NoContract

(* How a request arrives.                                                   *)
ArrivesAt(r) == \/ \E u \in Users, c \in Chains : StartVerify(r, u, c)
                \/ \E t \in tokens, k \in Contact : StartAdd(r, t, k)
                \/ \E t \in tokens : StartList(r, t)
                \/ \E t \in tokens, a \in Addresses : StartSend(r, t, a)

LEMMA Arrivals ==
  ASSUME TypeOK, NEW r \in Requests, ArrivesAt(r)
  PROVE  /\ UNCHANGED <<rows, up, outages, provider, tokens, pins, history>>
         /\ \A q \in Requests : q # r => task'[q] = task[q]
         /\ task[r] = None /\ task'[r] # None
         /\ task'[r].op \in Ops
         /\ task'[r].op = "verify" =>
              task'[r].stage = "pool" /\ task'[r].token.epoch = epoch
         /\ task'[r].op # "verify" => task'[r].token \in tokens
         /\ task'[r].op = "add" => task'[r].stage = "pool" /\ task'[r].contact \in Contact
         /\ task'[r].op = "list" =>
              /\ task'[r].stage = "pool"
              /\ task'[r].seen \subseteq AckedOf(task'[r].token.user)
         /\ task'[r].op = "send" =>
              /\ task'[r].stage = "lookup"
              /\ task'[r].addr \in Addresses
              /\ task'[r].seen \subseteq AckedFor(task'[r].token.user, task'[r].addr)
<1> DEFINE Claim(k) ==
         /\ k # None
         /\ k.op \in Ops
         /\ k.op = "verify" => k.stage = "pool" /\ k.token.epoch = epoch
         /\ k.op # "verify" => k.token \in tokens
         /\ k.op = "add" => k.stage = "pool" /\ k.contact \in Contact
         /\ k.op = "list" => /\ k.stage = "pool"
                             /\ k.seen \subseteq AckedOf(k.token.user)
         /\ k.op = "send" => /\ k.stage = "lookup"
                             /\ k.addr \in Addresses
                             /\ k.seen \subseteq AckedFor(k.token.user, k.addr)
<1>0. /\ "verify" \in Ops /\ "add" \in Ops /\ "list" \in Ops /\ "send" \in Ops
      /\ "pool" \in Stages /\ "lookup" \in Stages /\ tokens \subseteq Token
  BY DEF Ops, Stages, TypeOK
<1>1. ASSUME NEW k, Arrive(r, k), Claim(k)
      PROVE  /\ UNCHANGED <<rows, up, outages, provider, tokens, pins, history>>
             /\ \A q \in Requests : q # r => task'[q] = task[q]
             /\ task[r] = None
             /\ task'[r] = k
  BY <1>1 DEF Arrive, TypeOK
<1>2. ASSUME NEW u \in Users, NEW c \in Chains, StartVerify(r, u, c)
      PROVE  \E k : Arrive(r, k) /\ Claim(k)
  <2> DEFINE t == [user |-> u, chain |-> c, epoch |-> epoch]
             k == NewTask("verify", t, "pool")
  <2>1. t \in Token
    BY DEF Token, TypeOK
  <2>2. k # None
    BY <1>0, <2>1, NewTaskType, NoneAssumption
  <2>3. Claim(k)
    BY <1>0, <2>2 DEF NewTask
  <2> QED
    BY <1>2, <2>3 DEF StartVerify
<1>3. ASSUME NEW t \in tokens, NEW c \in Contact, StartAdd(r, t, c)
      PROVE  \E k : Arrive(r, k) /\ Claim(k)
  <2>1. PICK k : k = [NewTask("add", t, "pool") EXCEPT !.contact = c]
    OBVIOUS
  <2>2. k \in Task
    BY <1>0, <2>1, NewTaskType
  <2>3. Claim(k)
    BY <1>0, <2>1, <2>2, NoneAssumption DEF NewTask
  <2> QED
    BY <1>3, <2>1, <2>3 DEF StartAdd
<1>4. ASSUME NEW t \in tokens, StartList(r, t)
      PROVE  \E k : Arrive(r, k) /\ Claim(k)
  <2>0. PICK S \in SUBSET Contact : S = AckedOf(t.user)
    BY DEF AckedOf
  <2>1. PICK k : k = [NewTask("list", t, "pool") EXCEPT !.seen = S]
    OBVIOUS
  <2>2. k \in Task
    BY <1>0, <2>1, NewTaskType
  <2>3. Claim(k)
    BY <1>0, <2>0, <2>1, <2>2, NoneAssumption DEF NewTask
  <2> QED
    BY <1>4, <2>0, <2>1, <2>3 DEF StartList
<1>5. ASSUME NEW t \in tokens, NEW a \in Addresses, StartSend(r, t, a)
      PROVE  \E k : Arrive(r, k) /\ Claim(k)
  <2>0. PICK S \in SUBSET Contact : S = AckedFor(t.user, a)
    BY DEF AckedFor, AckedOf
  <2>1. PICK k : k = [NewTask("send", t, "lookup") EXCEPT !.addr = a, !.seen = S]
    OBVIOUS
  <2>2. k \in Task
    BY <1>0, <2>1, NewTaskType
  <2>3. Claim(k)
    BY <1>0, <2>0, <2>1, <2>2, NoneAssumption DEF NewTask
  <2> QED
    BY <1>5, <2>0, <2>1, <2>3 DEF StartSend
<1>6. \E k : Arrive(r, k) /\ Claim(k)
  BY <1>2, <1>3, <1>4, <1>5 DEF ArrivesAt
<1> QED
  BY <1>1, <1>6

(* What the steps that belong to no request's own work leave alone.          *)
LEMMA CancelStep ==
  ASSUME TypeOK, NEW r \in Requests, Cancel(r)
  PROVE  /\ UNCHANGED <<rows, up, outages, provider, tokens, pins, history>>
         /\ task[r] # None
         /\ task'[r] = [task[r] EXCEPT !.cancelled = TRUE]
  BY DEF Cancel, TypeOK

LEMMA StepKinds ==
  ASSUME [Next]_vars
  PROVE  \/ \E r \in Requests : ArrivesAt(r)
         \/ \E r \in Requests : Step(r)
         \/ \E r \in Requests : Cancel(r)
         \/ Restart
         \/ /\ UNCHANGED <<rows, provider, tokens, task, pins, history>>
            /\ ~Restart
<1>1. CASE Outage \/ Recovery
  BY <1>1 DEF Outage, Recovery, Restart, provider, history
<1>2. CASE UNCHANGED vars
  BY <1>2 DEF vars, provider, history
<1> QED
  BY <1>1, <1>2 DEF Next, ArrivesAt

LEMMA EquippedStep ==
  ASSUME TypeOK, Equipped, [Next]_vars
  PROVE  Equipped'
<1> DEFINE Fit(k) ==
      /\ k.op \in {"verify", "list"} => k.stage \in {"pool", "dial", "ready"}
      /\ k.op = "add" => /\ k.contact # None
                         /\ k.stage \in {"pool", "dial", "ready", "stored"}
      /\ k.op = "send" => k.addr # None /\ k.stage \in {"lookup", "seal", "pinned"}
      /\ k.stage = "stored" => k.row # None
      /\ k.stage \in {"seal", "pinned"} => k.contact # None
      /\ k.stage = "pinned" => k.cid # None
<1>0. ASSUME \A q \in Requests : task'[q] # None => Fit(task'[q])
      PROVE  Equipped'
  BY <1>0 DEF Equipped
<1>1. \A q \in Requests : task[q] # None => Fit(task[q])
  BY DEF Equipped
<1> HIDE DEF Fit
<1>2. ASSUME NEW r \in Requests, ArrivesAt(r)
      PROVE  Equipped'
  <2>1. Fit(task'[r])
    BY <1>2, Arrivals, NoneAssumption DEF Fit, Ops
  <2> QED
    BY <1>0, <1>1, <1>2, <2>1, Arrivals
<1>3. ASSUME NEW r \in Requests, Step(r)
      PROVE  Equipped'
  <2>1. ASSUME task'[r] # None
        PROVE  Fit(task'[r])
    <3>1. PICK k \in Task : k = task[r] /\ k # None /\ Fit(k)
      BY <1>1, <1>3, StepOwner DEF TypeOK
    <3>2. k.op \in Ops
      BY DEF Task
    <3>3. CASE k.stage \in {"pool", "dial"} /\ \E s \in {"pool", "dial", "ready"} :
                 task'[r] = [k EXCEPT !.stage = s]
      <4> PICK s \in {"pool", "dial", "ready"} : task'[r] = [k EXCEPT !.stage = s]
        BY <3>3
      <4>1. k.op # "send"
        BY <3>1, <3>3 DEF Fit
      <4>2. /\ task'[r].op = k.op /\ task'[r].stage = s
            /\ task'[r].contact = k.contact
        BY DEF Task
      <4> QED
        BY <3>1, <4>1, <4>2 DEF Fit
    <3>4. CASE k.op = "add" /\ \E i \in RowIds :
                 task'[r] = [k EXCEPT !.stage = "stored", !.row = i]
      <4> PICK i \in RowIds : task'[r] = [k EXCEPT !.stage = "stored", !.row = i]
        BY <3>4
      <4>1. /\ task'[r].op = k.op /\ task'[r].stage = "stored"
            /\ task'[r].contact = k.contact /\ task'[r].row = i
        BY DEF Task
      <4> QED
        BY <3>1, <3>4, <4>1, NoneAssumption DEF Fit
    <3>5. CASE k.stage = "lookup" /\ \E i \in Matching(k.token.user, k.addr) :
                 task'[r] = [k EXCEPT !.stage = "seal", !.contact = rows[i].contact]
      <4> PICK i \in Matching(k.token.user, k.addr) :
                 task'[r] = [k EXCEPT !.stage = "seal", !.contact = rows[i].contact]
        BY <3>5
      <4>1. rows[i].contact \in Contact
        BY RowFields DEF Matching, ContactsOf
      <4>2. /\ task'[r].op = k.op /\ task'[r].stage = "seal"
            /\ task'[r].contact = rows[i].contact /\ task'[r].addr = k.addr
        BY DEF Task
      <4> QED
        BY <3>1, <3>2, <3>5, <4>1, <4>2, NoneAssumption DEF Fit, Ops
    <3>6. CASE k.stage = "seal" /\ \E c \in Cids :
                 task'[r] = [k EXCEPT !.stage = "pinned", !.cid = c]
      <4> PICK c \in Cids : task'[r] = [k EXCEPT !.stage = "pinned", !.cid = c]
        BY <3>6
      <4>1. /\ task'[r].op = k.op /\ task'[r].stage = "pinned"
            /\ task'[r].contact = k.contact /\ task'[r].addr = k.addr
            /\ task'[r].cid = c
        BY DEF Task
      <4> QED
        BY <3>1, <3>2, <3>6, <4>1, NoneAssumption DEF Fit, Ops
    <3> QED
      BY <1>3, <2>1, <3>1, <3>3, <3>4, <3>5, <3>6, OwnStep
  <2> QED
    BY <1>0, <1>1, <1>3, <2>1, OthersStay
<1>4. ASSUME NEW r \in Requests, Cancel(r)
      PROVE  Equipped'
  <2>1. PICK k \in Task : k = task[r] /\ Fit(k)
    BY <1>1, <1>4, CancelStep DEF TypeOK
  <2>2. task'[r] = [k EXCEPT !.cancelled = TRUE]
    BY <1>4, <2>1, CancelStep
  <2>3. Fit(task'[r])
    BY <2>1, <2>2 DEF Task, Fit
  <2> QED
    BY <1>0, <1>1, <1>4, <2>3, OthersStay
<1>5. CASE Restart
  BY <1>0, <1>5 DEF Restart
<1>6. CASE UNCHANGED task
  BY <1>0, <1>1, <1>6
<1> QED
  BY <1>2, <1>3, <1>4, <1>5, <1>6, StepKinds

(* What a step of its own leaves of a request, and which action takes it to  *)
(* each stage.                                                              *)
LEMMA Moves ==
  ASSUME TypeOK, NEW r \in Requests, Step(r), task'[r] # None
  PROVE  /\ task'[r].op = task[r].op
         /\ task'[r].token = task[r].token
         /\ task'[r].addr = task[r].addr
         /\ task'[r].seen = task[r].seen
         /\ task'[r].stage = "dial" => EnterOnce(r)
         /\ task'[r].stage = "ready" => PassOnce(r) /\ HasPool
         /\ task'[r].stage = "stored" =>
              \E i \in RowIds : /\ Insert(r, i) /\ task'[r].row = i
                               /\ task'[r].contact = task[r].contact
         /\ task'[r].stage = "seal" =>
              \E i \in RowIds : Lookup(r, i) /\ task'[r].contact = rows[i].contact
         /\ task'[r].stage = "pinned" =>
              \E c \in Cids : /\ UploadBytes(r, c) /\ task'[r].cid = c
                             /\ task'[r].contact = task[r].contact
<1>0. PICK k \in Task : k = task[r]
  BY StepOwner DEF TypeOK
<1>1. CASE EnterOnce(r)
  <2>1. task'[r] = [k EXCEPT !.stage = "dial"]
    BY <1>0, <1>1 DEF EnterOnce, GoTo, TypeOK
  <2> QED
    BY <1>0, <1>1, <2>1 DEF Task
<1>2. CASE DialOk(r) \/ DialFails(r)
  <2>1. task'[r] = [k EXCEPT !.stage = "pool"]
    BY <1>0, <1>2 DEF DialOk, DialFails, GoTo, TypeOK
  <2> QED
    BY <1>0, <2>1 DEF Task
<1>3. CASE PassOnce(r)
  <2>1. task'[r] = [k EXCEPT !.stage = "ready"] /\ HasPool
    BY <1>0, <1>3 DEF PassOnce, GoTo, End, TypeOK
  <2> QED
    BY <1>0, <1>3, <2>1 DEF Task
<1>4. CASE \E i \in RowIds : Insert(r, i)
  <2>1. PICK i \in RowIds : Insert(r, i)
    BY <1>4
  <2>2. task'[r] = [k EXCEPT !.stage = "stored", !.row = i]
    BY <1>0, <2>1 DEF Insert, TypeOK
  <2> QED
    BY <1>0, <2>1, <2>2 DEF Task
<1>5. CASE \E i \in RowIds : Lookup(r, i)
  <2>1. PICK i \in RowIds : Lookup(r, i)
    BY <1>5
  <2>2. task'[r] = [k EXCEPT !.stage = "seal", !.contact = rows[i].contact]
    BY <1>0, <2>1 DEF Lookup, TypeOK
  <2> QED
    BY <1>0, <2>1, <2>2 DEF Task
<1>6. CASE \E c \in Cids : UploadBytes(r, c)
  <2>1. PICK c \in Cids : UploadBytes(r, c)
    BY <1>6
  <2>2. task'[r] = [k EXCEPT !.stage = "pinned", !.cid = c]
    BY <1>0, <2>1 DEF UploadBytes, TypeOK
  <2> QED
    BY <1>0, <2>1, <2>2 DEF Task
<1>7. CASE End(r)
  BY <1>7 DEF End, TypeOK
<1> QED
  BY <1>1, <1>2, <1>3, <1>4, <1>5, <1>6, <1>7
     DEF Step, IssueTokens, TooLong, InsertAnswered, InsertFails, InsertInDoubt,
         AddAnswered, List, QueryFails, NilPool, NotFound, Refuse, UploadFails, Respond,
         NoContract

-----------------------------------------------------------------------------
(* The pool, and who may rely on it                                         *)

LEMMA ProviderSteps ==
  ASSUME NEW r \in Requests, Step(r)
  PROVE  /\ epoch' = epoch
         /\ \/ EnterOnce(r) \/ DialOk(r) \/ DialFails(r)
            \/ UNCHANGED provider
         /\ \/ tokens' = tokens
            \/ At(r, "ready") /\ tokens' = tokens \cup {task[r].token}
  BY DEF Step, EnterOnce, DialOk, DialFails, PassOnce, IssueTokens, Insert, TooLong,
         InsertAnswered, InsertFails, InsertInDoubt, AddAnswered, List, QueryFails,
         NilPool, NotFound, Lookup, Refuse, UploadBytes, UploadFails, Respond,
         NoContract, Doing, provider

LEMMA PoolStep ==
  ASSUME TypeOK, Equipped, OneDialer, NoFutureTokens, PoolBehindTokens, [Next]_vars
  PROVE  PoolBehindTokens'
<1>1. ASSUME NEW r \in Requests, ArrivesAt(r)
      PROVE  PoolBehindTokens'
  BY <1>1, Arrivals DEF PoolBehindTokens, provider, Ops
<1>2. ASSUME NEW r \in Requests, Step(r)
      PROVE  PoolBehindTokens'
  <2>1. epoch' = epoch
    BY <1>2, ProviderSteps
  <2>2. pool = "open" => pool' = "open"
    BY <1>2, ProviderSteps
       DEF EnterOnce, DialOk, DialFails, OneDialer, PoolBehindTokens, provider
  <2>3. pool' = "open" => once' = "done"
    BY <1>2, ProviderSteps
       DEF EnterOnce, DialOk, DialFails, OnceFree, PoolBehindTokens, provider
  <2>4. ASSUME NEW t \in tokens', t.epoch = epoch'
        PROVE  pool' = "open"
    <3>1. CASE t \in tokens
      BY <2>1, <2>2, <2>4, <3>1 DEF PoolBehindTokens
    <3>2. CASE t \notin tokens
      BY <1>2, <2>2, <3>2, ProviderSteps DEF PoolBehindTokens, At
    <3> QED
      BY <3>1, <3>2
  <2>5. ASSUME task'[r] # None, task'[r].stage \in {"ready", "seal", "pinned"}
        PROVE  pool' = "open"
    <3>1. CASE task'[r].stage = "ready"
      BY <1>2, <2>5, <3>1, Moves DEF PassOnce, HasPool, provider
    <3>2. CASE task'[r].stage = "seal"
      BY <1>2, <2>5, <3>2, Moves DEF Lookup, provider
    <3>3. CASE task'[r].stage = "pinned"
      BY <1>2, <2>2, <2>5, <3>3, Moves DEF UploadBytes, At, PoolBehindTokens
    <3> QED
      BY <2>5, <3>1, <3>2, <3>3
  <2>6. ASSUME task'[r] # None, task'[r].op # "verify", task'[r].token.epoch = epoch'
        PROVE  pool' = "open"
    BY <1>2, <2>1, <2>2, <2>6, Moves, StepOwner DEF PoolBehindTokens
  <2>7. ASSUME NEW q \in Requests, task'[q] # None
        PROVE  /\ task'[q].stage \in {"ready", "seal", "pinned"} => pool' = "open"
               /\ (task'[q].op # "verify" /\ task'[q].token.epoch = epoch') => pool' = "open"
    <3>1. CASE q = r
      BY <2>5, <2>6, <2>7, <3>1
    <3>2. CASE q # r
      <4>1. task'[q] = task[q]
        BY <1>2, <3>2, OthersStay
      <4> QED
        BY <2>1, <2>2, <2>7, <4>1 DEF PoolBehindTokens
    <3> QED
      BY <3>1, <3>2
  <2> QED
    BY <2>3, <2>4, <2>7 DEF PoolBehindTokens
<1>3. ASSUME NEW r \in Requests, Cancel(r)
      PROVE  PoolBehindTokens'
  <2>1. PICK k \in Task : k = task[r]
    BY <1>3, CancelStep DEF TypeOK
  <2>2. /\ task'[r].op = task[r].op /\ task'[r].stage = task[r].stage
        /\ task'[r].token = task[r].token
    BY <1>3, <2>1, CancelStep DEF Task
  <2>3. \A q \in Requests :
          /\ task'[q] # None => task[q] # None
          /\ task'[q].op = task[q].op /\ task'[q].stage = task[q].stage
          /\ task'[q].token = task[q].token
    BY <1>3, <2>2, CancelStep, OthersStay
  <2> QED
    BY <1>3, <2>3, CancelStep DEF PoolBehindTokens, provider
<1>4. CASE Restart
  <2>1. \A t \in tokens : t.epoch # epoch'
    <3>1. \A e, f \in Nat : e <= f => e # f + 1
      OBVIOUS
    <3>2. epoch \in Nat /\ \A t \in tokens : t.epoch \in Nat
      BY BoundAssumption DEF TypeOK, Token, Epochs
    <3> QED
      BY <1>4, <3>1, <3>2 DEF Restart, NoFutureTokens
  <2> QED
    BY <1>4, <2>1 DEF Restart, PoolBehindTokens
<1>5. CASE UNCHANGED <<rows, provider, tokens, task, pins, history>>
  BY <1>5 DEF PoolBehindTokens, provider
<1> QED
  BY <1>1, <1>2, <1>3, <1>4, <1>5, StepKinds

LEMMA FutureStep ==
  ASSUME TypeOK, Equipped, NoFutureTokens, [Next]_vars
  PROVE  NoFutureTokens'
<1>0. epoch \in Nat
  BY BoundAssumption DEF TypeOK, Epochs
<1>1. ASSUME NEW r \in Requests, ArrivesAt(r)
      PROVE  NoFutureTokens'
  BY <1>0, <1>1, Arrivals DEF NoFutureTokens, provider
<1>2. ASSUME NEW r \in Requests, Step(r)
      PROVE  NoFutureTokens'
  <2>1. epoch' = epoch /\ \A t \in tokens' : t \in tokens \/ t = task[r].token
    BY <1>2, ProviderSteps
  <2>2. task[r] # None /\ (task'[r] # None => task'[r].token = task[r].token)
    BY <1>2, Moves, StepOwner
  <2> QED
    BY <1>2, <2>1, <2>2, OthersStay DEF NoFutureTokens
<1>3. ASSUME NEW r \in Requests, Cancel(r)
      PROVE  NoFutureTokens'
  <2>1. PICK k \in Task : k = task[r]
    BY <1>3, CancelStep DEF TypeOK
  <2>2. task'[r].token = task[r].token
    BY <1>3, <2>1, CancelStep DEF Task
  <2> QED
    BY <1>3, <2>2, CancelStep, OthersStay DEF NoFutureTokens, provider
<1>4. CASE Restart
  <2>1. \A e, f \in Nat : e <= f => e <= f + 1
    OBVIOUS
  <2>2. \A t \in tokens : t.epoch \in Nat
    BY BoundAssumption DEF TypeOK, Token, Epochs
  <2> QED
    BY <1>0, <1>4, <2>1, <2>2 DEF Restart, NoFutureTokens
<1>5. CASE UNCHANGED <<rows, provider, tokens, task, pins, history>>
  BY <1>5 DEF NoFutureTokens, provider
<1> QED
  BY <1>1, <1>2, <1>3, <1>4, <1>5, StepKinds

LEMMA DialerStep ==
  ASSUME TypeOK, Equipped, OneDialer, [Next]_vars
  PROVE  OneDialer'
<1>1. ASSUME NEW r \in Requests, ArrivesAt(r)
      PROVE  OneDialer'
  <2>1. task'[r].stage # "dial"
    BY <1>1, Arrivals DEF Ops
  <2> QED
    BY <1>1, <2>1, Arrivals DEF OneDialer, At, provider
<1>2. ASSUME NEW r \in Requests, Step(r)
      PROVE  OneDialer'
  <2>1. CASE EnterOnce(r)
    <3>1. \A q \in Requests : ~At(q, "dial")
      BY <2>1 DEF EnterOnce, OnceFree, OneDialer
    <3>2. \A q \in Requests : task'[q] # None /\ task'[q].stage = "dial" => q = r
      BY <1>2, <3>1, OthersStay DEF At
    <3> QED
      BY <2>1, <3>2 DEF EnterOnce, OneDialer, At
  <2>2. CASE DialOk(r) \/ DialFails(r)
    <3>1. task'[r] # None => task'[r].stage # "dial"
      BY <1>2, <2>2, Moves DEF EnterOnce, DialOk, DialFails, At
    <3>2. \A q \in Requests : At(q, "dial") => q = r
      BY <2>2 DEF DialOk, DialFails, OneDialer
    <3>3. \A q \in Requests : ~(task'[q] # None /\ task'[q].stage = "dial")
      BY <1>2, <3>1, <3>2, OthersStay DEF At
    <3> QED
      BY <3>3 DEF OneDialer, At
  <2>3. CASE UNCHANGED provider /\ ~EnterOnce(r)
    <3>1. \A q \in Requests :
            task'[q] # None /\ task'[q].stage = "dial" => At(q, "dial")
      BY <1>2, <2>3, Moves, OthersStay DEF At
    <3> QED
      BY <2>3, <3>1 DEF OneDialer, At, provider
  <2> QED
    BY <1>2, <2>1, <2>2, <2>3, ProviderSteps
<1>3. ASSUME NEW r \in Requests, Cancel(r)
      PROVE  OneDialer'
  <2>1. PICK k \in Task : k = task[r]
    BY <1>3, CancelStep DEF TypeOK
  <2>2. task'[r].stage = task[r].stage
    BY <1>3, <2>1, CancelStep DEF Task
  <2>3. \A q \in Requests :
          task'[q] # None /\ task'[q].stage = "dial" => At(q, "dial")
    BY <1>3, <2>2, CancelStep, OthersStay DEF At
  <2> QED
    BY <1>3, <2>3, CancelStep DEF OneDialer, At, provider
<1>4. CASE Restart
  BY <1>4 DEF Restart, OneDialer, At
<1>5. CASE UNCHANGED <<rows, provider, tokens, task, pins, history>>
  BY <1>5 DEF OneDialer, At, provider
<1> QED
  BY <1>1, <1>2, <1>3, <1>4, <1>5, StepKinds

-----------------------------------------------------------------------------
(* The table and the uploads only grow                                      *)

LEMMA Grow ==
  ASSUME TypeOK, Equipped, Sourced, [Next]_vars
  PROVE  /\ \A i \in RowIds : rows[i] # None => rows'[i] = rows[i]
         /\ \A c \in Cids : pins[c] # None => pins'[c] = pins[c]
         /\ \A u : In(ContactsOf(u)) \subseteq In(ContactsOf(u))'
         /\ \A u, a : /\ Matching(u, a) \subseteq Matching(u, a)'
                      /\ In(Matching(u, a)) \subseteq In(Matching(u, a))'
<1>1. /\ \A i \in RowIds : rows[i] # None => rows'[i] = rows[i]
      /\ \A c \in Cids : pins[c] # None => pins'[c] = pins[c]
  <2>1. ASSUME NEW r \in Requests, ArrivesAt(r)
        PROVE  UNCHANGED <<rows, pins>>
    BY <2>1, Arrivals
  <2>2. ASSUME NEW r \in Requests, Step(r)
        PROVE  \/ UNCHANGED <<rows, pins>>
               \/ \E i \in RowIds : Insert(r, i)
               \/ \E c \in Cids : UploadBytes(r, c)
    BY <2>2
       DEF Step, EnterOnce, DialOk, DialFails, PassOnce, IssueTokens, TooLong,
           InsertAnswered, InsertFails, InsertInDoubt, AddAnswered, List, QueryFails,
           NilPool, NotFound, Lookup, Refuse, UploadFails, Respond, NoContract
  <2>3. ASSUME NEW r \in Requests, NEW i \in RowIds, Insert(r, i)
        PROVE  /\ \A j \in RowIds : rows[j] # None => rows'[j] = rows[j]
               /\ pins' = pins
    BY <2>3 DEF Insert, TypeOK
  <2>4. ASSUME NEW r \in Requests, NEW c \in Cids, UploadBytes(r, c)
        PROVE  /\ \A d \in Cids : pins[d] # None => pins'[d] = pins[d]
               /\ rows' = rows
    BY <2>4 DEF UploadBytes, TypeOK
  <2>5. ASSUME NEW r \in Requests, Cancel(r)
        PROVE  UNCHANGED <<rows, pins>>
    BY <2>5 DEF Cancel
  <2>6. CASE Restart
    BY <2>6 DEF Restart
  <2> QED
    BY <2>1, <2>2, <2>3, <2>4, <2>5, <2>6, StepKinds
<1>2. \A u : ContactsOf(u) \subseteq ContactsOf(u)'
  BY <1>1 DEF ContactsOf
<1>3. \A u, a : Matching(u, a) \subseteq Matching(u, a)'
  BY <1>1 DEF Matching, ContactsOf
<1>4. ASSUME NEW u, NEW a
      PROVE  /\ In(ContactsOf(u)) \subseteq In(ContactsOf(u))'
             /\ In(Matching(u, a)) \subseteq In(Matching(u, a))'
  <2>1. \A i \in ContactsOf(u) : rows'[i] = rows[i]
    BY <1>1 DEF ContactsOf
  <2> QED
    BY <1>2, <1>3, <2>1 DEF In, Matching
<1> QED
  BY <1>1, <1>3, <1>4

LEMMA GroundedStep ==
  ASSUME TypeOK, Equipped, Sourced, Grounded, [Next]_vars
  PROVE  Grounded'
<1> DEFINE Firm(q) ==
      /\ \A u : task'[q].op = "list" /\ task'[q].token.user = u =>
              task'[q].seen \subseteq In(ContactsOf(u))'
      /\ \A u, a : task'[q].op = "send" /\ task'[q].token.user = u /\ task'[q].addr = a =>
                 task'[q].seen \subseteq In(Matching(u, a))'
      /\ \A i, u, k : task'[q].stage = "stored" /\ task'[q].row = i
                      /\ task'[q].token.user = u /\ task'[q].contact = k =>
                 rows'[i] = [user |-> u, contact |-> k]
<1>0. ASSUME \A k \in acked' : k.contact \in In(ContactsOf(k.user))',
             \A q \in Requests : task'[q] # None => Firm(q)
      PROVE  Grounded'
  BY <1>0 DEF Grounded, In, Matching, ContactsOf
(* A request that keeps its subject keeps its footing.                      *)
<1>1. ASSUME NEW q \in Requests, task[q] # None,
             task'[q].op = task[q].op, task'[q].token = task[q].token,
             task'[q].addr = task[q].addr, task'[q].seen = task[q].seen,
             task'[q].stage = "stored" =>
               task[q].stage = "stored" /\ task'[q].row = task[q].row
                 /\ task'[q].contact = task[q].contact
      PROVE  Firm(q)
  <2>1. \A u : task[q].op = "list" /\ task[q].token.user = u =>
              task[q].seen \subseteq In(ContactsOf(u))
    BY <1>1 DEF Grounded
  <2>2. \A u, a : task[q].op = "send" /\ task[q].token.user = u /\ task[q].addr = a =>
                 task[q].seen \subseteq In(Matching(u, a))
    BY <1>1 DEF Grounded
  <2>3. ASSUME NEW i, NEW u, NEW k, task'[q].stage = "stored", task'[q].row = i,
               task'[q].token.user = u, task'[q].contact = k
        PROVE  rows'[i] = [user |-> u, contact |-> k]
    <3>1. task[q].stage = "stored" /\ task[q].row = i
          /\ task[q].token.user = u /\ task[q].contact = k
      BY <1>1, <2>3
    <3>2. i \in RowIds /\ k \in Contact /\ u \in Users
      BY <1>1, <3>1, TaskFields DEF Equipped, Ops
    <3>3. [user |-> u, contact |-> k] # None
      BY <3>2, NoneAssumption DEF Row
    <3>4. rows[i] = [user |-> u, contact |-> k]
      BY <1>1, <3>1 DEF Grounded
    <3> QED
      BY <3>2, <3>3, <3>4, Grow
  <2> QED
    BY <1>1, <2>1, <2>2, <2>3, Grow
<1>2. ASSUME NEW k, k \in acked
      PROVE  k.contact \in In(ContactsOf(k.user))'
  BY <1>2, Grow DEF Grounded
<1> HIDE DEF Firm
<1>3. ASSUME NEW r \in Requests, ArrivesAt(r)
      PROVE  Grounded'
  <2>0. /\ \A u : AckedOf(u) \subseteq In(ContactsOf(u))
        /\ \A u, a : AckedFor(u, a) \subseteq In(Matching(u, a))
    BY DEF AckedOf, AckedFor, Grounded, In, Matching
  <2>1. Firm(r)
    BY <1>3, <2>0, Arrivals, Grow DEF Firm, Ops
  <2>2. ASSUME NEW q \in Requests, q # r, task'[q] # None
        PROVE  Firm(q)
    BY <1>1, <1>3, <2>2, Arrivals
  <2> QED
    BY <1>0, <1>2, <1>3, <2>1, <2>2, Arrivals DEF history
<1>4. ASSUME NEW r \in Requests, Step(r)
      PROVE  Grounded'
  <2>1. \A k \in acked' : k.contact \in In(ContactsOf(k.user))'
    <3>1. CASE Adds(r) /\ At(r, "stored")
      <4>1. task[r] # None /\ task[r].stage = "stored"
        BY <3>1 DEF At
      <4>2. PICK i, u, c : task[r].row = i /\ task[r].token.user = u /\ task[r].contact = c
        OBVIOUS
      <4>3. i \in RowIds /\ c \in Contact /\ u \in Users
        BY <4>1, <4>2, TaskFields DEF Equipped, Ops
      <4>4. rows[i] = [user |-> u, contact |-> c] /\ rows[i] # None
        BY <4>1, <4>2, <4>3, NoneAssumption DEF Grounded, Row
      <4>5. c \in In(ContactsOf(u))
        BY <4>3, <4>4 DEF In, ContactsOf
      <4>6. c \in In(ContactsOf(u))'
        BY <4>5, Grow
      <4>7. acked' = acked \/ acked' = acked \cup {[user |-> u, contact |-> c]}
        BY <3>1, <4>2, Adding DEF AckOf
      <4> QED
        BY <1>2, <4>6, <4>7
    <3>2. CASE ~(Adds(r) /\ At(r, "stored"))
      <4>1. CASE Adds(r)
        BY <1>2, <3>2, <4>1, Adding
      <4>2. CASE ~Adds(r)
        <5>1. acked' = acked
          BY <1>4, <4>2
             DEF Step, Adds, EnterOnce, DialOk, DialFails, PassOnce, IssueTokens, Insert,
                 List, QueryFails, NilPool, NotFound, Lookup, Refuse, UploadBytes,
                 UploadFails, Respond, NoContract, history
        <5> QED
          BY <1>2, <5>1
      <4> QED
        BY <4>1, <4>2
    <3> QED
      BY <3>1, <3>2
  <2>2. ASSUME task'[r] # None
        PROVE  Firm(r)
    <3>1. CASE task'[r].stage = "stored"
      <4>1. PICK i \in RowIds : /\ Insert(r, i) /\ task'[r].row = i
                                /\ task'[r].contact = task[r].contact
        BY <1>4, <2>2, <3>1, Moves
      <4>2. rows'[i] = [user |-> task[r].token.user, contact |-> task[r].contact]
        <5>1. PICK w \in Row :
                w = [user |-> task[r].token.user, contact |-> task[r].contact]
          BY <4>1, InsertType
        <5>2. rows'[i] = w
          BY <4>1, <5>1 DEF Insert, TypeOK
        <5> QED
          BY <5>1, <5>2
      <4>3. task'[r].op = "add" /\ task'[r].token = task[r].token
        BY <1>4, <2>2, <4>1, Moves DEF Insert, Doing
      <4> QED
        BY <4>1, <4>2, <4>3 DEF Firm
    <3>2. CASE task'[r].stage # "stored"
      BY <1>1, <1>4, <2>2, <3>2, Moves, StepOwner
    <3> QED
      BY <3>1, <3>2
  <2>3. ASSUME NEW q \in Requests, q # r, task'[q] # None
        PROVE  Firm(q)
    BY <1>1, <1>4, <2>3, OthersStay
  <2> QED
    BY <1>0, <2>1, <2>2, <2>3
<1>5. ASSUME NEW r \in Requests, Cancel(r)
      PROVE  Grounded'
  <2>1. PICK k \in Task : k = task[r]
    BY <1>5, CancelStep DEF TypeOK
  <2>2. /\ task'[r].op = k.op /\ task'[r].token = k.token /\ task'[r].addr = k.addr
        /\ task'[r].seen = k.seen /\ task'[r].stage = k.stage /\ task'[r].row = k.row
        /\ task'[r].contact = k.contact
    BY <1>5, <2>1, CancelStep DEF Task
  <2>3. Firm(r)
    BY <1>1, <1>5, <2>1, <2>2, CancelStep
  <2>4. ASSUME NEW q \in Requests, q # r, task'[q] # None
        PROVE  Firm(q)
    BY <1>1, <1>5, <2>4, OthersStay
  <2> QED
    BY <1>0, <1>2, <1>5, <2>3, <2>4, CancelStep DEF history
<1>6. CASE Restart
  BY <1>0, <1>2, <1>6 DEF Restart, history
<1>7. CASE UNCHANGED <<rows, provider, tokens, task, pins, history>>
  BY <1>0, <1>1, <1>2, <1>7 DEF history
<1> QED
  BY <1>3, <1>4, <1>5, <1>6, <1>7, StepKinds

-----------------------------------------------------------------------------
(* The contact a file goes to                                               *)

LEMMA SourcedStep ==
  ASSUME TypeOK, Equipped, Sourced, [Next]_vars
  PROVE  Sourced'
<1> DEFINE Near(q) ==
      /\ task'[q].stage \in {"seal", "pinned"} =>
           \A u, a, k : task'[q].token.user = u /\ task'[q].addr = a /\ task'[q].contact = k =>
             \E i \in Matching(u, a)' : rows'[i].contact = k
      /\ task'[q].stage = "pinned" =>
           \A c, k : task'[q].cid = c /\ task'[q].contact = k =>
             pins'[c] = k.key /\ Sendable(k)
<1>0. ASSUME \A q \in Requests : task'[q] # None => Near(q)
      PROVE  Sourced'
  BY <1>0 DEF Sourced, At, Matching, ContactsOf, Sendable, BridgeOf
(* A request keeps its source while it keeps its contact and its upload.     *)
<1>1. ASSUME NEW q \in Requests, task[q] # None,
             task'[q].token = task[q].token, task'[q].addr = task[q].addr,
             task'[q].contact = task[q].contact, task'[q].cid = task[q].cid,
             task'[q].stage = task[q].stage
      PROVE  Near(q)
  <2>1. ASSUME task[q].stage \in {"seal", "pinned"},
               NEW u, NEW a, task[q].token.user = u, task[q].addr = a
        PROVE  \E i \in Matching(u, a)' : rows'[i].contact = task[q].contact
    <3>1. PICK i \in Matching(u, a) : rows[i].contact = task[q].contact
      BY <1>1, <2>1 DEF Sourced, At
    <3>2. i \in RowIds /\ rows[i] # None
      BY DEF Matching, ContactsOf
    <3> QED
      BY <3>1, <3>2, Grow
  <2>2. ASSUME task[q].stage = "pinned"
        PROVE  pins'[task[q].cid] = task[q].contact.key /\ Sendable(task[q].contact)
    <3>1. pins[task[q].cid] = task[q].contact.key /\ Sendable(task[q].contact)
      BY <1>1, <2>2 DEF Sourced, At
    <3>2. pins[task[q].cid] # None
      BY <3>1, ConfigAssumption, NoneAssumption DEF Sendable
    <3>3. task[q].cid \in Cids
      BY <1>1, <2>2, TaskFields DEF Equipped
    <3> QED
      BY <3>1, <3>2, <3>3, Grow
  <2> QED
    BY <1>1, <2>1, <2>2
<1> HIDE DEF Near
<1>2. ASSUME NEW r \in Requests, ArrivesAt(r)
      PROVE  Sourced'
  <2>1. Near(r)
    BY <1>2, Arrivals DEF Near, Ops
  <2>2. ASSUME NEW q \in Requests, q # r, task'[q] # None
        PROVE  Near(q)
    BY <1>1, <1>2, <2>2, Arrivals
  <2> QED
    BY <1>0, <2>1, <2>2
<1>3. ASSUME NEW r \in Requests, Step(r)
      PROVE  Sourced'
  <2>1. ASSUME task'[r] # None, task'[r].stage = "seal"
        PROVE  Near(r)
    <3>1. PICK i \in RowIds : Lookup(r, i) /\ task'[r].contact = rows[i].contact
      BY <1>3, <2>1, Moves
    <3>2. /\ task'[r].token = task[r].token /\ task'[r].addr = task[r].addr
          /\ rows' = rows
      BY <1>3, <2>1, <3>1, Moves DEF Lookup
    <3>3. ASSUME NEW u, NEW a, task[r].token.user = u, task[r].addr = a
          PROVE  i \in Matching(u, a)'
      BY <1>3, <3>1, <3>3, Grow DEF Lookup
    <3> QED
      BY <2>1, <3>1, <3>2, <3>3 DEF Near
  <2>2. ASSUME task'[r] # None, task'[r].stage = "pinned"
        PROVE  Near(r)
    <3>1. PICK c \in Cids : /\ UploadBytes(r, c) /\ task'[r].cid = c
                           /\ task'[r].contact = task[r].contact
      BY <1>3, <2>2, Moves
    <3>2. /\ task'[r].token = task[r].token /\ task'[r].addr = task[r].addr
          /\ At(r, "seal") /\ rows' = rows
      BY <1>3, <2>2, <3>1, Moves DEF UploadBytes
    <3>3. ASSUME NEW u, NEW a, task[r].token.user = u, task[r].addr = a
          PROVE  \E i \in Matching(u, a)' : rows'[i].contact = task[r].contact
      <4>1. PICK i \in Matching(u, a) : rows[i].contact = task[r].contact
        BY <3>2, <3>3 DEF Sourced
      <4> QED
        BY <3>2, <4>1, Grow
    <3>4. pins'[c] = task[r].contact.key /\ Sendable(task[r].contact)
      BY <3>1 DEF UploadBytes, TypeOK
    <3> QED
      BY <2>2, <3>1, <3>2, <3>3, <3>4 DEF Near
  <2>3. task'[r] # None => Near(r)
    BY <2>1, <2>2 DEF Near
  <2>4. ASSUME NEW q \in Requests, q # r, task'[q] # None
        PROVE  Near(q)
    BY <1>1, <1>3, <2>4, OthersStay
  <2> QED
    BY <1>0, <2>3, <2>4
<1>4. ASSUME NEW r \in Requests, Cancel(r)
      PROVE  Sourced'
  <2>1. PICK k \in Task : k = task[r]
    BY <1>4, CancelStep DEF TypeOK
  <2>2. /\ task'[r].token = k.token /\ task'[r].addr = k.addr
        /\ task'[r].contact = k.contact /\ task'[r].cid = k.cid
        /\ task'[r].stage = k.stage
    BY <1>4, <2>1, CancelStep DEF Task
  <2>3. Near(r)
    BY <1>1, <1>4, <2>1, <2>2, CancelStep
  <2>4. ASSUME NEW q \in Requests, q # r, task'[q] # None
        PROVE  Near(q)
    BY <1>1, <1>4, <2>4, OthersStay
  <2> QED
    BY <1>0, <2>3, <2>4
<1>5. CASE Restart
  BY <1>0, <1>5 DEF Restart
<1>6. CASE UNCHANGED <<rows, provider, tokens, task, pins, history>>
  BY <1>0, <1>1, <1>6
<1> QED
  BY <1>2, <1>3, <1>4, <1>5, <1>6, StepKinds

(* A plan that reached the client keeps its row and its upload.              *)
LEMMA PlansStep ==
  ASSUME TypeOK, Equipped, Sourced, PlansMatchContacts, [Next]_vars
  PROVE  PlansMatchContacts'
<1> DEFINE Backed(p) == \E i \in RowIds :
      /\ rows'[i] # None
      /\ rows'[i].user = p.user
      /\ rows'[i].contact.addr = p.recipient
      /\ rows'[i].contact.key = pins'[p.cid]
      /\ BridgeOf(rows'[i].contact) = p.bridge
<1>1. ASSUME NEW p \in plans
      PROVE  Backed(p)
  <2>1. PICK i \in RowIds : /\ rows[i] # None
                           /\ rows[i].user = p.user
                           /\ rows[i].contact.addr = p.recipient
                           /\ rows[i].contact.key = pins[p.cid]
                           /\ BridgeOf(rows[i].contact) = p.bridge
    BY DEF PlansMatchContacts
  <2>2. pins[p.cid] # None
    BY <2>1, RowFields, NoneAssumption
  <2>3. p.cid \in Cids
    BY DEF TypeOK, Plan
  <2> QED
    BY <2>1, <2>2, <2>3, Grow
<1>2. ASSUME NEW r \in Requests, Respond(r)
      PROVE  Backed(PlanOf(r))
  <2>1. At(r, "pinned") /\ rows' = rows /\ pins' = pins
    BY <1>2 DEF Respond
  <2>2. PICK i \in Matching(task[r].token.user, task[r].addr) :
          rows[i].contact = task[r].contact
    BY <2>1 DEF Sourced
  <2>3. /\ i \in RowIds /\ rows[i] # None /\ rows[i].user = task[r].token.user
        /\ rows[i].contact.addr = task[r].addr
    BY DEF Matching, ContactsOf
  <2>4. rows[i].contact.key = pins[task[r].cid]
    BY <2>1, <2>2 DEF Sourced
  <2> QED
    BY <2>1, <2>2, <2>3, <2>4 DEF PlanOf
<1>3. \A p \in plans' : p \in plans \/ \E r \in Requests : Respond(r) /\ p = PlanOf(r)
  <2>1. ASSUME NEW r \in Requests, Step(r)
        PROVE  \/ plans' = plans
               \/ /\ Respond(r)
                  /\ plans' \subseteq plans \cup {PlanOf(r)}
    BY <2>1
       DEF Step, EnterOnce, DialOk, DialFails, PassOnce, IssueTokens, Insert, TooLong,
           InsertAnswered, InsertFails, InsertInDoubt, AddAnswered, List, QueryFails,
           NilPool, NotFound, Lookup, Refuse, UploadBytes, UploadFails, Respond,
           NoContract, history, PlanOf
  <2>2. ASSUME NEW r \in Requests, ArrivesAt(r) \/ Cancel(r)
        PROVE  plans' = plans
    BY <2>2, Arrivals, CancelStep DEF history
  <2>3. CASE Restart
    BY <2>3 DEF Restart, history
  <2> QED
    BY <2>1, <2>2, <2>3, StepKinds DEF history
<1>4. \A p \in plans' : Backed(p)
  BY <1>1, <1>2, <1>3
<1> QED
  BY <1>4 DEF PlansMatchContacts, BridgeOf

-----------------------------------------------------------------------------
(* Answers that leave nothing out, and the nil pool                          *)

LEMMA SeenStep ==
  ASSUME TypeOK, Equipped, Grounded, AckedContactsSeen, [Next]_vars
  PROVE  AckedContactsSeen'
<1>1. ASSUME NEW r \in Requests, Step(r)
      PROVE  lost' = {}
  <2>1. CASE List(r)
    <3>1. task[r].seen \subseteq In(ContactsOf(task[r].token.user))
      BY <2>1 DEF List, Doing, At, Grounded
    <3> QED
      BY <2>1, <3>1 DEF List, AckedContactsSeen
  <2>2. CASE NotFound(r)
    <3>1. task[r] # None /\ task[r].stage = "lookup"
      BY <2>2 DEF NotFound, At
    <3>2. task[r].op = "send"
      BY <3>1, TaskFields DEF Equipped, Ops
    <3>3. task[r].seen \subseteq In(Matching(task[r].token.user, task[r].addr))
      BY <3>1, <3>2 DEF Grounded
    <3> QED
      BY <2>2, <3>3 DEF NotFound, In, AckedContactsSeen
  <2>3. CASE ~List(r) /\ ~NotFound(r)
    BY <1>1, <2>3
       DEF Step, EnterOnce, DialOk, DialFails, PassOnce, IssueTokens, Insert, TooLong,
           InsertAnswered, InsertFails, InsertInDoubt, AddAnswered, QueryFails, NilPool,
           Lookup, Refuse, UploadBytes, UploadFails, Respond, NoContract, history,
           AckedContactsSeen
  <2> QED
    BY <2>1, <2>2, <2>3
<1>2. ASSUME NEW r \in Requests, ArrivesAt(r) \/ Cancel(r)
      PROVE  lost' = lost
  BY <1>2, Arrivals, CancelStep DEF history
<1>3. CASE Restart
  BY <1>3 DEF Restart, history, AckedContactsSeen
<1> QED
  BY <1>1, <1>2, <1>3, StepKinds DEF history, AckedContactsSeen

LEMMA PanicStep ==
  ASSUME TypeOK, Equipped, PoolBehindTokens, NoFutureTokens, NilPoolOnlyAfterRestart,
         [Next]_vars
  PROVE  NilPoolOnlyAfterRestart'
<1>1. ASSUME NEW r \in Requests, NilPool(r)
      PROVE  task[r].token.epoch < epoch
  <2>1. task[r] # None /\ task[r].stage = "lookup" /\ pool # "open"
    BY <1>1 DEF NilPool, At
  <2>2. task[r].op = "send"
    BY <2>1, TaskFields DEF Equipped, Ops
  <2>3. task[r].token.epoch # epoch /\ task[r].token.epoch <= epoch
    BY <2>1, <2>2 DEF PoolBehindTokens, NoFutureTokens
  <2>4. task[r].token.epoch \in Nat /\ epoch \in Nat
    BY <2>1, TaskFields, BoundAssumption DEF TypeOK, Epochs
  <2> QED
    BY <2>3, <2>4
<1>2. ASSUME NEW r \in Requests, Step(r)
      PROVE  \/ panics' = panics
             \/ /\ NilPool(r)
                /\ panics' = panics \cup {[issued |-> task[r].token.epoch, at |-> epoch]}
  BY <1>2
     DEF Step, EnterOnce, DialOk, DialFails, PassOnce, IssueTokens, Insert, TooLong,
         InsertAnswered, InsertFails, InsertInDoubt, AddAnswered, List, QueryFails,
         NilPool, NotFound, Lookup, Refuse, UploadBytes, UploadFails, Respond,
         NoContract, history
<1>3. ASSUME NEW r \in Requests, ArrivesAt(r) \/ Cancel(r)
      PROVE  panics' = panics
  BY <1>3, Arrivals, CancelStep DEF history
<1>4. CASE Restart
  BY <1>4 DEF Restart, history, NilPoolOnlyAfterRestart
<1>5. \A p \in panics' : p \in panics \/ p.issued < p.at
  BY <1>1, <1>2, <1>3, <1>4, StepKinds DEF history, Restart
<1> QED
  BY <1>5 DEF NilPoolOnlyAfterRestart

-----------------------------------------------------------------------------
(* The invariant                                                            *)

LEMMA IInvInit == Init => IInv
<1> SUFFICES ASSUME Init
             PROVE  IInv
  OBVIOUS
<1>1. TypeOK
  BY TypeInit
<1>2. Equipped /\ PoolBehindTokens /\ NoFutureTokens /\ OneDialer
  BY DEF Init, Equipped, PoolBehindTokens, NoFutureTokens, OneDialer, At
<1>3. Grounded /\ Sourced
  BY DEF Init, Grounded, Sourced, At
<1>4. PlansMatchContacts /\ AckedContactsSeen /\ NilPoolOnlyAfterRestart
  BY DEF Init, PlansMatchContacts, AckedContactsSeen, NilPoolOnlyAfterRestart
<1> QED
  BY <1>1, <1>2, <1>3, <1>4 DEF IInv

LEMMA IInvStep == IInv /\ [Next]_vars => IInv'
<1> SUFFICES ASSUME IInv, [Next]_vars
             PROVE  IInv'
  OBVIOUS
<1>1. /\ TypeOK /\ Equipped /\ PoolBehindTokens /\ NoFutureTokens /\ OneDialer
      /\ Grounded /\ Sourced
      /\ PlansMatchContacts /\ AckedContactsSeen /\ NilPoolOnlyAfterRestart
  BY DEF IInv
<1>2. TypeOK' /\ Equipped' /\ PoolBehindTokens' /\ NoFutureTokens' /\ OneDialer'
  BY <1>1, TypeStep, EquippedStep, PoolStep, FutureStep, DialerStep
<1>3. Grounded' /\ Sourced'
  BY <1>1, GroundedStep, SourcedStep
<1>4. PlansMatchContacts' /\ AckedContactsSeen' /\ NilPoolOnlyAfterRestart'
  BY <1>1, PlansStep, SeenStep, PanicStep
<1> QED
  BY <1>2, <1>3, <1>4 DEF IInv

(* The invariant holds of every reachable state.                            *)
THEOREM Inductive == Spec => []IInv
  BY IInvInit, IInvStep, PTL DEF Spec

(* Every variable has its type, whatever the contacts and the bounds.        *)
THEOREM TypeCorrect == Spec => []TypeOK
  BY Inductive, PTL DEF IInv

(* A plan that reaches the client is for a contact its sender stored: the    *)
(* upload is encrypted with that contact's key (SendFile).                  *)
THEOREM PlansAreRight == Spec => []PlansMatchContacts
  BY Inductive, PTL DEF IInv

(* No answer leaves out a contact that was acknowledged before the request.  *)
THEOREM AcknowledgedIsSeen == Spec => []AckedContactsSeen
  BY Inductive, PTL DEF IInv

(* A nil pool is met only with a token of an earlier life of the process.    *)
THEOREM NilPoolNeedsRestart == Spec => []NilPoolOnlyAfterRestart
  BY Inductive, PTL DEF IInv

-----------------------------------------------------------------------------
(* Refinement of PoolOnce                                                   *)

LEMMA ProviderKinds ==
  ASSUME [Next]_vars
  PROVE  \/ \E r \in Requests : EnterOnce(r) \/ DialOk(r) \/ DialFails(r)
         \/ Restart
         \/ UNCHANGED provider
<1>1. ASSUME NEW r \in Requests, ArrivesAt(r) \/ Cancel(r)
      PROVE  UNCHANGED provider
  BY <1>1
     DEF ArrivesAt, StartVerify, StartAdd, StartList, StartSend, Arrive, Cancel, provider
<1> QED
  BY <1>1, ProviderSteps, StepKinds

(* The pool is settled at most once in a life of the process.                *)
THEOREM Refinement == Spec => PoolSettledOnce
<1>1. Init => P!Init
  BY DEF Init, P!Init, Settled
<1>2. IInv /\ [Next]_vars => [P!Next]_(P!vars)
  <2> SUFFICES ASSUME IInv, [Next]_vars
               PROVE  P!Next \/ UNCHANGED P!vars
    OBVIOUS
  <2>1. CASE \E r \in Requests : EnterOnce(r)
    BY <2>1 DEF EnterOnce, OnceFree, Settled, P!vars
  <2>2. CASE \E r \in Requests : DialOk(r) \/ DialFails(r)
    <3>1. PICK r \in Requests : DialOk(r) \/ DialFails(r)
      BY <2>2
    <3>2. once = "dialing"
      BY <3>1 DEF DialOk, DialFails, IInv, OneDialer
    <3>3. P!Settle
      BY <3>1, <3>2 DEF DialOk, DialFails, OnceDone, Settled, P!Settle
    <3> QED
      BY <3>3 DEF P!Next
  <2>3. CASE Restart
    BY <2>3 DEF Restart, Settled, P!Restart, P!Next
  <2>4. CASE UNCHANGED provider
    BY <2>4 DEF provider, Settled, P!vars
  <2> QED
    BY <2>1, <2>2, <2>3, <2>4, ProviderKinds
<1> QED
  BY <1>1, <1>2, Inductive, PTL DEF Spec, PoolSettledOnce, P!Spec
=============================================================================
