----------------------------- MODULE ContactBook -----------------------------
(***************************************************************************)
(* The contact book and the server half of sending a file: the Postgres     *)
(* pool that is opened once (store/postgres/provider.go), the table of      *)
(* contacts (contacts_repo.go, db/init.sql), and the handlers that use them *)
(* (handlers/contacts.go, handlers/files.go, the pool in handlers/auth.go). *)
(*                                                                         *)
(* Each request is a goroutine that may lose its client at any moment: its  *)
(* context is then cancelled, and with it the pool it is opening or the     *)
(* query it is making.  Postgres comes and goes, and so does the process;   *)
(* the table and the access tokens of clients survive both.                 *)
(*                                                                         *)
(* An address is the lower-cased text a client wrote.  Encryption is the    *)
(* key it was done with; a CID names one upload.                           *)
(***************************************************************************)
EXTENDS Naturals

CONSTANTS
  Users,            \* accounts that log in
  Chains,           \* chains they log in on
  Addresses,        \* addresses of contacts
  PubKeys,          \* values of contact_pub_key
  GoodKeys,         \* those that parsePubKey accepts
  Networks,         \* values of contact_network
  Bridges,          \* addresses of bridge contracts
  BridgeByNetwork,  \* cfg.BridgeByNetwork, None where there is no entry
  BridgeChain,      \* the chain each bridge contract is deployed on
  Requests,         \* goroutines serving requests
  RowIds,           \* supply of rows: bounds the contacts ever added
  Cids,             \* supply of uploads
  MaxRestarts,      \* bound on restarts of the process
  MaxOutages,       \* bound on outages of Postgres
  None

Epochs == 0 .. MaxRestarts
(* An access token; epoch, a history field, is the life it was issued in.   *)
Token == [user : Users, chain : Chains, epoch : Epochs]
Contact == [addr : Addresses, key : PubKeys, network : Networks]
Row == [user : Users, contact : Contact]

Ops == {"verify", "add", "list", "send"}
(* "pool": in Provider.Pool; "dial": in its once.Do; "ready": has the pool;  *)
(* "lookup", "seal", "pinned": steps of SendFile; "stored": row inserted.    *)
Stages == {"pool", "dial", "ready", "stored", "lookup", "seal", "pinned"}
(* A request.  item is the contact, the contact's address, the new row or    *)
(* the upload it deals with; seen, a history field, are the acknowledged     *)
(* contacts that its answer has to take into account.                        *)
Task == [op : Ops, token : Token, stage : Stages, cancelled : BOOLEAN,
         addr : Addresses \cup {None}, contact : Contact \cup {None},
         row : RowIds \cup {None}, cid : Cids \cup {None}, seen : SUBSET Contact]

(* What SendFile answers, as far as the client acts on it.                  *)
Plan == [user : Users, chain : Chains, recipient : Addresses,
         cid : Cids, bridge : Bridges]
(* AddContact answered with 200: who was told that which contact is stored.   *)
Ack == [user : Users, contact : Contact]
Panic == [issued : Epochs, at : Epochs]

ASSUME ConfigAssumption ==
  /\ GoodKeys \subseteq PubKeys
  /\ BridgeByNetwork \in [Networks -> Bridges \cup {None}]
  /\ BridgeChain \in [Bridges -> Chains]
ASSUME BoundAssumption == MaxRestarts \in Nat /\ MaxOutages \in Nat
ASSUME NoneAssumption == /\ None \notin Task
                         /\ None \notin Row
                         /\ None \notin Contact
                         /\ None \notin PubKeys
                         /\ None \notin Addresses
                         /\ None \notin RowIds
                         /\ None \notin Cids
                         /\ None \notin Bridges

VARIABLES
  rows,     \* the table contacts
  up,       \* whether Postgres can be reached
  outages,  \* outages so far
  once,     \* Provider.once: "idle", "dialing" or "done"
  pool,     \* Provider.pool and err: "none", "open" or "failed"
  epoch,    \* restarts so far
  tokens,   \* access tokens in the hands of clients
  task,     \* what each request is doing
  pins,     \* what is pinned to IPFS: the key each upload is encrypted with
  (* History.                                                              *)
  acked,    \* the insertions that were acknowledged to the client
  plans,    \* the answers of SendFile that reached the client
  lost,     \* acknowledged contacts that an answer left out
  panics    \* requests that used a nil pool

provider == <<once, pool, epoch>>
history == <<acked, plans, lost, panics>>
vars == <<rows, up, outages, once, pool, epoch, tokens, task, pins,
          acked, plans, lost, panics>>

TypeOK ==
  /\ rows \in [RowIds -> Row \cup {None}]
  /\ up \in BOOLEAN
  /\ outages \in 0 .. MaxOutages
  /\ once \in {"idle", "dialing", "done"}
  /\ pool \in {"none", "open", "failed"}
  /\ epoch \in Epochs
  /\ tokens \in SUBSET Token
  /\ task \in [Requests -> Task \cup {None}]
  /\ pins \in [Cids -> PubKeys \cup {None}]
  /\ acked \in SUBSET Ack
  /\ plans \in SUBSET Plan
  /\ lost \in SUBSET Contact
  /\ panics \in SUBSET Panic

Init ==
  /\ rows = [i \in RowIds |-> None]
  /\ up = TRUE
  /\ outages = 0
  /\ once = "idle"
  /\ pool = "none"
  /\ epoch = 0
  /\ tokens = {}
  /\ task = [r \in Requests |-> None]
  /\ pins = [c \in Cids |-> None]
  /\ acked = {}
  /\ plans = {}
  /\ lost = {}
  /\ panics = {}

-----------------------------------------------------------------------------
At(r, stage) == task[r] # None /\ task[r].stage = stage
Doing(r, op, stage) == At(r, stage) /\ task[r].op = op

(* What the where clauses of the two queries select.                        *)
ContactsOf(u) == {i \in RowIds : rows[i] # None /\ rows[i].user = u}

MatchingAnyone(u, a) ==                       \* fault: user_pub_key forgotten
  {i \in RowIds : rows[i] # None /\ rows[i].contact.addr = a}

Matching(u, a) == {i \in ContactsOf(u) : rows[i].contact.addr = a}

(* The contacts in rows, and those that u, or u for address a, was told are   *)
(* stored.                                                                  *)
In(is) == {rows[i].contact : i \in is}
AckedOf(u) == {k \in Contact : [user |-> u, contact |-> k] \in acked}
AckedFor(u, a) == {k \in AckedOf(u) : k.addr = a}

End(r) == task' = [task EXCEPT ![r] = None]
GoTo(r, stage) == task' = [task EXCEPT ![r].stage = stage]

(* A query made for r may fail.                                             *)
Troubled(r) == task[r].cancelled \/ ~up

-----------------------------------------------------------------------------
(* Requests arrive.  SiweVerify, its signature accepted, is about to ask for *)
(* the pool; the others carry a token that the middleware let through.       *)

NewTask(op, t, stage) ==
  [op |-> op, token |-> t, stage |-> stage, cancelled |-> FALSE, addr |-> None,
   contact |-> None, row |-> None, cid |-> None, seen |-> {}]

Arrive(r, k) == /\ task[r] = None
                /\ task' = [task EXCEPT ![r] = k]
                /\ UNCHANGED <<rows, up, outages, provider, tokens, pins, history>>

StartVerify(r, u, c) ==
  Arrive(r, NewTask("verify", [user |-> u, chain |-> c, epoch |-> epoch], "pool"))

StartAdd(r, t, k) ==
  /\ t \in tokens
  /\ Arrive(r, [NewTask("add", t, "pool") EXCEPT !.contact = k])

StartList(r, t) ==
  /\ t \in tokens
  /\ Arrive(r, [NewTask("list", t, "pool") EXCEPT
                  !.seen = AckedOf(t.user)])

(* GetContactKeyInfo does not go through Provider.Pool.                     *)
StartSend(r, t, a) ==
  /\ t \in tokens
  /\ Arrive(r, [NewTask("send", t, "lookup") EXCEPT
                  !.addr = a, !.seen = AckedFor(t.user, a)])

-----------------------------------------------------------------------------
(* Provider.Pool                                                            *)

OnceAgain == once # "dialing"                        \* fault: no sync.Once

OnceFree == once = "idle"

(* The first caller runs the function; the others wait at "pool".           *)
EnterOnce(r) ==
  /\ At(r, "pool")
  /\ OnceFree
  /\ once' = "dialing"
  /\ GoTo(r, "dial")
  /\ UNCHANGED <<rows, up, outages, pool, epoch, tokens, pins, history>>

OnceLeftOpen == once                   \* fault: done is not set on an early return
OnceDone == "done"

DialOk(r) ==
  /\ At(r, "dial")
  /\ up
  /\ pool' = "open"
  /\ once' = "done"
  /\ GoTo(r, "pool")
  /\ UNCHANGED <<rows, up, outages, epoch, tokens, pins, history>>

(* New or Ping returns an error: Postgres is away, or this request's client. *)
DialFails(r) ==
  /\ At(r, "dial")
  /\ Troubled(r)
  /\ pool' = "failed"
  /\ once' = OnceDone
  /\ GoTo(r, "pool")
  /\ UNCHANGED <<rows, up, outages, epoch, tokens, pins, history>>

PoolUnchecked == TRUE                                \* fault: err is not looked at
HasPool == pool = "open"

(* Do has returned, for whoever ran it: the caller goes on, or answers 500.  *)
PassOnce(r) ==
  /\ At(r, "pool")
  /\ once = "done"
  /\ IF HasPool THEN GoTo(r, "ready") ELSE End(r)
  /\ UNCHANGED <<rows, up, outages, provider, tokens, pins, history>>

-----------------------------------------------------------------------------
(* POST /auth/siwe/verify, from IssueTokens on                              *)

IssueTokens(r) ==
  /\ Doing(r, "verify", "ready")
  /\ tokens' = IF task[r].cancelled THEN tokens ELSE tokens \cup {task[r].token}
  /\ End(r)
  /\ UNCHANGED <<rows, up, outages, provider, pins, history>>

-----------------------------------------------------------------------------
(* POST and GET /contacts                                                   *)

(* No column but the serial one is unique: equal contacts are stored again.  *)
Insert(r, i) ==
  /\ Doing(r, "add", "ready")
  /\ up
  /\ rows[i] = None
  /\ rows' = [rows EXCEPT ![i] = [user    |-> task[r].token.user,
                                  contact |-> task[r].contact]]
  /\ task' = [task EXCEPT ![r].stage = "stored", ![r].row = i]
  /\ UNCHANGED <<up, outages, provider, tokens, pins, history>>

AckOf(r) == [user |-> task[r].token.user, contact |-> task[r].contact]

ToldAnyway(r, stored) ==               \* fault: the error of Insert is not looked at
  IF task[r].cancelled THEN acked ELSE acked \cup {AckOf(r)}

(* The answer, 200 if Insert returned no error, to a client that is there.   *)
Told(r, stored) ==
  IF stored /\ ~task[r].cancelled THEN acked \cup {AckOf(r)} ELSE acked

AddAnswered(r, stored) ==
  /\ acked' = Told(r, stored)
  /\ End(r)
  /\ UNCHANGED <<rows, up, outages, provider, tokens, pins, plans, lost, panics>>

InsertAnswered(r) ==
  /\ At(r, "stored")
  /\ AddAnswered(r, TRUE)

(* A value is too long for its column.                                      *)
TooLong(r) ==
  /\ Doing(r, "add", "ready")
  /\ up
  /\ AddAnswered(r, FALSE)

InsertFails(r) ==
  /\ Doing(r, "add", "ready")
  /\ Troubled(r)
  /\ AddAnswered(r, FALSE)

(* Exec failed after the row was stored: the client may try again, and the   *)
(* contact is then stored twice.                                            *)
InsertInDoubt(r) ==
  /\ At(r, "stored")
  /\ Troubled(r)
  /\ AddAnswered(r, FALSE)

List(r) ==
  /\ Doing(r, "list", "ready")
  /\ up
  /\ lost' = lost \cup (task[r].seen \ In(ContactsOf(task[r].token.user)))
  /\ End(r)
  /\ UNCHANGED <<rows, up, outages, provider, tokens, pins, acked, plans, panics>>

-----------------------------------------------------------------------------
(* POST /files/send                                                         *)

(* The repository's own field, nil unless a call of Pool succeeded in this   *)
(* life of the process.  The panic ends the request, not the process.        *)
NilPool(r) ==
  /\ At(r, "lookup")
  /\ pool # "open"
  /\ panics' = panics \cup {[issued |-> task[r].token.epoch, at |-> epoch]}
  /\ End(r)
  /\ UNCHANGED <<rows, up, outages, provider, tokens, pins, acked, plans, lost>>

(* QueryRow takes any of the rows that match: the query has no order.       *)
Lookup(r, i) ==
  /\ At(r, "lookup")
  /\ pool = "open"
  /\ up
  /\ i \in Matching(task[r].token.user, task[r].addr)
  /\ task' = [task EXCEPT ![r].stage = "seal", ![r].contact = rows[i].contact]
  /\ UNCHANGED <<rows, up, outages, provider, tokens, pins, history>>

NotFound(r) ==
  /\ At(r, "lookup")
  /\ pool = "open"
  /\ up
  /\ Matching(task[r].token.user, task[r].addr) = {}
  /\ lost' = lost \cup task[r].seen
  /\ End(r)
  /\ UNCHANGED <<rows, up, outages, provider, tokens, pins, acked, plans, panics>>

QueryFails(r) ==
  /\ \/ Doing(r, "list", "ready")
     \/ At(r, "lookup") /\ pool = "open"
  /\ Troubled(r)
  /\ End(r)
  /\ UNCHANGED <<rows, up, outages, provider, tokens, pins, history>>

BridgeOf(k) == BridgeByNetwork[k.network]

(* The contact's network has a bridge and its key can be decoded.           *)
Sendable(k) == BridgeOf(k) # None /\ k.key \in GoodKeys

Refuse(r) ==
  /\ At(r, "seal")
  /\ ~Sendable(task[r].contact)
  /\ End(r)
  /\ UNCHANGED <<rows, up, outages, provider, tokens, pins, history>>

(* Encrypts and uploads.  The upload has no context: it goes on without its  *)
(* client.                                                                  *)
UploadBytes(r, c) ==
  /\ At(r, "seal")
  /\ Sendable(task[r].contact)
  /\ pins[c] = None
  /\ pins' = [pins EXCEPT ![c] = task[r].contact.key]
  /\ task' = [task EXCEPT ![r].stage = "pinned", ![r].cid = c]
  /\ UNCHANGED <<rows, up, outages, provider, tokens, history>>

(* An upload whose answer is lost may have been pinned, under a CID that      *)
(* nobody here ever learns: it is left out.                                 *)
UploadFails(r) ==
  /\ At(r, "seal")
  /\ Sendable(task[r].contact)
  /\ End(r)
  /\ UNCHANGED <<rows, up, outages, provider, tokens, pins, history>>

Respond(r) ==
  /\ At(r, "pinned")
  /\ plans' = IF task[r].cancelled THEN plans ELSE plans \cup
       {[user |-> task[r].token.user, chain |-> task[r].token.chain,
         recipient |-> task[r].addr, cid |-> task[r].cid,
         bridge |-> BridgeOf(task[r].contact)]}
  /\ End(r)
  /\ UNCHANGED <<rows, up, outages, provider, tokens, pins, acked, lost, panics>>

(* NFT_ADDR is looked at only now: the upload stays, and nobody is told.     *)
NoContract(r) ==
  /\ At(r, "pinned")
  /\ End(r)
  /\ UNCHANGED <<rows, up, outages, provider, tokens, pins, history>>

-----------------------------------------------------------------------------
(* The environment                                                          *)

(* The client goes away: its request's context is cancelled.                *)
Cancel(r) ==
  /\ task[r] # None
  /\ ~task[r].cancelled
  /\ task' = [task EXCEPT ![r].cancelled = TRUE]
  /\ UNCHANGED <<rows, up, outages, provider, tokens, pins, history>>

Outage == /\ up
          /\ outages < MaxOutages
          /\ up' = FALSE
          /\ outages' = outages + 1
          /\ UNCHANGED <<rows, provider, tokens, task, pins, history>>

Recovery == /\ ~up
            /\ up' = TRUE
            /\ UNCHANGED <<rows, outages, provider, tokens, task, pins, history>>

(* The process restarts, and with it no more than the pool: the table is      *)
(* Postgres's.                                                              *)
Restart ==
  /\ epoch < MaxRestarts
  /\ epoch' = epoch + 1
  /\ once' = "idle"
  /\ pool' = "none"
  /\ task' = [r \in Requests |-> None]
  /\ UNCHANGED <<rows, up, outages, tokens, pins, history>>

(* What a request does by itself, its client and Postgres willing or not.    *)
Step(r) == \/ EnterOnce(r) \/ DialOk(r) \/ DialFails(r) \/ PassOnce(r)
           \/ IssueTokens(r)
           \/ \E i \in RowIds : Insert(r, i)
           \/ TooLong(r) \/ InsertFails(r) \/ InsertAnswered(r) \/ InsertInDoubt(r)
           \/ List(r) \/ QueryFails(r)
           \/ NilPool(r) \/ NotFound(r)
           \/ \E i \in RowIds : Lookup(r, i)
           \/ Refuse(r)
           \/ \E c \in Cids : UploadBytes(r, c)
           \/ UploadFails(r)
           \/ Respond(r) \/ NoContract(r)

Next ==
  \/ \E r \in Requests, u \in Users, c \in Chains : StartVerify(r, u, c)
  \/ \E r \in Requests, t \in tokens, k \in Contact : StartAdd(r, t, k)
  \/ \E r \in Requests, t \in tokens : StartList(r, t)
  \/ \E r \in Requests, t \in tokens, a \in Addresses : StartSend(r, t, a)
  \/ \E r \in Requests : Step(r)
  \/ \E r \in Requests : Cancel(r)
  \/ Outage
  \/ Recovery
  \/ Restart

Spec == Init /\ [][Next]_vars

(* Handlers run on: a dial ends (pgx gives up on it after two minutes), a    *)
(* query and an upload (60 s) too, and a waiter goes on when once is done.   *)
FairSpec == Spec /\ \A r \in Requests : WF_vars(Step(r))

-----------------------------------------------------------------------------
(* Properties                                                               *)

(* A file goes to the contact it was addressed to: whatever rows are added   *)
(* meanwhile or stand twice in the table, a plan that reaches the client     *)
(* has its upload encrypted with the key, and its bridge taken from the      *)
(* network, of one row that the sender itself stored under the recipient's   *)
(* address (SendFile, GetContactKeyInfo).                                    *)
PlansMatchContacts ==
  \A p \in plans : \E i \in RowIds :
    /\ rows[i] # None
    /\ rows[i].user = p.user
    /\ rows[i].contact.addr = p.recipient
    /\ rows[i].contact.key = pins[p.cid]
    /\ BridgeOf(rows[i].contact) = p.bridge

(* A contact whose AddContact was answered with 200 is in every answer that   *)
(* is asked for later: in its owner's list, and in the lookup of a file sent *)
(* to its address.  The 200 is for a row that stands, whatever insertions    *)
(* fail, are left in doubt or are tried again meanwhile.                     *)
AckedContactsSeen == lost = {}

(* SendFile meets a nil pool only with an access token from an earlier life  *)
(* of the process: SiweVerify opens the pool before it issues one.          *)
NilPoolOnlyAfterRestart == \A p \in panics : p.issued < p.at

(* The provider implements PoolOnce: in one life of the process the pool is  *)
(* settled once, for all requests, those that waited for the first included. *)
Settled == IF once = "done" THEN pool ELSE "none"

P == INSTANCE PoolOnce WITH status <- Settled

PoolSettledOnce == P!Spec

(* Nobody waits for ever on somebody else's first connection.               *)
EveryRequestEnds == \A r \in Requests : task[r] # None ~> task[r] = None

(* "Connect to Postgres after a successful authorization"                    *)
(* (handlers/auth.go:76): an authorized request finds the pool there.  A     *)
(* token that outlives a restart refutes it: SendFile uses a nil pool.       *)
AuthorizedMeansConnected == panics = {}

(* "Pool initializes (once) and returns pgx pool" (provider.go:23): with a   *)
(* Postgres that is never away, whoever calls Pool gets one.  A first caller *)
(* whose client goes away refutes it, for the rest of the process's life.    *)
PoolReturned == once = "done" /\ outages = 0 => pool = "open"

(* "Address of the bridge on the current network" (handlers/files.go:48):    *)
(* the bridge of a plan is on the chain its transactions are sent on.  The   *)
(* handler takes the bridge of the contact's network instead.               *)
BridgeOnCurrentNetwork == \A p \in plans : BridgeChain[p.bridge] = p.chain

-----------------------------------------------------------------------------
(* The inductive invariant behind the safety properties                     *)

(* What a request has in its hands at each stage.                           *)
Equipped ==
  \A r \in Requests : task[r] # None =>
    /\ task[r].op \in {"verify", "list"} => task[r].stage \in {"pool", "dial", "ready"}
    /\ task[r].op = "add" => /\ task[r].contact # None
                             /\ task[r].stage \in {"pool", "dial", "ready", "stored"}
    /\ task[r].op = "send" => /\ task[r].addr # None
                              /\ task[r].stage \in {"lookup", "seal", "pinned"}
    /\ task[r].stage = "stored" => task[r].row # None
    /\ task[r].stage \in {"seal", "pinned"} => task[r].contact # None
    /\ task[r].stage = "pinned" => task[r].cid # None

(* A pool is opened by once; it is there for whoever has passed Pool in this *)
(* life of the process, or holds a token issued in it.                      *)
PoolBehindTokens ==
  /\ pool = "open" => once = "done"
  /\ \A t \in tokens : t.epoch = epoch => pool = "open"
  /\ \A r \in Requests : task[r] # None =>
       /\ task[r].stage \in {"ready", "seal", "pinned"} => pool = "open"
       /\ task[r].op # "verify" /\ task[r].token.epoch = epoch => pool = "open"

(* No token comes from a life still to be lived.                            *)
NoFutureTokens ==
  /\ \A t \in tokens : t.epoch <= epoch
  /\ \A r \in Requests : task[r] # None => task[r].token.epoch <= epoch

(* At most one request runs the once function, and only while it runs.       *)
OneDialer ==
  \A r, q \in Requests : At(r, "dial") => once = "dialing" /\ (At(q, "dial") => q = r)

(* What an answer has to take into account is in the table, and selected by  *)
(* the query that the answer comes from.                                    *)
Grounded ==
  /\ \A k \in acked : k.contact \in In(ContactsOf(k.user))
  /\ \A r \in Requests : task[r] # None =>
       /\ task[r].op = "list" => task[r].seen \subseteq In(ContactsOf(task[r].token.user))
       /\ task[r].op = "send" =>
            task[r].seen \subseteq In(Matching(task[r].token.user, task[r].addr))
       /\ task[r].stage = "stored" =>
            rows[task[r].row] = [user |-> task[r].token.user, contact |-> task[r].contact]

(* The key and the network of a send request stem from one matching row.    *)
Sourced ==
  \A r \in Requests :
    At(r, "seal") \/ At(r, "pinned") =>
      /\ \E i \in Matching(task[r].token.user, task[r].addr) : rows[i].contact = task[r].contact
      /\ At(r, "pinned") => /\ pins[task[r].cid] = task[r].contact.key
                            /\ Sendable(task[r].contact)

IInv == /\ TypeOK
        /\ Equipped
        /\ PoolBehindTokens
        /\ NoFutureTokens
        /\ OneDialer
        /\ Grounded
        /\ Sourced
        /\ PlansMatchContacts
        /\ AckedContactsSeen
        /\ NilPoolOnlyAfterRestart
=============================================================================
