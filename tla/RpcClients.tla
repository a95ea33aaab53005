----------------------------- MODULE RpcClients -----------------------------
(***************************************************************************)
(* The RPC clients behind GET /me (eth/rpc_service.go, handlers/me.go): one *)
(* per chain, made on first use under a double-checked RWMutex.             *)
(*                                                                         *)
(* A critical section that makes no call is one action; the one that dials  *)
(* holds the lock while it does, and writer says who.                       *)
(***************************************************************************)
EXTENDS Naturals

CONSTANTS
  Chains,     \* chain ids of access tokens
  Configured, \* those that urls has an entry for
  Requests,   \* goroutines serving GET /me
  Clients,    \* supply of connections: bounds the dials that succeed
  MaxFaults,  \* bound on the dials that fail
  None

ASSUME ConfigAssumption == Configured \subseteq Chains
ASSUME BoundAssumption == MaxFaults \in Nat
ASSUME NoneAssumption == None \notin Clients /\ None \notin Requests

Task == [chain : Chains, stage : {"find", "lock", "dial"}]
Handed == [chain : Chains, client : Clients]
ASSUME TaskAssumption == None \notin Task

VARIABLES
  clients,  \* RPCService.clients
  writer,   \* the request that holds mu for writing, None if nobody does
  task,     \* each request's place in Client
  faults,   \* dials that failed so far
  dialed,   \* history: connections that were opened
  handed    \* history: what Client returned, and for which chain

vars == <<clients, writer, task, faults, dialed, handed>>

TypeOK ==
  /\ clients \in [Chains -> Clients \cup {None}]
  /\ writer \in Requests \cup {None}
  /\ task \in [Requests -> Task \cup {None}]
  /\ faults \in 0 .. MaxFaults
  /\ dialed \in SUBSET Clients
  /\ handed \in SUBSET Handed

Init ==
  /\ clients = [c \in Chains |-> None]
  /\ writer = None
  /\ task = [r \in Requests |-> None]
  /\ faults = 0
  /\ dialed = {}
  /\ handed = {}

-----------------------------------------------------------------------------
At(r, stage) == task[r] # None /\ task[r].stage = stage

Chain(r) == task[r].chain

End(r) == task' = [task EXCEPT ![r] = None]
GoTo(r, stage) == task' = [task EXCEPT ![r].stage = stage]

Return(r, client) ==
  /\ handed' = handed \cup {[chain |-> Chain(r), client |-> client]}
  /\ End(r)

Call(r, c) ==
  /\ task[r] = None
  /\ task' = [task EXCEPT ![r] = [chain |-> c, stage |-> "find"]]
  /\ UNCHANGED <<clients, writer, faults, dialed, handed>>

(* Under RLock.                                                             *)
Find(r) ==
  /\ At(r, "find")
  /\ writer = None
  /\ IF clients[Chain(r)] # None
     THEN Return(r, clients[Chain(r)])
     ELSE GoTo(r, "lock") /\ UNCHANGED handed
  /\ UNCHANGED <<clients, writer, faults, dialed>>

CheckedOnce(r) == FALSE                   \* fault: no second look under the lock
CheckedAgain(r) == clients[Chain(r)] # None

(* Under Lock: the client may have been made meanwhile.                      *)
FindAgain(r) ==
  /\ At(r, "lock")
  /\ writer = None
  /\ CheckedAgain(r)
  /\ Return(r, clients[Chain(r)])
  /\ UNCHANGED <<clients, writer, faults, dialed>>

Unsupported(r) ==
  /\ At(r, "lock")
  /\ writer = None
  /\ ~CheckedAgain(r)
  /\ Chain(r) \notin Configured
  /\ End(r)
  /\ UNCHANGED <<clients, writer, faults, dialed, handed>>

StartDial(r) ==
  /\ At(r, "lock")
  /\ writer = None
  /\ ~CheckedAgain(r)
  /\ Chain(r) \in Configured
  /\ writer' = r
  /\ GoTo(r, "dial")
  /\ UNCHANGED <<clients, faults, dialed, handed>>

DialOk(r, n) ==
  /\ At(r, "dial")
  /\ n \notin dialed
  /\ dialed' = dialed \cup {n}
  /\ clients' = [clients EXCEPT ![Chain(r)] = n]
  /\ writer' = None
  /\ Return(r, n)
  /\ UNCHANGED faults

KeptLocked == writer                      \* fault: no unlock on the error return
Unlocked == None

DialFails(r) ==
  /\ At(r, "dial")
  /\ faults < MaxFaults
  /\ faults' = faults + 1
  /\ writer' = Unlocked
  /\ End(r)
  /\ UNCHANGED <<clients, dialed, handed>>

Step(r) == \/ Find(r) \/ FindAgain(r) \/ Unsupported(r) \/ StartDial(r)
           \/ \E n \in Clients : DialOk(r, n)
           \/ DialFails(r)

Next == \/ \E r \in Requests, c \in Chains : Call(r, c)
        \/ \E r \in Requests : Step(r)

Spec == Init /\ [][Next]_vars

(* A dial ends; an RWMutex keeps neither readers nor a writer waiting for    *)
(* ever, whoever else asks for it (sync.RWMutex, sync.Mutex).               *)
FairSpec == Spec /\ \A r \in Requests : SF_vars(Step(r))

-----------------------------------------------------------------------------
(* Properties                                                               *)

(* However many requests find no client at once, one connection per chain is *)
(* opened, and whoever asks for the chain, then or later, gets that one      *)
(* (Client): no connection is opened and forgotten.                         *)
OneClientPerChain ==
  /\ \A h \in handed : clients[h.chain] = h.client
  /\ \A n \in dialed : \E c \in Chains : clients[c] = n

(* A dial that hangs up every other chain's requests lets them go in the end,*)
(* whether it succeeds or fails.                                            *)
EveryCallReturns == \A r \in Requests : task[r] # None ~> task[r] = None

(* A failed dial is not kept: once no dial fails any more, a call for a      *)
(* configured chain leads to a client for it.                               *)
FailureIsRetried ==
  \A c \in Configured :
    (faults = MaxFaults /\ \E r \in Requests : task[r] # None /\ Chain(r) = c)
      ~> clients[c] # None

-----------------------------------------------------------------------------
(* Who dials holds the lock, and has seen that there is no client.          *)
DialerHolds ==
  /\ \A r \in Requests : At(r, "dial") <=> writer = r
  /\ \A r \in Requests : At(r, "dial") => clients[Chain(r)] = None

IInv == TypeOK /\ DialerHolds /\ OneClientPerChain
=============================================================================
