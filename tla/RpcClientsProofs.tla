--------------------------- MODULE RpcClientsProofs ---------------------------
(***************************************************************************)
(* One connection per chain, for any number of requests, chains and faults. *)
(***************************************************************************)
EXTENDS RpcClients, TLAPS

LEMMA IInvInit == Init => IInv
  BY BoundAssumption, NoneAssumption
  DEF Init, IInv, TypeOK, DialerHolds, OneClientPerChain, At

(* What a request's step leaves of its task, and of everybody else's.        *)
LEMMA Ending ==
  ASSUME TypeOK, NEW r \in Requests, End(r)
  PROVE  /\ task' \in [Requests -> Task \cup {None}]
         /\ task'[r] = None
         /\ \A q \in Requests \ {r} : task'[q] = task[q]
  BY DEF End, TypeOK

LEMMA Going ==
  ASSUME TypeOK, NEW r \in Requests, task[r] # None,
         NEW s \in {"find", "lock", "dial"}, GoTo(r, s)
  PROVE  /\ task' \in [Requests -> Task \cup {None}]
         /\ task'[r] # None /\ task'[r].stage = s /\ task'[r].chain = task[r].chain
         /\ \A q \in Requests \ {r} : task'[q] = task[q]
<1>1. PICK k \in Task : k = task[r]
  BY DEF TypeOK
<1>2. [k EXCEPT !.stage = s] \in Task
  BY DEF Task
<1>3. task' = [task EXCEPT ![r] = [k EXCEPT !.stage = s]]
  BY <1>1 DEF GoTo
<1> QED
  BY <1>1, <1>2, <1>3, TaskAssumption DEF TypeOK, Task

LEMMA Chained ==
  ASSUME TypeOK, NEW r \in Requests, task[r] # None
  PROVE  Chain(r) \in Chains
  BY DEF TypeOK, Task, Chain

LEMMA IInvStep == IInv /\ [Next]_vars => IInv'
<1> SUFFICES ASSUME IInv, [Next]_vars
             PROVE  IInv'
  OBVIOUS
<1>0. TypeOK /\ DialerHolds /\ OneClientPerChain
  BY DEF IInv
<1>1. ASSUME NEW r \in Requests, NEW c \in Chains, Call(r, c)
      PROVE  IInv'
  <2>1. PICK k \in Task : k = [chain |-> c, stage |-> "find"]
    BY DEF Task
  <2>2. /\ task' = [task EXCEPT ![r] = k] /\ task[r] = None /\ k # None
        /\ k.stage # "dial"
    BY <1>1, <2>1, TaskAssumption DEF Call
  <2>3. TypeOK'
    BY <1>0, <1>1, <2>2 DEF Call, TypeOK
  <2>4. \A q \in Requests : At(q, "dial")' <=> At(q, "dial")
    BY <1>0, <2>2 DEF At, TypeOK
  <2>5. \A q \in Requests : At(q, "dial") => Chain(q)' = Chain(q)
    BY <1>0, <2>2 DEF At, TypeOK, Chain
  <2>6. DialerHolds'
    BY <1>0, <1>1, <2>4, <2>5 DEF DialerHolds, Call
  <2> QED
    BY <1>0, <1>1, <2>3, <2>6 DEF IInv, Call, OneClientPerChain
<1>2. ASSUME NEW r \in Requests, Find(r) \/ FindAgain(r) \/ Unsupported(r)
      PROVE  IInv'
  <2>1. task[r] # None /\ writer = None /\ writer' = None /\ ~At(r, "dial")
    BY <1>2 DEF Find, FindAgain, Unsupported, At
  <2>2. UNCHANGED <<clients, faults, dialed>>
    BY <1>2 DEF Find, FindAgain, Unsupported
  <2>3. End(r) \/ GoTo(r, "lock")
    BY <1>2 DEF Find, FindAgain, Unsupported, Return
  <2>4. /\ task' \in [Requests -> Task \cup {None}]
        /\ \A q \in Requests \ {r} : task'[q] = task[q]
        /\ task'[r] # None => task'[r].stage = "lock"
    BY <1>0, <2>1, <2>3, Ending, Going
  <2>5. \/ handed' = handed
        \/ /\ clients[Chain(r)] # None
           /\ handed' = handed \cup {[chain |-> Chain(r), client |-> clients[Chain(r)]]}
    BY <1>2 DEF Find, FindAgain, Unsupported, Return, CheckedAgain
  <2>6. handed' \in SUBSET Handed /\ \A h \in handed' : clients[h.chain] = h.client
    BY <1>0, <2>1, <2>5, Chained DEF TypeOK, Handed, OneClientPerChain
  <2>7. TypeOK'
    BY <1>0, <2>1, <2>2, <2>4, <2>6 DEF TypeOK
  <2>8. \A q \in Requests : ~At(q, "dial")
    BY <1>0, <2>1, NoneAssumption DEF DialerHolds
  <2>9. \A q \in Requests : ~At(q, "dial")'
    BY <2>4, <2>8 DEF At
  <2>10. DialerHolds'
    BY <2>1, <2>9, NoneAssumption DEF DialerHolds
  <2> QED
    BY <1>0, <2>2, <2>6, <2>7, <2>10 DEF IInv, OneClientPerChain
<1>3. ASSUME NEW r \in Requests, StartDial(r)
      PROVE  IInv'
  <2>1. task[r] # None /\ writer = None /\ writer' = r /\ clients[Chain(r)] = None
    BY <1>3 DEF StartDial, At, CheckedAgain
  <2>2. /\ task' \in [Requests -> Task \cup {None}]
        /\ task'[r] # None /\ task'[r].stage = "dial" /\ task'[r].chain = task[r].chain
        /\ \A q \in Requests \ {r} : task'[q] = task[q]
    BY <1>0, <1>3, <2>1, Going DEF StartDial
  <2>3. TypeOK'
    BY <1>0, <1>3, <2>1, <2>2 DEF StartDial, TypeOK
  <2>4. \A q \in Requests : ~At(q, "dial")
    BY <1>0, <2>1, NoneAssumption DEF DialerHolds
  <2>5. \A q \in Requests : At(q, "dial")' <=> q = r
    BY <2>2, <2>4 DEF At
  <2>6. clients'[Chain(r)'] = None
    BY <1>3, <2>1, <2>2 DEF StartDial, Chain
  <2>7. DialerHolds'
    BY <2>1, <2>5, <2>6 DEF DialerHolds
  <2> QED
    BY <1>0, <1>3, <2>3, <2>7 DEF IInv, StartDial, OneClientPerChain
<1>4. ASSUME NEW r \in Requests, NEW n \in Clients, DialOk(r, n)
      PROVE  IInv'
  <2>1. /\ task[r] # None /\ writer = r /\ writer' = None /\ n \notin dialed
        /\ clients[Chain(r)] = None
    BY <1>0, <1>4 DEF DialOk, At, DialerHolds
  <2>2. PICK c \in Chains : c = Chain(r)
    BY <1>0, <2>1, Chained
  <2>3. /\ clients' = [clients EXCEPT ![c] = n] /\ dialed' = dialed \cup {n}
        /\ handed' = handed \cup {[chain |-> c, client |-> n]} /\ faults' = faults
    BY <1>4, <2>2 DEF DialOk, Return
  <2>4. /\ task' \in [Requests -> Task \cup {None}]
        /\ task'[r] = None
        /\ \A q \in Requests \ {r} : task'[q] = task[q]
    BY <1>0, <1>4, Ending DEF DialOk, Return
  <2>5. TypeOK'
    BY <1>0, <2>1, <2>3, <2>4 DEF TypeOK, Handed
  <2>6. \A q \in Requests : ~At(q, "dial")'
    BY <1>0, <2>1, <2>4 DEF At, DialerHolds
  <2>7. DialerHolds'
    BY <2>1, <2>6, NoneAssumption DEF DialerHolds
  <2>8. \A h \in handed' : clients'[h.chain] = h.client
    <3>1. ASSUME NEW h \in handed
          PROVE  h.chain # c /\ h.chain \in Chains
      BY <1>0, <2>1, <2>2, NoneAssumption DEF OneClientPerChain, TypeOK, Handed
    <3> QED
      BY <1>0, <2>3, <3>1 DEF OneClientPerChain, TypeOK
  <2>9. \A m \in dialed' : \E d \in Chains : clients'[d] = m
    <3>1. ASSUME NEW m \in dialed
          PROVE  \E d \in Chains : clients'[d] = m
      <4>1. PICK d \in Chains : clients[d] = m
        BY <1>0 DEF OneClientPerChain
      <4>2. d # c
        BY <1>0, <2>1, <2>2, <4>1, NoneAssumption DEF TypeOK
      <4> QED
        BY <1>0, <2>3, <4>1, <4>2 DEF TypeOK
    <3> QED
      BY <1>0, <2>3, <3>1 DEF TypeOK
  <2> QED
    BY <2>5, <2>7, <2>8, <2>9 DEF IInv, OneClientPerChain
<1>5. ASSUME NEW r \in Requests, DialFails(r)
      PROVE  IInv'
  <2>1. writer = r /\ writer' = None
    BY <1>0, <1>5 DEF DialFails, DialerHolds, Unlocked
  <2>2. faults' \in 0 .. MaxFaults
    BY <1>0, <1>5, BoundAssumption DEF DialFails, TypeOK
  <2>3. /\ task' \in [Requests -> Task \cup {None}]
        /\ task'[r] = None
        /\ \A q \in Requests \ {r} : task'[q] = task[q]
    BY <1>0, <1>5, Ending DEF DialFails
  <2>4. TypeOK'
    BY <1>0, <1>5, <2>1, <2>2, <2>3 DEF DialFails, TypeOK
  <2>5. \A q \in Requests : ~At(q, "dial")'
    BY <1>0, <2>1, <2>3 DEF At, DialerHolds
  <2>6. DialerHolds'
    BY <2>1, <2>5, NoneAssumption DEF DialerHolds
  <2> QED
    BY <1>0, <1>5, <2>4, <2>6 DEF IInv, DialFails, OneClientPerChain
<1>6. CASE UNCHANGED vars
  BY <1>0, <1>6 DEF vars, IInv, TypeOK, DialerHolds, OneClientPerChain, At, Chain
<1> QED
  BY <1>1, <1>2, <1>3, <1>4, <1>5, <1>6 DEF Next, Step

(* IInv holds of every reachable state.                                     *)
THEOREM Inductive == Spec => []IInv
  BY IInvInit, IInvStep, PTL DEF Spec

(* Every request for a chain gets the one connection that was ever opened    *)
(* for it, and no connection is opened and forgotten (RPCService.Client).    *)
THEOREM OneConnection == Spec => []OneClientPerChain
<1>1. IInv => OneClientPerChain
  BY DEF IInv
<1> QED
  BY <1>1, Inductive, PTL
=============================================================================
