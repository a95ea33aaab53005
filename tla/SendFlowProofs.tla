--------------------------- MODULE SendFlowProofs ---------------------------
(***************************************************************************)
(* The properties of SendFlow, proved for any accounts, contacts, chains,    *)
(* bridges, tabs, sends and windows.                                        *)
(***************************************************************************)
EXTENDS SendFlow, TLAPS

-----------------------------------------------------------------------------
(* Types                                                                    *)

LEMMA FlowFields ==
  ASSUME TypeOK, NEW s \in Sends
  PROVE  /\ flow[s] \in Flow
         /\ flow[s].at \in {"idle", "done", "failed"} \cup Active
         /\ flow[s].page \in Pages \cup {None} /\ flow[s].chain \in Chains \cup {None}
         /\ flow[s].to \in Recipients \cup {None} /\ flow[s].network \in Networks \cup {None}
         /\ flow[s].signer \in Accounts \cup {None} /\ flow[s].token \in TokenIds \cup {None}
<1>1. flow[s] \in Flow
  BY DEF TypeOK
<1> HIDE DEF Active
<1> QED
  BY <1>1 DEF Flow

LEMMA TxFields ==
  ASSUME TypeOK, NEW s \in Sends, NEW k \in Kinds
  PROVE  /\ tx[s] \in [Kinds -> Tx] /\ tx[s][k] \in Tx
         /\ tx[s][k].status \in {"unsent", "pending", "ok", "reverted"}
         /\ tx[s][k].chain \in Chains \cup {None} /\ tx[s][k].id \in TokenIds \cup {None}
<1>1. tx[s] \in [Kinds -> Tx]
  BY DEF TypeOK
<1>2. tx[s][k] \in Tx
  BY <1>1
<1> QED
  BY <1>1, <1>2 DEF Tx

LEMMA LockFields ==
  ASSUME TypeOK, NEW l \in locks
  PROVE  /\ l \in Lock /\ l.by \in Sends /\ l.chain \in Chains /\ l.block \in Nat
         /\ l.bridge \in Bridges /\ l.id \in TokenIds /\ l.sender \in Accounts
         /\ l.to \in Recipients /\ l.doc \in Sends
<1>1. l \in Lock
  BY DEF TypeOK
<1> QED
  BY <1>1 DEF Lock

LEMMA TokenFields ==
  ASSUME TypeOK, NEW c \in NftChains, NEW i \in TokenIds, token[c][i] # None
  PROVE  /\ token[c][i] \in Token /\ token[c][i].doc \in Sends
         /\ token[c][i].owner \in Accounts \cup Bridges
<1>1. token[c][i] \in Token
  BY DEF TypeOK
<1> QED
  BY <1>1 DEF Token

(* What changing one flow, transaction or token does to the others.         *)
LEMMA FlowEffect ==
  ASSUME TypeOK, NEW s \in Sends, NEW f \in Flow, SetFlow(s, f)
  PROVE  /\ flow' \in [Sends -> Flow]
         /\ \A o \in Sends : flow'[o] = IF o = s THEN f ELSE flow[o]
  BY DEF TypeOK, SetFlow

LEMMA TxEffect ==
  ASSUME TypeOK, NEW s \in Sends, NEW k \in Kinds, NEW t \in Tx, SetTx(s, k, t)
  PROVE  /\ tx' \in [Sends -> [Kinds -> Tx]]
         /\ \A o \in Sends : o # s => tx'[o] = tx[o]
         /\ tx'[s] = [tx[s] EXCEPT ![k] = t]
         /\ \A o \in Sends, j \in Kinds :
              tx'[o][j] = IF o = s /\ j = k THEN t ELSE tx[o][j]
<1> HIDE DEF Kinds, Tx
<1>1. tx \in [Sends -> [Kinds -> Tx]] /\ tx' = [tx EXCEPT ![s] = [tx[s] EXCEPT ![k] = t]]
  BY DEF TypeOK, SetTx
<1>2. tx[s] \in [Kinds -> Tx] /\ [tx[s] EXCEPT ![k] = t] \in [Kinds -> Tx]
  BY <1>1
<1>3. /\ tx' \in [Sends -> [Kinds -> Tx]]
      /\ \A o \in Sends : o # s => tx'[o] = tx[o]
      /\ tx'[s] = [tx[s] EXCEPT ![k] = t]
  BY <1>1, <1>2
<1> QED
  BY <1>2, <1>3

LEMMA TokenEffect ==
  ASSUME TypeOK, NEW c \in NftChains, NEW i \in TokenIds, NEW t \in Token, SetToken(c, i, t)
  PROVE  /\ token' \in [NftChains -> [TokenIds -> Token \cup {None}]]
         /\ \A d \in NftChains, j \in TokenIds :
              token'[d][j] = IF d = c /\ j = i THEN t ELSE token[d][j]
<1> HIDE DEF Token
<1> DEFINE T == [TokenIds -> Token \cup {None}]
<1>1. token \in [NftChains -> T] /\ token' = [token EXCEPT ![c] = [token[c] EXCEPT ![i] = t]]
  BY DEF TypeOK, SetToken
<1>2. token[c] \in T /\ [token[c] EXCEPT ![i] = t] \in T
  BY <1>1
<1>3. /\ token' \in [NftChains -> T]
      /\ \A d \in NftChains : token'[d] = IF d = c THEN [token[c] EXCEPT ![i] = t] ELSE token[d]
  BY <1>1, <1>2
<1> QED
  BY <1>2, <1>3

LEMMA ScanEffect ==
  ASSUME TypeOK, NEW q \in Scans, NEW r \in Scan, SetScan(q, r)
  PROVE  /\ scan' \in [Scans -> Scan]
         /\ \A o \in Scans : scan'[o] = IF o = q THEN r ELSE scan[o]
  BY DEF TypeOK, SetScan

-----------------------------------------------------------------------------
(* The kinds of steps                                                       *)

(* A step of doSendFlow that sends nothing.                                  *)
SameTerms(f, g) == f.to = g.to /\ f.network = g.network /\ f.signer = g.signer
FlowMove(s, f) ==
  /\ f \in Flow /\ SetFlow(s, f) /\ InOrder(f, tx[s])
  /\ (\E k \in Kinds : Sent(tx[s], k)) => SameTerms(f, flow[s])
  /\ UNCHANGED <<tx, token, head, locks, scan>>

LEMMA SendMoves ==
  ASSUME TypeOK, FlowsInOrder, NEW s \in Sends, NEW p \in Pages, NEW r \in Recipients,
         NEW n \in Networks, Send(s, p, r, n)
  PROVE  \E f \in Flow : FlowMove(s, f)
<1> DEFINE f == [at |-> "sent", page |-> p, chain |-> session.chain, to |-> r,
                 network |-> n, signer |-> None, token |-> None]
<1>1. session.chain \in Chains
  BY DEF Send, TypeOK, Login
<1>2. f \in Flow
  <2>1. "sent" \in {"idle", "done", "failed"} \cup Active
    BY DEF Active
  <2> HIDE DEF Active
  <2> QED
    BY <1>1, <2>1 DEF Flow
<1>3. \A k \in Kinds : ~Sent(tx[s], k)
  BY DEF Send, FlowsInOrder, InOrder, Kinds
<1>4. InOrder(f, tx[s])
  BY <1>1, <1>3 DEF InOrder, Complete, Kinds
<1> QED
  BY <1>2, <1>3, <1>4 DEF Send, FlowMove

LEMMA ConnectMoves ==
  ASSUME TypeOK, FlowsInOrder, NEW s \in Sends, Connect(s)
  PROVE  \E f \in Flow : FlowMove(s, f)
<1> DEFINE f == [flow[s] EXCEPT !.at = "mint", !.signer = wallet.account]
<1>1. wallet.account \in Accounts
  BY DEF TypeOK, Login
<1>2. f \in Flow
  BY <1>1, FlowFields DEF Flow, Active, Kinds
<1>3. flow[s].at = "sent" /\ InOrder(flow[s], tx[s])
  BY DEF Connect, FlowsInOrder
<1>4. \A k \in Kinds : ~Sent(tx[s], k)
  BY <1>3 DEF InOrder, Kinds
<1>5. flow[s] \in Flow
  BY FlowFields
<1>6. InOrder(f, tx[s])
  BY <1>1, <1>3, <1>4, <1>5 DEF InOrder, Signed, Complete, Kinds, Flow
<1> QED
  BY <1>2, <1>4, <1>6 DEF Connect, FlowMove

LEMMA ContinueMoves ==
  ASSUME TypeOK, FlowsInOrder, MintedToken, NEW s \in Sends, NEW k \in Kinds, Continue(s, k)
  PROVE  \E f \in Flow : FlowMove(s, f)
<1> DEFINE f == [flow[s] EXCEPT !.at = After[k], !.page = IF k = "transfer" THEN None ELSE @,
                               !.token = IF k = "mint" THEN tx[s][k].id ELSE @]
<1>1. /\ flow[s] \in Flow /\ flow[s].at = k /\ InOrder(flow[s], tx[s])
      /\ tx[s][k].status = "ok" /\ (k = "mint" => tx[s][k].id # None)
  BY FlowFields DEF Continue, Confirmed, FlowsInOrder
<1>2. tx[s][k].id \in TokenIds \cup {None}
  BY TxFields
<1>3. f \in Flow
  <2> DEFINE pg == IF k = "transfer" THEN None ELSE flow[s].page
             tk == IF k = "mint" THEN tx[s][k].id ELSE flow[s].token
  <2>1. After[k] \in {"idle", "done", "failed"} \cup Active
    BY DEF After, Kinds, Active
  <2>2. pg \in Pages \cup {None} /\ tk \in TokenIds \cup {None}
    BY <1>2, FlowFields
  <2>3. f = [flow[s] EXCEPT !.at = After[k], !.page = pg, !.token = tk]
    OBVIOUS
  <2> HIDE DEF f, pg, tk, Active, After
  <2> QED
    BY <1>1, <2>1, <2>2, <2>3 DEF Flow
<1>4. SameTerms(f, flow[s])
  BY <1>1 DEF SameTerms, Flow
<1>5. InOrder(f, tx[s])
  <2>1. CASE k = "mint"
    BY <1>1, <2>1 DEF InOrder, Minted, Signed, Complete, Kinds, Flow, After, Sent
  <2>2. CASE k = "approve"
    BY <1>1, <2>2 DEF InOrder, Minted, Signed, Complete, Kinds, Flow, After, Sent
  <2>3. CASE k = "transfer"
    BY <1>1, <2>3 DEF InOrder, Minted, Signed, Complete, Kinds, Flow, After, Sent
  <2> QED
    BY <2>1, <2>2, <2>3 DEF Kinds
<1> QED
  BY <1>3, <1>4, <1>5 DEF Continue, FlowMove

LEMMA EndMoves ==
  ASSUME TypeOK, FlowsInOrder, NEW s \in Sends, flow[s].at \in Active,
         SetFlow(s, [flow[s] EXCEPT !.at = "failed", !.page = None]),
         UNCHANGED <<tx, token, head, locks, scan>>
  PROVE  \E f \in Flow : FlowMove(s, f)
<1> DEFINE f == [flow[s] EXCEPT !.at = "failed", !.page = None]
<1>1. flow[s] \in Flow /\ InOrder(flow[s], tx[s])
  BY FlowFields DEF FlowsInOrder
<1>2. f \in Flow
  BY <1>1 DEF Flow
<1>3. SameTerms(f, flow[s])
  BY <1>1 DEF SameTerms, Flow
<1>4. InOrder(f, tx[s])
  BY <1>1 DEF InOrder, Signed, Complete, Kinds, Flow, Active
<1> QED
  BY <1>2, <1>3, <1>4 DEF FlowMove

(* A transaction that is mined without an effect on tokens.                  *)
StatusMove(s, k, how) ==
  /\ Pending(s, k) /\ how \in {"ok", "reverted"} /\ Settle(s, k, how)
  /\ how = "ok" => NoContract(s, k)
  /\ UNCHANGED <<flow, token, head, locks, scan>>
StillMove == UNCHANGED <<flow, tx, token, head, locks, scan>>

(* Every step of the model is of one of these kinds.                         *)
LEMMA StepKinds ==
  ASSUME TypeOK, FlowsInOrder, MintedToken, [Next]_vars
  PROVE  \/ StillMove
         \/ \E s \in Sends : \E f \in Flow : FlowMove(s, f)
         \/ \E s \in Sends, k \in Kinds : Sign(s, k)
         \/ \E s \in Sends : Mint(s) \/ Approve(s) \/ Transfer(s)
         \/ \E s \in Sends, k \in Kinds : \E how \in {"ok", "reverted"} : StatusMove(s, k, how)
         \/ \E c \in Chains : NewBlock(c)
         \/ \E q \in Scans : ScanStep(q)
<1>1. CASE UNCHANGED vars
  BY <1>1 DEF vars, StillMove
<1>2. CASE UserStep
  BY <1>2 DEF UserStep, SignIn, SignOut, Select, StillMove
<1>3. CASE \E s \in Sends : PageStep(s)
  <2> PICK s \in Sends : PageStep(s)
    BY <1>3
  <2>1. CASE \E p \in Pages, r \in Recipients, n \in Networks : Send(s, p, r, n)
    BY <2>1, SendMoves
  <2>2. CASE Connect(s)
    BY <2>2, ConnectMoves
  <2>3. CASE \E k \in Kinds : Sign(s, k)
    BY <2>3
  <2>4. CASE \E k \in Kinds : Continue(s, k)
    BY <2>4, ContinueMoves
  <2>5. CASE \E k \in Kinds : Throw(s, k)
    BY <2>5, EndMoves DEF Throw, Active
  <2>6. CASE GiveUp(s)
    BY <2>6, EndMoves DEF GiveUp
  <2> QED
    BY <2>1, <2>2, <2>3, <2>4, <2>5, <2>6 DEF PageStep
<1>4. CASE \E s \in Sends : ChainStep(s)
  <2> PICK s \in Sends : ChainStep(s)
    BY <1>4
  <2>1. CASE Mint(s) \/ Approve(s) \/ Transfer(s)
    BY <2>1
  <2>2. CASE \E k \in Kinds : Nothing(s, k)
    BY <2>2 DEF Nothing, StatusMove
  <2>3. CASE \E k \in Kinds : Refused(s, k) \/ Revert(s, k)
    BY <2>3 DEF Refused, Revert, StatusMove
  <2> QED
    BY <2>1, <2>2, <2>3 DEF ChainStep
<1> QED
  BY <1>1, <1>2, <1>3, <1>4 DEF Next

-----------------------------------------------------------------------------
(* Types are kept                                                           *)

LEMMA TypeInit == Init => TypeOK
<1> SUFFICES ASSUME Init PROVE TypeOK
  OBVIOUS
<1>1. NoFlow \in Flow
  <2>1. "idle" \in {"idle", "done", "failed"} \cup Active
    OBVIOUS
  <2> HIDE DEF Active
  <2> QED
    BY <2>1 DEF NoFlow, Flow
<1>2. NoTx \in Tx
  BY DEF NoTx, Tx
<1>3. NoScan \in Scan
  BY DEF NoScan, Scan
<1> HIDE DEF Flow, Tx, Scan, NoFlow, NoTx, NoScan
<1> QED
  BY <1>1, <1>2, <1>3, BoundAssumption DEF Init, TypeOK

LEMMA UserTypes ==
  ASSUME TypeOK, FlowsInOrder, [Next]_vars
  PROVE  /\ acts' \in 0 .. MaxActs /\ faults' \in 0 .. MaxFaults
         /\ session' \in Login \cup {None} /\ wallet' \in Login
<1>0. /\ acts \in 0 .. MaxActs /\ faults \in 0 .. MaxFaults
      /\ session \in Login \cup {None} /\ wallet \in Login
      /\ MaxActs \in Nat /\ MaxFaults \in Nat
  BY BoundAssumption DEF TypeOK
<1>1. (acts' = acts \/ Act) => acts' \in 0 .. MaxActs
  BY <1>0 DEF Act
<1>2. (faults' = faults \/ Fault) => faults' \in 0 .. MaxFaults
  BY <1>0 DEF Fault
<1>3. CASE UNCHANGED vars
  BY <1>0, <1>3 DEF vars
<1>4. CASE UserStep
  BY <1>0, <1>1, <1>2, <1>4 DEF UserStep, SignIn, SignOut, Select, Login
<1>5. CASE \E s \in Sends : PageStep(s)
  <2> PICK s \in Sends : PageStep(s)
    BY <1>5
  <2>1. CASE Connect(s)
    <3>1. flow[s].chain \in Chains
      BY <2>1 DEF Connect, FlowsInOrder, InOrder, Complete
    <3> QED
      BY <1>0, <2>1, <3>1 DEF Connect, Login
  <2>2. CASE GiveUp(s)
    BY <1>0, <1>2, <2>2 DEF GiveUp
  <2>3. CASE \/ \E p \in Pages, r \in Recipients, n \in Networks : Send(s, p, r, n)
             \/ \E k \in Kinds : Sign(s, k) \/ Continue(s, k) \/ Throw(s, k)
    BY <1>0, <2>3 DEF Send, Sign, Continue, Throw
  <2> QED
    BY <2>1, <2>2, <2>3 DEF PageStep
<1>6. CASE \E s \in Sends : ChainStep(s)
  <2> PICK s \in Sends : ChainStep(s)
    BY <1>6
  <2>1. CASE Mint(s) \/ Approve(s) \/ Transfer(s)
    BY <1>0, <2>1 DEF Mint, Approve, Transfer
  <2>2. CASE \E k \in Kinds : Nothing(s, k) \/ Refused(s, k) \/ Revert(s, k)
    BY <1>0, <1>2, <2>2 DEF Nothing, Refused, Revert
  <2> QED
    BY <2>1, <2>2 DEF ChainStep
<1>7. CASE \E c \in Chains : NewBlock(c)
  BY <1>0, <1>7 DEF NewBlock
<1>8. CASE \E q \in Scans : ScanStep(q)
  BY <1>0, <1>2, <1>8 DEF ScanStep, StartScan, AnswerScan, FailScan
<1> QED
  BY <1>3, <1>4, <1>5, <1>6, <1>7, <1>8 DEF Next

(* What is known of a transaction that was sent.                             *)
LEMMA SentFacts ==
  ASSUME TypeOK, FlowsInOrder, NEW s \in Sends, NEW k \in Kinds, Sent(tx[s], k)
  PROVE  /\ flow[s].signer \in Accounts /\ flow[s].to \in Recipients
         /\ BridgeOf(s) \in Bridges /\ Home(s) \in Chains /\ tx[s][k].chain \in Chains
         /\ k # "mint" => /\ tx[s][k].id \in TokenIds
                          /\ tx[s]["mint"].status = "ok" /\ tx[s]["mint"].id = tx[s][k].id
<1>1. InOrder(flow[s], tx[s])
  BY DEF FlowsInOrder
<1>2. Signed(flow[s]) /\ tx[s][k].chain \in Chains
  BY <1>1 DEF InOrder
<1>3. k # "mint" => Minted(tx[s]) /\ tx[s][k].id = tx[s]["mint"].id
  BY <1>1 DEF InOrder, Kinds
<1>4. tx[s]["mint"].id \in TokenIds \cup {None}
  BY TxFields DEF Kinds
<1> QED
  BY <1>2, <1>3, <1>4, ConfigAssumption DEF Signed, Complete, Minted, BridgeOf, Home

(* The effects of a step on transactions and tokens, point by point.         *)
NewTx(s, k, t) ==
  /\ t \in Tx /\ tx' \in [Sends -> [Kinds -> Tx]]
  /\ \A o \in Sends : o # s => tx'[o] = tx[o]
  /\ tx'[s] = [tx[s] EXCEPT ![k] = t]
  /\ \A o \in Sends, j \in Kinds : tx'[o][j] = IF o = s /\ j = k THEN t ELSE tx[o][j]
NewToken(c, i, t) ==
  /\ t \in Token /\ token' \in [NftChains -> [TokenIds -> Token \cup {None}]]
  /\ \A d \in NftChains, j \in TokenIds :
       token'[d][j] = IF d = c /\ j = i THEN t ELSE token[d][j]

LEMMA SignEffect ==
  ASSUME TypeOK, FlowsInOrder, NEW s \in Sends, NEW k \in Kinds, Sign(s, k)
  PROVE  \E t \in Tx : /\ NewTx(s, k, t) /\ t.status = "pending" /\ t.chain \in Chains
                       /\ t.id = IF k = "mint" THEN None ELSE flow[s].token
                       /\ flow[s].at = k
                       /\ UNCHANGED <<flow, token, head, locks, scan>>
<1> DEFINE t == [status |-> "pending", chain |-> wallet.chain,
                 id |-> IF k = "mint" THEN None ELSE flow[s].token]
<1>1. wallet.chain \in Chains /\ flow[s].token \in TokenIds \cup {None}
  BY FlowFields DEF TypeOK, Login
<1>2. t \in Tx
  BY <1>1 DEF Tx
<1>3. SetTx(s, k, t)
  BY DEF Sign, TokenSent
<1>4. NewTx(s, k, t)
  <2> HIDE DEF t
  <2> QED
    BY <1>2, <1>3, TxEffect DEF NewTx
<1> QED
  BY <1>1, <1>2, <1>4 DEF Sign

LEMMA StatusEffect ==
  ASSUME TypeOK, NEW s \in Sends, NEW k \in Kinds, NEW how, StatusMove(s, k, how)
  PROVE  \E t \in Tx : /\ NewTx(s, k, t) /\ t.status = how
                       /\ t.chain = tx[s][k].chain /\ t.id = tx[s][k].id
<1> DEFINE t == [tx[s][k] EXCEPT !.status = how]
<1>1. t \in Tx /\ t.status = how /\ t.chain = tx[s][k].chain /\ t.id = tx[s][k].id
  BY TxFields DEF Tx, StatusMove
<1>2. SetTx(s, k, t)
  BY DEF StatusMove, Settle
<1> HIDE DEF t
<1>3. NewTx(s, k, t)
  BY <1>1, <1>2, TxEffect DEF NewTx
<1> QED
  BY <1>1, <1>3

LEMMA MintEffect ==
  ASSUME TypeOK, FlowsInOrder, NEW s \in Sends, Mint(s)
  PROVE  \E c \in NftChains, i \in TokenIds, t \in Tx, k \in Token :
           /\ c = tx[s]["mint"].chain /\ token[c][i] = None /\ tx[s]["mint"].status = "pending"
           /\ NewTx(s, "mint", t) /\ t.status = "ok" /\ t.chain = c /\ t.id = i
           /\ NewToken(c, i, k) /\ k.doc = s
           /\ UNCHANGED <<flow, head, locks, scan>>
<1> DEFINE c == tx[s]["mint"].chain
           k == [doc |-> s, owner |-> flow[s].signer, approved |-> None]
<1>1. /\ c \in NftChains /\ tx[s]["mint"].status = "pending"
      /\ UNCHANGED <<flow, head, locks, scan>>
  BY DEF Mint, Pending
<1>2. PICK i \in TokenIds :
        /\ token[c][i] = None /\ SetToken(c, i, k)
        /\ SetTx(s, "mint", [tx[s]["mint"] EXCEPT !.status = "ok", !.id = i])
  BY DEF Mint
<1> DEFINE t == [tx[s]["mint"] EXCEPT !.status = "ok", !.id = i]
<1>3. "mint" \in Kinds
  BY DEF Kinds
<1>4. flow[s].signer \in Accounts
  BY <1>1, <1>3, SentFacts DEF Sent
<1>5. k \in Token
  BY <1>4 DEF Token
<1>6. t \in Tx /\ t.status = "ok" /\ t.chain = c /\ t.id = i
  <2>1. tx[s]["mint"] \in Tx
    BY <1>3, TxFields
  <2> QED
    BY <2>1 DEF Tx
<1>7. k.doc = s
  OBVIOUS
<1> HIDE DEF c, k, t
<1>8. NewTx(s, "mint", t)
  BY <1>2, <1>3, <1>6, TxEffect DEF NewTx, t
<1>9. NewToken(c, i, k)
  BY <1>1, <1>2, <1>5, TokenEffect DEF NewToken
<1>10. c = tx[s]["mint"].chain
  BY DEF c
<1> QED
  BY <1>1, <1>2, <1>5, <1>6, <1>7, <1>8, <1>9, <1>10

LEMMA ApproveEffect ==
  ASSUME TypeOK, FlowsInOrder, NEW s \in Sends, Approve(s)
  PROVE  \E c \in NftChains, i \in TokenIds, t \in Tx, k \in Token :
           /\ token[c][i] # None /\ NewToken(c, i, k)
           /\ k.doc = token[c][i].doc /\ k.owner = token[c][i].owner
           /\ token[c][i].owner = flow[s].signer
           /\ tx[s]["approve"].status = "pending" /\ NewTx(s, "approve", t) /\ t.status = "ok"
           /\ t.chain = tx[s]["approve"].chain /\ t.id = tx[s]["approve"].id
           /\ UNCHANGED <<flow, head, locks, scan>>
<1> DEFINE c == tx[s]["approve"].chain
           i == tx[s]["approve"].id
           k == [token[c][i] EXCEPT !.approved = BridgeOf(s)]
           t == [tx[s]["approve"] EXCEPT !.status = "ok"]
<1>1. /\ c \in NftChains /\ tx[s]["approve"].status = "pending"
      /\ token[c][i] # None /\ token[c][i].owner = flow[s].signer
      /\ SetToken(c, i, k) /\ SetTx(s, "approve", t) /\ UNCHANGED <<flow, head, locks, scan>>
  BY DEF Approve, Pending, MayApprove, Holds, Settle
<1>2. "approve" \in Kinds /\ "approve" # "mint"
  BY DEF Kinds
<1>3. i \in TokenIds /\ BridgeOf(s) \in Bridges
  BY <1>1, <1>2, SentFacts DEF Sent
<1>4. token[c][i] \in Token
  BY <1>1, <1>3, TokenFields
<1>5. k \in Token /\ k.doc = token[c][i].doc /\ k.owner = token[c][i].owner
  BY <1>3, <1>4 DEF Token
<1>6. t \in Tx /\ t.status = "ok" /\ t.chain = c /\ t.id = i
  <2>1. tx[s]["approve"] \in Tx
    BY <1>2, TxFields
  <2> QED
    BY <2>1 DEF Tx
<1>7. c = tx[s]["approve"].chain /\ i = tx[s]["approve"].id
  OBVIOUS
<1> HIDE DEF c, i, k, t
<1>8. NewTx(s, "approve", t)
  BY <1>1, <1>2, <1>6, TxEffect DEF NewTx
<1>9. NewToken(c, i, k)
  BY <1>1, <1>3, <1>5, TokenEffect DEF NewToken
<1> QED
  BY <1>1, <1>3, <1>5, <1>6, <1>7, <1>8, <1>9

LEMMA TransferEffect ==
  ASSUME TypeOK, FlowsInOrder, NEW s \in Sends, Transfer(s)
  PROVE  \E c \in NftChains, i \in TokenIds, t \in Tx, k \in Token, l \in Lock :
           /\ c = tx[s]["transfer"].chain /\ i = tx[s]["transfer"].id
           /\ token[c][i] # None /\ token[c][i].owner = flow[s].signer
           /\ NewToken(c, i, k) /\ k.doc = token[c][i].doc /\ k.owner = BridgeOf(s)
           /\ tx[s]["transfer"].status = "pending" /\ NewTx(s, "transfer", t)
           /\ t.status = "ok" /\ t.chain = c /\ t.id = i
           /\ locks' = locks \cup {l} /\ l.by = s /\ l.chain = c /\ l.id = i
           /\ l.bridge = BridgeOf(s) /\ c = Home(s) /\ l.sender = flow[s].signer
           /\ l.to = flow[s].to /\ l.doc = k.doc /\ l.block = head[c] + 1
           /\ head' = [head EXCEPT ![c] = @ + 1]
           /\ UNCHANGED <<flow, scan>>
<1> DEFINE c == tx[s]["transfer"].chain
           i == tx[s]["transfer"].id
           k == [token[c][i] EXCEPT !.owner = BridgeOf(s), !.approved = None]
           t == [tx[s]["transfer"] EXCEPT !.status = "ok"]
           l == LockBy(s, c, i)
<1>1. /\ c \in NftChains /\ tx[s]["transfer"].status = "pending" /\ c = Home(s)
      /\ token[c][i] # None /\ token[c][i].owner = flow[s].signer
      /\ SetToken(c, i, k) /\ SetTx(s, "transfer", t) /\ locks' = locks \cup {l}
      /\ head' = [head EXCEPT ![c] = @ + 1] /\ UNCHANGED <<flow, scan>>
  BY DEF Transfer, Pending, MayTransfer, Holds, Settle, Home
<1>2. "transfer" \in Kinds /\ "transfer" # "mint"
  BY DEF Kinds
<1>3. /\ i \in TokenIds /\ BridgeOf(s) \in Bridges /\ c \in Chains
      /\ flow[s].signer \in Accounts /\ flow[s].to \in Recipients
  BY <1>1, <1>2, SentFacts DEF Sent
<1>4. token[c][i] \in Token /\ token[c][i].doc \in Sends
  BY <1>1, <1>3, TokenFields
<1>5. k \in Token /\ k.doc = token[c][i].doc /\ k.owner = BridgeOf(s)
  BY <1>3, <1>4 DEF Token
<1>6. t \in Tx /\ t.status = "ok" /\ t.chain = c /\ t.id = i
  <2>1. tx[s]["transfer"] \in Tx
    BY <1>2, TxFields
  <2> QED
    BY <2>1 DEF Tx
<1>7. head[c] + 1 \in Nat
  BY <1>3 DEF TypeOK
<1>8. /\ l \in Lock /\ l.by = s /\ l.chain = c /\ l.id = i /\ l.bridge = BridgeOf(s)
      /\ l.sender = flow[s].signer /\ l.to = flow[s].to /\ l.doc = token[c][i].doc
      /\ l.block = head[c] + 1
  BY <1>3, <1>4, <1>7 DEF LockBy, Lock
<1>9. c = tx[s]["transfer"].chain /\ i = tx[s]["transfer"].id
  OBVIOUS
<1> HIDE DEF c, i, k, t, l
<1>10. NewTx(s, "transfer", t)
  BY <1>1, <1>2, <1>6, TxEffect DEF NewTx
<1>11. NewToken(c, i, k)
  BY <1>1, <1>3, <1>5, TokenEffect DEF NewToken
<1> QED
  BY <1>1, <1>3, <1>5, <1>6, <1>8, <1>9, <1>10, <1>11

(* What the three steps of a request to /scan/contact make of it.            *)
LEMMA ScanStepEffect ==
  ASSUME TypeOK, ScanExact, NEW q \in Scans, ScanStep(q)
  PROVE  \E r \in Scan :
           /\ SetScan(q, r) /\ UNCHANGED <<flow, tx, token, head, locks>>
           /\ r.network \in Networks /\ r.latest <= head[RpcByNetwork[r.network]]
           /\ r.at # "answered" => r.items = {}
           /\ r.at = "answered" =>
                /\ r.items = {l \in locks : Found(q, l)} \ r.lost
                /\ r.account = scan[q].account /\ r.contact = scan[q].contact
                /\ r.network = scan[q].network /\ r.latest = scan[q].latest
<1>1. CASE \E r \in Recipients, n \in Networks : StartScan(q, r, n)
  <2> PICK r \in Recipients, n \in Networks : StartScan(q, r, n)
    BY <1>1
  <2> DEFINE x == [at |-> "logs", account |-> session.account, contact |-> r, network |-> n,
                   latest |-> head[RpcByNetwork[n]], items |-> {}, lost |-> {}]
  <2>1. session.account \in Accounts
    BY DEF StartScan, TypeOK, Login
  <2>2. head[RpcByNetwork[n]] \in Nat
    BY ConfigAssumption DEF TypeOK
  <2>3. x \in Scan
    BY <2>1, <2>2 DEF Scan
  <2> QED
    BY <2>2, <2>3 DEF StartScan
<1>2. CASE AnswerScan(q)
  <2>0. PICK lost \in SUBSET {l \in locks : Found(q, l)} :
          SetScan(q, [scan[q] EXCEPT !.at = "answered", !.lost = lost,
                                    !.items = {l \in locks : Found(q, l)} \ lost])
    BY <1>2 DEF AnswerScan
  <2> DEFINE found == {l \in locks : Found(q, l)}
             x == [scan[q] EXCEPT !.at = "answered", !.lost = lost, !.items = found \ lost]
  <2>1. scan[q] \in Scan /\ found \in SUBSET Lock
    BY DEF TypeOK
  <2>2. /\ scan[q].at = "logs" /\ scan[q].network \in Networks
        /\ scan[q].latest <= head[RpcByNetwork[scan[q].network]]
    BY <1>2 DEF AnswerScan, ScanExact
  <2>3. SetScan(q, x) /\ UNCHANGED <<flow, tx, token, head, locks>>
    BY <1>2, <2>0 DEF AnswerScan
  <2>4. /\ x \in Scan /\ x.at = "answered" /\ x.items = found \ x.lost /\ x.account = scan[q].account
        /\ x.contact = scan[q].contact /\ x.network = scan[q].network
        /\ x.latest = scan[q].latest
    <3> HIDE DEF found
    <3> QED
      BY <2>1, <2>0 DEF Scan, found
  <2> QED
    BY <2>2, <2>3, <2>4
<1>3. CASE FailScan(q)
  <2> DEFINE x == [scan[q] EXCEPT !.at = "failed"]
  <2>1. scan[q] \in Scan
    BY DEF TypeOK
  <2>2. /\ scan[q].at = "logs" /\ scan[q].network \in Networks /\ scan[q].items = {}
        /\ scan[q].latest <= head[RpcByNetwork[scan[q].network]]
    BY <1>3 DEF FailScan, ScanExact
  <2>3. SetScan(q, x) /\ UNCHANGED <<flow, tx, token, head, locks>>
    BY <1>3 DEF FailScan
  <2>4. /\ x \in Scan /\ x.at = "failed" /\ x.items = scan[q].items /\ x.network = scan[q].network
        /\ x.latest = scan[q].latest
    BY <2>1 DEF Scan
  <2> QED
    BY <2>2, <2>3, <2>4
<1> QED
  BY <1>1, <1>2, <1>3 DEF ScanStep

LEMMA TypeStep ==
  ASSUME TypeOK, FlowsInOrder, MintedToken, ScanExact, [Next]_vars
  PROVE  TypeOK'
<1> DEFINE Small == /\ acts' \in 0 .. MaxActs /\ faults' \in 0 .. MaxFaults
                    /\ session' \in Login \cup {None} /\ wallet' \in Login
           Large == /\ flow' \in [Sends -> Flow] /\ tx' \in [Sends -> [Kinds -> Tx]]
                    /\ token' \in [NftChains -> [TokenIds -> Token \cup {None}]]
                    /\ head' \in [Chains -> Nat] /\ locks' \in SUBSET Lock
                    /\ scan' \in [Scans -> Scan]
<1>0. /\ flow \in [Sends -> Flow] /\ tx \in [Sends -> [Kinds -> Tx]]
      /\ token \in [NftChains -> [TokenIds -> Token \cup {None}]]
      /\ head \in [Chains -> Nat] /\ locks \in SUBSET Lock
      /\ scan \in [Scans -> Scan]
  BY DEF TypeOK
<1>1. Small
  BY UserTypes
<1> SUFFICES Large
  BY <1>1 DEF TypeOK
<1> HIDE DEF Flow, Tx, Kinds, Token, Lock, Scan
<1>2. CASE StillMove
  BY <1>0, <1>2 DEF StillMove
<1>3. CASE \E s \in Sends : \E f \in Flow : FlowMove(s, f)
  BY <1>0, <1>3, FlowEffect DEF FlowMove
<1>4. CASE \E s \in Sends, k \in Kinds : Sign(s, k)
  <2> PICK s \in Sends, k \in Kinds : Sign(s, k)
    BY <1>4
  <2> PICK t \in Tx : NewTx(s, k, t) /\ UNCHANGED <<flow, token, head, locks, scan>>
    BY SignEffect
  <2> QED
    BY <1>0 DEF NewTx
<1>5. CASE \E s \in Sends : Mint(s)
  <2> PICK s \in Sends : Mint(s)
    BY <1>5
  <2> PICK c \in NftChains, i \in TokenIds, t \in Tx, k \in Token :
        NewTx(s, "mint", t) /\ NewToken(c, i, k) /\ UNCHANGED <<flow, head, locks, scan>>
    BY MintEffect
  <2> QED
    BY <1>0 DEF NewTx, NewToken
<1>6. CASE \E s \in Sends : Approve(s)
  <2> PICK s \in Sends : Approve(s)
    BY <1>6
  <2> PICK c \in NftChains, i \in TokenIds, t \in Tx, k \in Token :
        NewTx(s, "approve", t) /\ NewToken(c, i, k) /\ UNCHANGED <<flow, head, locks, scan>>
    BY ApproveEffect
  <2> QED
    BY <1>0 DEF NewTx, NewToken
<1>7. CASE \E s \in Sends : Transfer(s)
  <2> PICK s \in Sends : Transfer(s)
    BY <1>7
  <2> PICK c \in NftChains, i \in TokenIds, t \in Tx, k \in Token, l \in Lock :
        /\ NewTx(s, "transfer", t) /\ NewToken(c, i, k) /\ locks' = locks \cup {l}
        /\ head' = [head EXCEPT ![c] = @ + 1] /\ UNCHANGED <<flow, scan>>
    BY TransferEffect
  <2>1. head' \in [Chains -> Nat]
    BY <1>0, ConfigAssumption
  <2> QED
    BY <1>0, <2>1 DEF NewTx, NewToken
<1>8. CASE \E s \in Sends, k \in Kinds : \E how \in {"ok", "reverted"} : StatusMove(s, k, how)
  <2> PICK s \in Sends, k \in Kinds, how \in {"ok", "reverted"} : StatusMove(s, k, how)
    BY <1>8
  <2>1. PICK t \in Tx : NewTx(s, k, t)
    BY StatusEffect
  <2> QED
    BY <1>0, <2>1 DEF NewTx, StatusMove
<1>9. CASE \E c \in Chains : NewBlock(c)
  BY <1>0, <1>9 DEF NewBlock
<1>10. CASE \E q \in Scans : ScanStep(q)
  <2> PICK q \in Scans : ScanStep(q)
    BY <1>10
  <2> PICK r \in Scan : SetScan(q, r) /\ UNCHANGED <<flow, tx, token, head, locks>>
    BY ScanStepEffect
  <2> QED
    BY <1>0, ScanEffect
<1> QED
  BY <1>2, <1>3, <1>4, <1>5, <1>6, <1>7, <1>8, <1>9, <1>10, StepKinds

-----------------------------------------------------------------------------
(* The order of a flow is kept                                              *)

LEMMA OrderInit == Init => FlowsInOrder
  BY DEF Init, FlowsInOrder, InOrder, NoFlow, NoTx, Sent, Kinds

(* A transaction that is sent in its turn.                                   *)
LEMMA OrderSigned ==
  ASSUME NEW f \in Flow, NEW t \in [Kinds -> Tx], NEW k \in Kinds, NEW u \in Tx, InOrder(f, t),
         f.at = k, u.status = "pending", u.chain \in Chains,
         u.id = IF k = "mint" THEN None ELSE f.token
  PROVE  InOrder(f, [t EXCEPT ![k] = u])
<1>1. CASE k = "mint"
  BY <1>1 DEF InOrder, Sent, Minted, Signed, Complete, Kinds
<1>2. CASE k = "approve"
  BY <1>2 DEF InOrder, Sent, Minted, Signed, Complete, Kinds
<1>3. CASE k = "transfer"
  BY <1>3 DEF InOrder, Sent, Minted, Signed, Complete, Kinds
<1> QED
  BY <1>1, <1>2, <1>3 DEF Kinds

(* A transaction that is mined.                                              *)
LEMMA OrderMined ==
  ASSUME NEW f \in Flow, NEW t \in [Kinds -> Tx], NEW k \in Kinds, NEW u \in Tx, InOrder(f, t),
         t[k].status = "pending", u.status \in {"ok", "reverted"}, u.chain = t[k].chain,
         k # "mint" => u.id = t[k].id
  PROVE  InOrder(f, [t EXCEPT ![k] = u])
<1>1. CASE k = "mint"
  BY <1>1 DEF InOrder, Sent, Minted, Signed, Complete, Kinds
<1>2. CASE k = "approve"
  BY <1>2 DEF InOrder, Sent, Minted, Signed, Complete, Kinds
<1>3. CASE k = "transfer"
  BY <1>3 DEF InOrder, Sent, Minted, Signed, Complete, Kinds
<1> QED
  BY <1>1, <1>2, <1>3 DEF Kinds

LEMMA OrderAfterTx ==
  ASSUME TypeOK, FlowsInOrder, NEW s \in Sends, NEW k \in Kinds, NEW t \in Tx, NewTx(s, k, t),
         UNCHANGED flow, InOrder(flow[s], [tx[s] EXCEPT ![k] = t])
  PROVE  FlowsInOrder'
<1> SUFFICES ASSUME NEW o \in Sends PROVE InOrder(flow[o], tx'[o])
  BY DEF FlowsInOrder
<1>1. CASE o = s
  BY <1>1 DEF NewTx
<1>2. CASE o # s
  <2>1. tx'[o] = tx[o]
    BY <1>2 DEF NewTx
  <2> QED
    BY <2>1 DEF FlowsInOrder
<1> QED
  BY <1>1, <1>2

LEMMA OrderStep ==
  ASSUME TypeOK, FlowsInOrder, MintedToken, [Next]_vars
  PROVE  FlowsInOrder'
<1>0. \A s \in Sends : flow[s] \in Flow /\ tx[s] \in [Kinds -> Tx] /\ InOrder(flow[s], tx[s])
  BY DEF TypeOK, FlowsInOrder
<1>k. "mint" \in Kinds /\ "approve" \in Kinds /\ "transfer" \in Kinds
  BY DEF Kinds
<1>1. CASE \E s \in Sends : \E f \in Flow : FlowMove(s, f)
  <2> PICK s \in Sends, f \in Flow : FlowMove(s, f)
    BY <1>1
  <2>1. InOrder(f, tx[s]) /\ tx' = tx /\ \A o \in Sends : flow'[o] = IF o = s THEN f ELSE flow[o]
    BY FlowEffect DEF FlowMove
  <2> SUFFICES ASSUME NEW o \in Sends PROVE InOrder(flow'[o], tx[o])
    BY <2>1 DEF FlowsInOrder
  <2>2. CASE o = s
    BY <2>1, <2>2
  <2>3. CASE o # s
    <3>1. flow'[o] = flow[o]
      BY <2>1, <2>3
    <3> QED
      BY <1>0, <3>1
  <2> QED
    BY <2>2, <2>3
<1>2. CASE \E s \in Sends, k \in Kinds : Sign(s, k)
  <2> PICK s \in Sends, k \in Kinds : Sign(s, k)
    BY <1>2
  <2>1. PICK t \in Tx : /\ NewTx(s, k, t) /\ t.status = "pending" /\ t.chain \in Chains
                       /\ flow[s].at = k /\ UNCHANGED flow
                       /\ t.id = IF k = "mint" THEN None ELSE flow[s].token
    BY SignEffect
  <2>2. InOrder(flow[s], [tx[s] EXCEPT ![k] = t])
    BY <1>0, <2>1, OrderSigned
  <2> QED
    BY <2>1, <2>2, OrderAfterTx
<1>3. CASE \E s \in Sends : Mint(s)
  <2> PICK s \in Sends : Mint(s)
    BY <1>3
  <2>1. PICK t \in Tx : /\ NewTx(s, "mint", t) /\ tx[s]["mint"].status = "pending"
                       /\ t.status = "ok" /\ t.chain = tx[s]["mint"].chain /\ UNCHANGED flow
    BY MintEffect
  <2>2. InOrder(flow[s], [tx[s] EXCEPT !["mint"] = t])
    BY <1>0, <1>k, <2>1, OrderMined
  <2> QED
    BY <1>k, <2>1, <2>2, OrderAfterTx
<1>4. CASE \E s \in Sends : Approve(s)
  <2> PICK s \in Sends : Approve(s)
    BY <1>4
  <2>1. PICK t \in Tx : /\ NewTx(s, "approve", t) /\ tx[s]["approve"].status = "pending"
                       /\ t.status = "ok" /\ t.chain = tx[s]["approve"].chain
                       /\ t.id = tx[s]["approve"].id /\ UNCHANGED flow
    BY ApproveEffect
  <2>2. InOrder(flow[s], [tx[s] EXCEPT !["approve"] = t])
    BY <1>0, <1>k, <2>1, OrderMined
  <2> QED
    BY <1>k, <2>1, <2>2, OrderAfterTx
<1>5. CASE \E s \in Sends : Transfer(s)
  <2> PICK s \in Sends : Transfer(s)
    BY <1>5
  <2>1. PICK t \in Tx : /\ NewTx(s, "transfer", t) /\ tx[s]["transfer"].status = "pending"
                       /\ t.status = "ok" /\ t.chain = tx[s]["transfer"].chain
                       /\ t.id = tx[s]["transfer"].id /\ UNCHANGED flow
    BY TransferEffect
  <2>2. InOrder(flow[s], [tx[s] EXCEPT !["transfer"] = t])
    BY <1>0, <1>k, <2>1, OrderMined
  <2> QED
    BY <1>k, <2>1, <2>2, OrderAfterTx
<1>6. CASE \E s \in Sends, k \in Kinds : \E how \in {"ok", "reverted"} : StatusMove(s, k, how)
  <2> PICK s \in Sends, k \in Kinds, how \in {"ok", "reverted"} : StatusMove(s, k, how)
    BY <1>6
  <2>1. PICK t \in Tx : /\ NewTx(s, k, t) /\ t.status = how
                       /\ t.chain = tx[s][k].chain /\ t.id = tx[s][k].id
    BY StatusEffect
  <2>2. tx[s][k].status = "pending" /\ UNCHANGED flow
    BY DEF StatusMove, Pending
  <2>3. InOrder(flow[s], [tx[s] EXCEPT ![k] = t])
    BY <1>0, <2>1, <2>2, OrderMined
  <2> QED
    BY <2>1, <2>2, <2>3, OrderAfterTx
<1>7. CASE UNCHANGED <<flow, tx>>
  BY <1>7 DEF FlowsInOrder
<1>8. (\E c \in Chains : NewBlock(c)) \/ (\E q \in Scans : ScanStep(q)) \/ StillMove
        => UNCHANGED <<flow, tx>>
  BY DEF NewBlock, ScanStep, StartScan, AnswerScan, FailScan, StillMove
<1> QED
  BY <1>1, <1>2, <1>3, <1>4, <1>5, <1>6, <1>7, <1>8, StepKinds

-----------------------------------------------------------------------------
(* What no step takes back                                                  *)

(* Once a transaction of a send is out, its contact, network and signer stay. *)
LEMMA TermsStay ==
  ASSUME TypeOK, FlowsInOrder, MintedToken, [Next]_vars, NEW s \in Sends, NEW k \in Kinds,
         Sent(tx[s], k)
  PROVE  SameTerms(flow'[s], flow[s])
<1>1. CASE \E o \in Sends : \E f \in Flow : FlowMove(o, f)
  <2> PICK o \in Sends, f \in Flow : FlowMove(o, f)
    BY <1>1
  <2>1. \A x \in Sends : flow'[x] = IF x = o THEN f ELSE flow[x]
    BY FlowEffect DEF FlowMove
  <2>2. CASE o = s
    BY <2>1, <2>2 DEF FlowMove
  <2>3. CASE o # s
    BY <2>1, <2>3 DEF SameTerms
  <2> QED
    BY <2>2, <2>3
<1>2. CASE flow' = flow
  BY <1>2 DEF SameTerms
<1>3. /\ \A o \in Sends : Mint(o) \/ Approve(o) \/ Transfer(o) => flow' = flow
      /\ \A o \in Sends, j \in Kinds : Sign(o, j) => flow' = flow
      /\ \A o \in Sends, j \in Kinds : \A how \in {"ok", "reverted"} :
           StatusMove(o, j, how) => flow' = flow
      /\ \A c \in Chains : NewBlock(c) => flow' = flow
      /\ \A q \in Scans : ScanStep(q) => flow' = flow
      /\ StillMove => flow' = flow
  BY DEF Mint, Approve, Transfer, Sign, StatusMove, NewBlock, ScanStep, StartScan,
         AnswerScan, FailScan, StillMove
<1> QED
  BY <1>1, <1>2, <1>3, StepKinds

(* Which steps change transactions, and how.                                 *)
TxMove(s, k, t) ==
  /\ NewTx(s, k, t) /\ tx[s][k].status \in {"unsent", "pending"}
  /\ tx[s][k].status = "unsent" => t.status = "pending"
  /\ t.status = "pending" /\ k = "mint" => t.id = None

LEMMA TxSteps ==
  ASSUME TypeOK, FlowsInOrder, MintedToken, [Next]_vars
  PROVE  tx' = tx \/ \E s \in Sends, k \in Kinds, t \in Tx : TxMove(s, k, t)
<1>k. "mint" \in Kinds /\ "approve" \in Kinds /\ "transfer" \in Kinds
  BY DEF Kinds
<1>1. CASE \E s \in Sends, k \in Kinds : Sign(s, k)
  <2> PICK s \in Sends, k \in Kinds : Sign(s, k)
    BY <1>1
  <2>1. PICK t \in Tx : /\ NewTx(s, k, t) /\ t.status = "pending"
                       /\ t.id = IF k = "mint" THEN None ELSE flow[s].token
    BY SignEffect
  <2> QED
    BY <2>1 DEF TxMove, Sign
<1>2. CASE \E s \in Sends : Mint(s)
  <2> PICK s \in Sends : Mint(s)
    BY <1>2
  <2>1. PICK t \in Tx : /\ NewTx(s, "mint", t) /\ tx[s]["mint"].status = "pending"
                       /\ t.status = "ok"
    BY MintEffect
  <2> QED
    BY <1>k, <2>1 DEF TxMove
<1>3. CASE \E s \in Sends : Approve(s)
  <2> PICK s \in Sends : Approve(s)
    BY <1>3
  <2>1. PICK t \in Tx : /\ NewTx(s, "approve", t) /\ tx[s]["approve"].status = "pending"
                       /\ t.status = "ok"
    BY ApproveEffect
  <2> QED
    BY <1>k, <2>1 DEF TxMove
<1>4. CASE \E s \in Sends : Transfer(s)
  <2> PICK s \in Sends : Transfer(s)
    BY <1>4
  <2>1. PICK t \in Tx : /\ NewTx(s, "transfer", t) /\ tx[s]["transfer"].status = "pending"
                       /\ t.status = "ok"
    BY TransferEffect
  <2> QED
    BY <1>k, <2>1 DEF TxMove
<1>5. CASE \E s \in Sends, k \in Kinds : \E how \in {"ok", "reverted"} : StatusMove(s, k, how)
  <2> PICK s \in Sends, k \in Kinds, how \in {"ok", "reverted"} : StatusMove(s, k, how)
    BY <1>5
  <2>1. PICK t \in Tx : NewTx(s, k, t) /\ t.status = how
    BY StatusEffect
  <2>2. tx[s][k].status = "pending"
    BY DEF StatusMove, Pending
  <2> QED
    BY <2>1, <2>2 DEF TxMove
<1>6. (\E s \in Sends : \E f \in Flow : FlowMove(s, f)) \/ StillMove
        \/ (\E c \in Chains : NewBlock(c)) \/ (\E q \in Scans : ScanStep(q)) => tx' = tx
  BY DEF FlowMove, NewBlock, ScanStep, StartScan, AnswerScan, FailScan, StillMove
<1> QED
  BY <1>1, <1>2, <1>3, <1>4, <1>5, <1>6, StepKinds

(* A transaction that succeeded stays as it is.                              *)
LEMMA OkStays ==
  ASSUME TypeOK, FlowsInOrder, MintedToken, [Next]_vars, NEW s \in Sends, NEW k \in Kinds,
         tx[s][k].status = "ok"
  PROVE  tx'[s][k] = tx[s][k]
<1>1. CASE tx' = tx
  BY <1>1
<1>2. CASE \E o \in Sends, j \in Kinds, t \in Tx : TxMove(o, j, t)
  <2> PICK o \in Sends, j \in Kinds, t \in Tx : TxMove(o, j, t)
    BY <1>2
  <2>1. ~(o = s /\ j = k)
    BY DEF TxMove
  <2> QED
    BY <2>1 DEF TxMove, NewTx
<1> QED
  BY <1>1, <1>2, TxSteps

(* A token keeps its document, and the bridge that holds it.                 *)
LEMMA TokensStay ==
  ASSUME TypeOK, FlowsInOrder, MintedToken, [Next]_vars, NEW c \in NftChains, NEW i \in TokenIds,
         token[c][i] # None
  PROVE  /\ token'[c][i] # None /\ token'[c][i].doc = token[c][i].doc
         /\ token[c][i].owner \in Bridges => token'[c][i].owner = token[c][i].owner
<1>k. "mint" \in Kinds /\ "approve" \in Kinds /\ "transfer" \in Kinds
  BY DEF Kinds
<1>n. \A t \in Token : t # None
  BY NoneAssumption
<1> HIDE DEF Token
<1>1. CASE token' = token
  BY <1>1
<1>2. CASE \E s \in Sends : Mint(s)
  <2> PICK s \in Sends : Mint(s)
    BY <1>2
  <2>1. PICK d \in NftChains, j \in TokenIds, k \in Token : token[d][j] = None /\ NewToken(d, j, k)
    BY MintEffect
  <2> QED
    BY <2>1 DEF NewToken
<1>3. CASE \E s \in Sends : Approve(s)
  <2> PICK s \in Sends : Approve(s)
    BY <1>3
  <2>1. PICK d \in NftChains, j \in TokenIds, k \in Token :
          NewToken(d, j, k) /\ k.doc = token[d][j].doc /\ k.owner = token[d][j].owner
    BY ApproveEffect
  <2> QED
    BY <1>n, <2>1 DEF NewToken
<1>4. CASE \E s \in Sends : Transfer(s)
  <2> PICK s \in Sends : Transfer(s)
    BY <1>4
  <2>1. PICK d \in NftChains, j \in TokenIds, k \in Token :
          /\ NewToken(d, j, k) /\ k.doc = token[d][j].doc
          /\ token[d][j].owner = flow[s].signer /\ tx[s]["transfer"].status = "pending"
    BY TransferEffect
  <2>2. token[d][j].owner \notin Bridges
    BY <1>k, <2>1, SentFacts, AddressAssumption DEF Sent
  <2> QED
    BY <1>n, <2>1, <2>2 DEF NewToken
<1>5. /\ (\E s \in Sends : \E f \in Flow : FlowMove(s, f)) => token' = token
      /\ (\E s \in Sends, k \in Kinds : Sign(s, k)) => token' = token
      /\ (\E s \in Sends, k \in Kinds : \E how \in {"ok", "reverted"} : StatusMove(s, k, how))
           => token' = token
      /\ StillMove \/ (\E d \in Chains : NewBlock(d)) \/ (\E q \in Scans : ScanStep(q))
           => token' = token
  BY DEF FlowMove, Sign, StatusMove, NewBlock, ScanStep, StartScan, AnswerScan, FailScan, StillMove
<1> QED
  BY <1>1, <1>2, <1>3, <1>4, <1>5, StepKinds

LEMMA LocksChange ==
  ASSUME TypeOK, FlowsInOrder, MintedToken, [Next]_vars
  PROVE  locks' = locks \/ \E s \in Sends : Transfer(s)
<1>1. /\ (\E s \in Sends : \E f \in Flow : FlowMove(s, f)) => locks' = locks
      /\ (\E s \in Sends, k \in Kinds : Sign(s, k)) => locks' = locks
      /\ (\E s \in Sends, k \in Kinds : \E how \in {"ok", "reverted"} : StatusMove(s, k, how))
           => locks' = locks
      /\ (\E s \in Sends : Mint(s) \/ Approve(s)) => locks' = locks
      /\ StillMove \/ (\E c \in Chains : NewBlock(c)) \/ (\E q \in Scans : ScanStep(q))
           => locks' = locks
  BY DEF FlowMove, Sign, StatusMove, Mint, Approve, NewBlock, ScanStep, StartScan, AnswerScan,
         FailScan, StillMove
<1> QED
  BY <1>1, StepKinds

LEMMA BlocksGrow ==
  ASSUME TypeOK, FlowsInOrder, MintedToken, [Next]_vars, NEW c \in Chains
  PROVE  head[c] \in Nat /\ head'[c] \in Nat /\ head[c] <= head'[c]
<1>0. head \in [Chains -> Nat]
  BY DEF TypeOK
<1>1. CASE head' = head
  BY <1>0, <1>1
<1>2. CASE \E d \in Chains : head' = [head EXCEPT ![d] = @ + 1]
  BY <1>0, <1>2
<1>3. (\E s \in Sends : Transfer(s)) => \E d \in Chains : head' = [head EXCEPT ![d] = @ + 1]
  <2> SUFFICES ASSUME NEW s \in Sends, Transfer(s)
               PROVE  \E d \in Chains : head' = [head EXCEPT ![d] = @ + 1]
    OBVIOUS
  <2> QED
    BY TransferEffect, ConfigAssumption
<1>4. /\ (\E s \in Sends : \E f \in Flow : FlowMove(s, f)) => head' = head
      /\ (\E s \in Sends, k \in Kinds : Sign(s, k)) => head' = head
      /\ (\E s \in Sends, k \in Kinds : \E how \in {"ok", "reverted"} : StatusMove(s, k, how))
           => head' = head
      /\ (\E s \in Sends : Mint(s) \/ Approve(s)) => head' = head
      /\ StillMove \/ (\E q \in Scans : ScanStep(q)) => head' = head
      /\ (\E d \in Chains : NewBlock(d)) => \E d \in Chains : head' = [head EXCEPT ![d] = @ + 1]
  BY DEF FlowMove, Sign, StatusMove, Mint, Approve, NewBlock, ScanStep, StartScan, AnswerScan,
         FailScan, StillMove
<1> QED
  BY <1>1, <1>2, <1>3, <1>4, StepKinds

-----------------------------------------------------------------------------
(* The other parts of the invariant are kept                                *)

LEMMA MintedInit == Init => MintedToken
  BY DEF Init, MintedToken, NoTx, Kinds

LEMMA MintedStep ==
  ASSUME TypeOK, FlowsInOrder, MintedToken, ScanExact, [Next]_vars
  PROVE  MintedToken'
<1>k. "mint" \in Kinds /\ "approve" \in Kinds /\ "transfer" \in Kinds
  BY DEF Kinds
<1> SUFFICES ASSUME NEW o \in Sends, tx'[o]["mint"].id # None
             PROVE  /\ tx'[o]["mint"].status = "ok" /\ tx'[o]["mint"].chain \in NftChains
                    /\ token'[tx'[o]["mint"].chain][tx'[o]["mint"].id] # None
                    /\ token'[tx'[o]["mint"].chain][tx'[o]["mint"].id].doc = o
  BY DEF MintedToken
<1>1. CASE tx[o]["mint"].id # None
  <2>1. /\ tx[o]["mint"].status = "ok" /\ tx[o]["mint"].chain \in NftChains
        /\ token[tx[o]["mint"].chain][tx[o]["mint"].id] # None
        /\ token[tx[o]["mint"].chain][tx[o]["mint"].id].doc = o
    BY <1>1 DEF MintedToken
  <2>2. tx'[o]["mint"] = tx[o]["mint"]
    BY <1>k, <2>1, OkStays
  <2>3. tx[o]["mint"].id \in TokenIds
    BY <1>k, <1>1, TxFields
  <2> QED
    BY <2>1, <2>2, <2>3, TokensStay
<1>2. CASE tx[o]["mint"].id = None
  <2>1. CASE \E s \in Sends : Mint(s)
    <3> PICK s \in Sends : Mint(s)
      BY <2>1
    <3>1. PICK c \in NftChains, i \in TokenIds, t \in Tx, k \in Token :
            /\ NewTx(s, "mint", t) /\ t.status = "ok" /\ t.chain = c /\ t.id = i
            /\ NewToken(c, i, k) /\ k.doc = s
      BY MintEffect
    <3>2. o = s
      BY <1>2, <3>1 DEF NewTx
    <3>3. tx'[o]["mint"] = t
      BY <1>k, <3>1, <3>2 DEF NewTx
    <3>4. token'[c][i] = k /\ k # None
      BY <3>1, NoneAssumption DEF NewToken
    <3> QED
      BY <3>1, <3>2, <3>3, <3>4
  <2>2. CASE \E s \in Sends, k \in Kinds : Sign(s, k)
    <3> PICK s \in Sends, k \in Kinds : Sign(s, k)
      BY <2>2
    <3>1. PICK t \in Tx : NewTx(s, k, t) /\ t.id = IF k = "mint" THEN None ELSE flow[s].token
      BY SignEffect
    <3> QED
      BY <1>k, <1>2, <3>1 DEF NewTx
  <2>3. CASE \E s \in Sends, k \in Kinds : \E how \in {"ok", "reverted"} : StatusMove(s, k, how)
    <3> PICK s \in Sends, k \in Kinds, how \in {"ok", "reverted"} : StatusMove(s, k, how)
      BY <2>3
    <3>1. PICK t \in Tx : NewTx(s, k, t) /\ t.id = tx[s][k].id
      BY StatusEffect
    <3> QED
      BY <1>k, <1>2, <3>1 DEF NewTx
  <2>4. CASE \E s \in Sends : Approve(s)
    <3> PICK s \in Sends : Approve(s)
      BY <2>4
    <3>1. PICK t \in Tx : NewTx(s, "approve", t)
      BY ApproveEffect
    <3> QED
      BY <1>k, <1>2, <3>1 DEF NewTx
  <2>5. CASE \E s \in Sends : Transfer(s)
    <3> PICK s \in Sends : Transfer(s)
      BY <2>5
    <3>1. PICK t \in Tx : NewTx(s, "transfer", t)
      BY TransferEffect
    <3> QED
      BY <1>k, <1>2, <3>1 DEF NewTx
  <2>6. (\E s \in Sends : \E f \in Flow : FlowMove(s, f)) \/ StillMove
          \/ (\E c \in Chains : NewBlock(c)) \/ (\E q \in Scans : ScanStep(q)) => tx' = tx
    BY DEF FlowMove, NewBlock, ScanStep, StartScan, AnswerScan, FailScan, StillMove
  <2> QED
    BY <1>2, <2>1, <2>2, <2>3, <2>4, <2>5, <2>6, StepKinds
<1> QED
  BY <1>1, <1>2

LEMMA LocksInit == Init => /\ LockOfTransfer /\ LockKept /\ LocksDiffer /\ LockInBlock
                           /\ TransferLocked /\ ScanExact
  BY DEF Init, LockOfTransfer, LockKept, LocksDiffer, LockInBlock, TransferLocked, ScanExact,
         NoTx, NoScan, Kinds

(* A lock that was there already is still that of its transfer.              *)
LEMMA OldLock ==
  ASSUME TypeOK, FlowsInOrder, MintedToken, LockOfTransfer, LockKept, LockInBlock, [Next]_vars,
         NEW l \in locks
  PROVE  /\ LockOf(l, flow'[l.by], tx'[l.by]["transfer"])
         /\ l.chain \in NftChains /\ token'[l.chain][l.id] # None
         /\ token'[l.chain][l.id].owner = l.bridge /\ token'[l.chain][l.id].doc = l.doc
         /\ l.block <= head'[l.chain]
<1>k. "transfer" \in Kinds
  BY DEF Kinds
<1>1. l.by \in Sends /\ l.chain \in Chains /\ l.bridge \in Bridges /\ l.id \in TokenIds /\ l.block \in Nat
  BY LockFields
<1>2. LockOf(l, flow[l.by], tx[l.by]["transfer"])
  BY DEF LockOfTransfer
<1>3. tx[l.by]["transfer"].status = "ok"
  BY <1>2 DEF LockOf
<1>4. tx'[l.by]["transfer"] = tx[l.by]["transfer"]
  BY <1>k, <1>1, <1>3, OkStays
<1>5. SameTerms(flow'[l.by], flow[l.by])
  BY <1>k, <1>1, <1>3, TermsStay DEF Sent
<1>6. LockOf(l, flow'[l.by], tx'[l.by]["transfer"])
  BY <1>2, <1>4, <1>5 DEF LockOf, SameTerms
<1>7. /\ l.chain \in NftChains /\ token[l.chain][l.id] # None
      /\ token[l.chain][l.id].owner = l.bridge /\ token[l.chain][l.id].doc = l.doc
  BY DEF LockKept
<1>8. /\ token'[l.chain][l.id] # None
      /\ token'[l.chain][l.id].owner = l.bridge /\ token'[l.chain][l.id].doc = l.doc
  BY <1>1, <1>7, TokensStay
<1>9. l.block <= head[l.chain] /\ head[l.chain] <= head'[l.chain]
      /\ head[l.chain] \in Nat /\ head'[l.chain] \in Nat
  BY <1>1, BlocksGrow DEF LockInBlock
<1>10. l.block <= head'[l.chain]
  BY <1>1, <1>9
<1> QED
  BY <1>6, <1>7, <1>8, <1>10

(* A transfer adds one lock, of its send and of a token that had none.       *)
LEMMA NewLock ==
  ASSUME TypeOK, FlowsInOrder, MintedToken, LockOfTransfer, LockKept, LockInBlock, [Next]_vars,
         NEW s \in Sends, Transfer(s)
  PROVE  \E l \in Lock :
           /\ locks' = locks \cup {l} /\ l.by = s /\ LockOf(l, flow'[s], tx'[s]["transfer"])
           /\ l.chain \in NftChains /\ token'[l.chain][l.id] # None
           /\ token'[l.chain][l.id].owner = l.bridge /\ token'[l.chain][l.id].doc = l.doc
           /\ l.chain \in Chains /\ l.block = head[l.chain] + 1 /\ l.block <= head'[l.chain]
           /\ \A m \in locks : m.by # s /\ ~(m.chain = l.chain /\ m.id = l.id)
           /\ UNCHANGED scan
<1>k. "transfer" \in Kinds /\ "transfer" # "mint"
  BY DEF Kinds
<1>1. PICK c \in NftChains, i \in TokenIds, t \in Tx, k \in Token, l \in Lock :
        /\ token[c][i].owner = flow[s].signer
        /\ NewToken(c, i, k) /\ k.owner = BridgeOf(s)
        /\ tx[s]["transfer"].status = "pending" /\ NewTx(s, "transfer", t)
        /\ t.status = "ok" /\ t.chain = c /\ t.id = i
        /\ locks' = locks \cup {l} /\ l.by = s /\ l.chain = c /\ l.id = i
        /\ l.bridge = BridgeOf(s) /\ c = Home(s) /\ l.sender = flow[s].signer
        /\ l.to = flow[s].to /\ l.doc = k.doc /\ l.block = head[c] + 1
        /\ head' = [head EXCEPT ![c] = @ + 1]
        /\ UNCHANGED <<flow, scan>>
  BY TransferEffect
<1>2. tx'[s]["transfer"] = t
  BY <1>k, <1>1 DEF NewTx
<1>3. LockOf(l, flow'[s], tx'[s]["transfer"])
  BY <1>1, <1>2 DEF LockOf, BridgeOf, Home
<1>4. token'[c][i] = k /\ k # None
  BY <1>1, NoneAssumption DEF NewToken
<1>5. c \in Chains /\ head[c] + 1 <= head'[c]
  <2>1. c \in Chains
    BY ConfigAssumption
  <2>2. head \in [Chains -> Nat]
    BY DEF TypeOK
  <2> QED
    BY <1>1, <2>1, <2>2
<1>6. flow[s].signer \notin Bridges
  BY <1>k, <1>1, SentFacts, AddressAssumption DEF Sent
<1>7. ASSUME NEW m \in locks PROVE m.by # s /\ ~(m.chain = c /\ m.id = i)
  <2>1. LockOf(m, flow[m.by], tx[m.by]["transfer"])
    BY DEF LockOfTransfer
  <2>2. m.by # s
    BY <1>1, <2>1 DEF LockOf
  <2>3. token[m.chain][m.id].owner = m.bridge /\ m.bridge \in Bridges
    BY LockFields DEF LockKept
  <2> QED
    BY <1>1, <1>6, <2>2, <2>3
<1> QED
  BY <1>1, <1>3, <1>4, <1>5, <1>7

LEMMA LocksStep ==
  ASSUME TypeOK, FlowsInOrder, MintedToken, LockOfTransfer, LockKept, LocksDiffer, LockInBlock,
         [Next]_vars
  PROVE  /\ LockOfTransfer' /\ LockKept' /\ LocksDiffer' /\ LockInBlock'
<1>1. CASE locks' = locks
  <2>1. LockOfTransfer' /\ LockKept' /\ LockInBlock'
    BY <1>1, OldLock DEF LockOfTransfer, LockKept, LockInBlock
  <2>2. LocksDiffer'
    BY <1>1 DEF LocksDiffer
  <2> QED
    BY <2>1, <2>2
<1>2. CASE \E s \in Sends : Transfer(s)
  <2> PICK s \in Sends : Transfer(s)
    BY <1>2
  <2> PICK l \in Lock :
        /\ locks' = locks \cup {l} /\ l.by = s /\ LockOf(l, flow'[s], tx'[s]["transfer"])
        /\ l.chain \in NftChains /\ token'[l.chain][l.id] # None
        /\ token'[l.chain][l.id].owner = l.bridge /\ token'[l.chain][l.id].doc = l.doc
        /\ l.block <= head'[l.chain]
        /\ \A m \in locks : m.by # s /\ ~(m.chain = l.chain /\ m.id = l.id)
    BY NewLock
  <2>1. LockOfTransfer'
    BY OldLock DEF LockOfTransfer
  <2>2. LockKept'
    BY OldLock DEF LockKept
  <2>3. LockInBlock'
    BY OldLock DEF LockInBlock
  <2>4. LocksDiffer'
    BY DEF LocksDiffer
  <2> QED
    BY <2>1, <2>2, <2>3, <2>4
<1> QED
  BY <1>1, <1>2, LocksChange
LEMMA LocksGrow ==
  ASSUME TypeOK, FlowsInOrder, MintedToken, LockOfTransfer, LockKept, LockInBlock, [Next]_vars
  PROVE  locks \subseteq locks'
<1>1. CASE \E s \in Sends : Transfer(s)
  BY <1>1, NewLock
<1> QED
  BY <1>1, LocksChange

LEMMA TransferLockedStep ==
  ASSUME TypeOK, FlowsInOrder, MintedToken, LockOfTransfer, LockKept, LockInBlock,
         TransferLocked, [Next]_vars
  PROVE  TransferLocked'
<1>k. "mint" \in Kinds /\ "approve" \in Kinds /\ "transfer" \in Kinds
  BY DEF Kinds
<1> SUFFICES ASSUME NEW o \in Sends, tx'[o]["transfer"].status = "ok",
                    tx'[o]["transfer"].chain = BridgeChain[BridgeByNetwork[flow'[o].network]]
             PROVE  \E l \in locks' : l.by = o
  BY DEF TransferLocked, Home, BridgeOf
<1>1. CASE tx[o]["transfer"].status = "ok"
  <2>1. tx'[o]["transfer"] = tx[o]["transfer"]
    BY <1>k, <1>1, OkStays
  <2>2. flow'[o].network = flow[o].network
    BY <1>k, <1>1, TermsStay DEF Sent, SameTerms
  <2>3. \E l \in locks : l.by = o
    BY <1>1, <2>1, <2>2 DEF TransferLocked, Home, BridgeOf
  <2> QED
    BY <2>3, LocksGrow
<1>2. CASE tx[o]["transfer"].status # "ok"
  <2>1. CASE \E s \in Sends : Transfer(s)
    <3> PICK s \in Sends : Transfer(s)
      BY <2>1
    <3>1. PICK t \in Tx : NewTx(s, "transfer", t)
      BY TransferEffect
    <3>2. s = o
      BY <1>2, <3>1 DEF NewTx
    <3> QED
      BY <3>2, NewLock
  <2>2. CASE \E s \in Sends, k \in Kinds : \E how \in {"ok", "reverted"} : StatusMove(s, k, how)
    <3> PICK s \in Sends, k \in Kinds, how \in {"ok", "reverted"} : StatusMove(s, k, how)
      BY <2>2
    <3>1. PICK t \in Tx : NewTx(s, k, t) /\ t.status = how /\ t.chain = tx[s][k].chain
      BY StatusEffect
    <3>2. s = o /\ k = "transfer" /\ t = tx'[o]["transfer"]
      BY <1>k, <1>2, <3>1 DEF NewTx
    <3>3. tx[o]["transfer"].chain # BridgeChain[BridgeByNetwork[flow[o].network]]
      BY <3>1, <3>2 DEF StatusMove, NoContract, BridgeOf
    <3>4. flow' = flow
      BY DEF StatusMove
    <3> QED
      BY <3>1, <3>2, <3>3, <3>4
  <2>3. CASE \E s \in Sends, k \in Kinds : Sign(s, k)
    <3> PICK s \in Sends, k \in Kinds : Sign(s, k)
      BY <2>3
    <3>1. PICK t \in Tx : NewTx(s, k, t) /\ t.status = "pending"
      BY SignEffect
    <3> QED
      BY <1>k, <1>2, <3>1 DEF NewTx
  <2>4. CASE \E s \in Sends : Mint(s)
    <3> PICK s \in Sends : Mint(s)
      BY <2>4
    <3>1. PICK t \in Tx : NewTx(s, "mint", t)
      BY MintEffect
    <3> QED
      BY <1>k, <1>2, <3>1 DEF NewTx
  <2>5. CASE \E s \in Sends : Approve(s)
    <3> PICK s \in Sends : Approve(s)
      BY <2>5
    <3>1. PICK t \in Tx : NewTx(s, "approve", t)
      BY ApproveEffect
    <3> QED
      BY <1>k, <1>2, <3>1 DEF NewTx
  <2>6. (\E s \in Sends : \E f \in Flow : FlowMove(s, f)) \/ StillMove
          \/ (\E c \in Chains : NewBlock(c)) \/ (\E q \in Scans : ScanStep(q)) => tx' = tx
    BY DEF FlowMove, NewBlock, ScanStep, StartScan, AnswerScan, FailScan, StillMove
  <2> QED
    BY <1>2, <2>1, <2>2, <2>3, <2>4, <2>5, <2>6, StepKinds
<1> QED
  BY <1>1, <1>2

-----------------------------------------------------------------------------
(* The scan                                                                 *)

(* The default range ends with the latest block and starts with the window.  *)
LEMMA DefaultRange ==
  ASSUME NEW latest \in Nat
  PROVE  /\ NormalizeRange(0, 0, latest).to = latest
         /\ NormalizeRange(0, 0, latest).from =
              IF latest > Window THEN latest - Window ELSE 0
         /\ NormalizeRange(0, 0, latest).from \in 0 .. latest
  BY BoundAssumption DEF NormalizeRange

(* What a search of a request finds, in terms of the record of the request.  *)
FoundFor(r, l) ==
  /\ l.chain = RpcByNetwork[r.network]
  /\ l.block \in NormalizeRange(0, 0, r.latest).from .. NormalizeRange(0, 0, r.latest).to
  /\ l.bridge = BridgeByNetwork[r.network] /\ l.sender = r.account /\ l.to = r.contact
Exact(r, L) ==
  r.items = IF r.at = "answered" THEN {l \in L : FoundFor(r, l)} \ r.lost ELSE {}

LEMMA ScanExactStep ==
  ASSUME TypeOK, FlowsInOrder, MintedToken, LockOfTransfer, LockKept, LockInBlock,
         ScanExact, [Next]_vars
  PROVE  ScanExact'
<1>0. ASSUME NEW q \in Scans
      PROVE  /\ Exact(scan[q], locks) /\ scan[q].latest \in Nat
             /\ scan[q].at # "idle" => /\ scan[q].network \in Networks
                                      /\ scan[q].latest <= head[RpcByNetwork[scan[q].network]]
  <2>1. scan[q] \in Scan
    BY DEF TypeOK
  <2> QED
    BY <2>1 DEF ScanExact, Exact, FoundFor, Found, InRange, Scan
<1> SUFFICES ASSUME NEW q \in Scans
             PROVE  /\ scan'[q].at # "idle" =>
                         /\ scan'[q].network \in Networks
                         /\ scan'[q].latest <= head'[RpcByNetwork[scan'[q].network]]
                    /\ Exact(scan'[q], locks')
  BY DEF ScanExact, Exact, FoundFor, Found, InRange
<1>1. CASE \E o \in Scans : ScanStep(o)
  <2> PICK o \in Scans : ScanStep(o)
    BY <1>1
  <2>1. PICK r \in Scan :
          /\ SetScan(o, r) /\ UNCHANGED <<flow, tx, token, head, locks>>
          /\ r.network \in Networks /\ r.latest <= head[RpcByNetwork[r.network]]
          /\ r.at # "answered" => r.items = {}
          /\ r.at = "answered" =>
               /\ r.items = {l \in locks : Found(o, l)} \ r.lost
               /\ r.account = scan[o].account /\ r.contact = scan[o].contact
               /\ r.network = scan[o].network /\ r.latest = scan[o].latest
    BY ScanStepEffect
  <2>2. scan'[q] = IF q = o THEN r ELSE scan[q]
    BY <2>1, ScanEffect
  <2>3. Exact(r, locks)
    BY <2>1 DEF Exact, FoundFor, Found, InRange
  <2> QED
    BY <1>0, <2>1, <2>2, <2>3
<1>2. CASE ~\E o \in Scans : ScanStep(o)
  <2>1. scan' = scan
    <3>1. (\E s \in Sends : Transfer(s)) => scan' = scan
      BY DEF Transfer
    <3> QED
      BY <1>2, <3>1, StepKinds DEF FlowMove, Sign, StatusMove, Mint, Approve, NewBlock, StillMove
  <2>2. scan[q].at # "idle" => scan[q].latest <= head'[RpcByNetwork[scan[q].network]]
    <3> SUFFICES ASSUME scan[q].at # "idle"
                 PROVE  scan[q].latest <= head'[RpcByNetwork[scan[q].network]]
      OBVIOUS
    <3> DEFINE c == RpcByNetwork[scan[q].network]
    <3>1. c \in Chains /\ scan[q].latest \in Nat /\ scan[q].latest <= head[c]
      BY <1>0, ConfigAssumption
    <3>2. head[c] \in Nat /\ head'[c] \in Nat /\ head[c] <= head'[c]
      BY <3>1, BlocksGrow
    <3> QED
      BY <3>1, <3>2
  <2>3. Exact(scan[q], locks')
    <3>1. CASE locks' = locks
      BY <1>0, <3>1
    <3>2. CASE \E s \in Sends : Transfer(s)
      <4> PICK s \in Sends : Transfer(s)
        BY <3>2
      <4> PICK l \in Lock : /\ locks' = locks \cup {l} /\ l.chain \in Chains
                           /\ l.block = head[l.chain] + 1
        BY NewLock
      <4> SUFFICES ASSUME scan[q].at = "answered"
                   PROVE  ~FoundFor(scan[q], l)
        BY <1>0 DEF Exact
      <4>1. scan[q].latest \in Nat /\ scan[q].latest <= head[RpcByNetwork[scan[q].network]]
        BY <1>0
      <4>2. NormalizeRange(0, 0, scan[q].latest).to = scan[q].latest
        BY <4>1, DefaultRange
      <4>3. head[l.chain] \in Nat
        BY DEF TypeOK
      <4> QED
        BY <4>1, <4>2, <4>3 DEF FoundFor
    <3> QED
      BY <3>1, <3>2, LocksChange
  <2> QED
    BY <1>0, <2>1, <2>2, <2>3
<1> QED
  BY <1>1, <1>2

-----------------------------------------------------------------------------
(* The theorems                                                             *)

LEMMA InvStep == IInv /\ [Next]_vars => IInv'
<1> SUFFICES ASSUME IInv, [Next]_vars PROVE IInv'
  OBVIOUS
<1> USE DEF IInv
<1>1. TypeOK'
  BY TypeStep
<1>2. FlowsInOrder'
  BY OrderStep
<1>3. MintedToken'
  BY MintedStep
<1>4. LockOfTransfer' /\ LockKept' /\ LocksDiffer' /\ LockInBlock'
  BY LocksStep
<1>5. TransferLocked'
  BY TransferLockedStep
<1>6. ScanExact'
  BY ScanExactStep
<1> QED
  BY <1>1, <1>2, <1>3, <1>4, <1>5, <1>6

(* The parts of the inductive invariant hold in every state of doSendFlow,   *)
(* of the chains and of /scan/contact.                                      *)
THEOREM Inductive == Spec => []IInv
<1>1. Init => IInv
  BY TypeInit, OrderInit, MintedInit, LocksInit DEF IInv
<1> QED
  BY <1>1, InvStep, PTL DEF Spec

(* What each variable can hold, up to the bounds.                            *)
THEOREM TypeCorrect == Spec => []TypeOK
<1>1. IInv => TypeOK
  BY DEF IInv
<1> QED
  BY <1>1, Inductive, PTL

LEMMA LockedSafe == IInv => LockedAsSent
<1>k. "mint" \in Kinds /\ "transfer" \in Kinds /\ "mint" # "transfer"
  BY DEF Kinds
<1> SUFFICES ASSUME IInv, NEW l \in locks
             PROVE  /\ l.sender = flow[l.by].signer /\ l.to = flow[l.by].to
                    /\ l.bridge = BridgeOf(l.by) /\ l.chain = Home(l.by)
                    /\ tx[l.by]["mint"].chain = l.chain => l.doc = l.by
                    /\ \A m \in locks : m.by = l.by \/ (m.chain = l.chain /\ m.id = l.id) => m = l
  BY DEF LockedAsSent
<1>1. LockOf(l, flow[l.by], tx[l.by]["transfer"])
  BY DEF IInv, LockOfTransfer
<1>2. l.by \in Sends /\ l.id \in TokenIds
  BY LockFields DEF IInv
<1>3. /\ tx[l.by]["mint"].id = l.id /\ tx[l.by]["mint"].status = "ok"
  BY <1>k, <1>1, <1>2, SentFacts DEF IInv, LockOf, Sent
<1>4. token[tx[l.by]["mint"].chain][l.id].doc = l.by
  BY <1>2, <1>3, NoneAssumption DEF IInv, MintedToken
<1>5. token[l.chain][l.id].doc = l.doc
  BY DEF IInv, LockKept
<1>6. \A m \in locks : m.by = l.by \/ (m.chain = l.chain /\ m.id = l.id) => m = l
  BY DEF IInv, LocksDiffer
<1> QED
  BY <1>1, <1>4, <1>5, <1>6 DEF LockOf, BridgeOf, Home

(* Every TokenLocked event is of one transfer that the page sent, with the   *)
(* account, contact and bridge of that send, and of the token it minted.     *)
THEOREM LocksAsSent == Spec => []LockedAsSent
  BY Inductive, LockedSafe, PTL

(* A send that the page reports done, on the chain of its bridge, has its    *)
(* document locked there.                                                   *)
THEOREM DoneLocks == Spec => []DoneIsLocked
<1>1. ASSUME IInv PROVE DoneIsLocked
  <2> SUFFICES ASSUME NEW s \in Sends, flow[s].at = "done", MintedAt(s, Home(s)),
                      tx[s]["transfer"].chain = Home(s)
               PROVE  \E l \in locks : l.by = s /\ l.doc = s
    BY DEF DoneIsLocked
  <2>1. tx[s]["transfer"].status = "ok"
    BY <1>1 DEF IInv, FlowsInOrder, InOrder
  <2>2. PICK l \in locks : l.by = s
    BY <1>1, <2>1 DEF IInv, TransferLocked
  <2>3. l.chain = Home(s) /\ (tx[s]["mint"].chain = l.chain => l.doc = s)
    BY <1>1, <2>2, LockedSafe DEF LockedAsSent
  <2> QED
    BY <2>2, <2>3 DEF MintedAt
<1> QED
  BY <1>1, Inductive, PTL

(* What an answer of /scan/contact lists is a transfer that the account of    *)
(* the request signed, for the contact asked for.                            *)
THEOREM ListedSent == Spec => []ListedIsSent
<1>1. ASSUME IInv PROVE ListedIsSent
  <2> SUFFICES ASSUME NEW q \in Scans, NEW l \in scan[q].items
               PROVE  /\ l \in locks
                      /\ flow[l.by].signer = scan[q].account /\ flow[l.by].to = scan[q].contact
                      /\ BridgeOf(l.by) = BridgeByNetwork[scan[q].network]
    BY DEF ListedIsSent
  <2>1. l \in locks /\ Found(q, l)
    BY <1>1 DEF IInv, ScanExact
  <2>2. /\ l.sender = flow[l.by].signer /\ l.to = flow[l.by].to
        /\ l.bridge = BridgeOf(l.by)
    BY <1>1, <2>1, LockedSafe DEF LockedAsSent
  <2> QED
    BY <2>1, <2>2 DEF Found, InRange
<1> QED
  BY <1>1, Inductive, PTL

(* An answer that lost no transaction has every document of the account for  *)
(* the contact that is in the blocks of the window, for any window.          *)
THEOREM SentListed == Spec => []SentIsListed
<1>1. ASSUME IInv PROVE SentIsListed
  <2> SUFFICES ASSUME NEW q \in Scans, NEW l \in locks, scan[q].at = "answered",
                      scan[q].lost = {},
                      l.sender = scan[q].account, l.to = scan[q].contact,
                      l.bridge = BridgeByNetwork[scan[q].network],
                      l.chain = RpcByNetwork[scan[q].network],
                      l.block <= scan[q].latest, scan[q].latest <= l.block + Window
               PROVE  l \in scan[q].items
    BY DEF SentIsListed
  <2>1. scan[q].latest \in Nat /\ l.block \in Nat /\ Window \in Nat
    BY <1>1, LockFields, BoundAssumption DEF IInv, TypeOK, Scan
  <2> DEFINE range == NormalizeRange(0, 0, scan[q].latest)
  <2>2. /\ range.to = scan[q].latest
        /\ range.from = IF scan[q].latest > Window THEN scan[q].latest - Window ELSE 0
    BY <2>1, DefaultRange
  <2>3. l.block \in range.from .. range.to
    BY <2>1, <2>2
  <2> QED
    BY <1>1, <2>3 DEF IInv, ScanExact, Found, InRange
<1> QED
  BY <1>1, Inductive, PTL
=============================================================================
