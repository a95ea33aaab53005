------------------------------ MODULE SendFlow ------------------------------
(***************************************************************************)
(* Sending a document through the wallet (frontend/static/index.html,       *)
(* doSendFlow) and looking for what was sent (handlers/scan.go,             *)
(* scan/tx_scanner.go).  The page uploads the file, then has the wallet     *)
(* sign three transactions, waiting for each: the mint of a token that      *)
(* carries the document, an approval of the bridge, and the transfer to the *)
(* bridge, which locks the token and emits TokenLocked.                     *)
(*                                                                         *)
(* Everything that the page waits for takes its time.  Meanwhile the user   *)
(* selects another account or chain in the wallet, which all tabs share,    *)
(* signs in as somebody else, sends from another tab, or closes the page,   *)
(* which forgets the flow but not the transactions it has sent.             *)
(*                                                                         *)
(* The contracts are not part of the repository: they do what the page and  *)
(* the scanner expect of them, on the chains they are deployed on.  A call  *)
(* to an address without a contract succeeds and does nothing.              *)
(***************************************************************************)
EXTENDS Naturals

CONSTANTS
  Accounts,         \* accounts of the wallet
  Recipients,       \* addresses of contacts
  Chains,
  NftChains,        \* chains with the contract that NFT_ADDR names
  Networks,         \* values of contact_network that have a bridge
  Bridges,
  BridgeByNetwork,  \* cfg.BridgeByNetwork
  BridgeChain,      \* the chain each bridge is deployed on
  RpcByNetwork,     \* the chain behind cfg.RPCByNetwork
  Pages,            \* tabs
  Sends,            \* supply of sends; also names the document of each
  Scans,            \* supply of requests to /scan/contact
  TokenIds,         \* supply of token ids, per chain
  Window,           \* SCAN_WINDOW
  MaxActs,          \* bound on sign-ins, sign-outs and selections in the wallet
  MaxFaults,        \* bound on refusals, closed pages and failures from outside
  MaxHead,          \* bound on the blocks of each chain
  None

(* The transactions of a send, in their order.                              *)
Kinds == {"mint", "approve", "transfer"}
After == [mint |-> "approve", approve |-> "transfer", transfer |-> "done"]
(* sent: the file is under way to /files/send, or its answer is there; then  *)
(* a stage per transaction.                                                 *)
Active == {"sent"} \cup Kinds

Login == [account : Accounts, chain : Chains]
(* page is where it runs, until it ends; chain is that of the access token   *)
(* the upload was made with, the chainId of the answer.  The answer's from,  *)
(* the account of that token, is not here: the page does not look at it.     *)
Flow == [at : {"idle", "done", "failed"} \cup Active,
         page : Pages \cup {None}, chain : Chains \cup {None}, to : Recipients \cup {None},
         network : Networks \cup {None}, signer : Accounts \cup {None},
         token : TokenIds \cup {None}]
(* id is the token a transaction is about: of a mint, the one in its receipt. *)
Tx == [status : {"unsent", "pending", "ok", "reverted"},
       chain : Chains \cup {None}, id : TokenIds \cup {None}]
Token == [doc : Sends, owner : Accounts \cup Bridges, approved : Bridges \cup {None}]
(* A TokenLocked event and its transaction; by, a history field, is the send *)
(* that made it.                                                            *)
Lock == [by : Sends, chain : Chains, block : Nat, bridge : Bridges, id : TokenIds,
         sender : Accounts, to : Recipients, doc : Sends]
(* items are the documents found; lost, a history field, the events whose    *)
(* transaction could not be fetched.                                        *)
Scan == [at : {"idle", "logs", "answered", "failed"}, account : Accounts \cup {None},
         contact : Recipients \cup {None}, network : Networks \cup {None},
         latest : Nat, items : SUBSET Lock, lost : SUBSET Lock]

ASSUME ConfigAssumption == /\ NftChains \subseteq Chains
                           /\ BridgeByNetwork \in [Networks -> Bridges]
                           /\ BridgeChain \in [Bridges -> Chains]
                           /\ RpcByNetwork \in [Networks -> Chains]
ASSUME BoundAssumption == /\ Window \in Nat /\ MaxActs \in Nat /\ MaxFaults \in Nat
                          /\ MaxHead \in [Chains -> Nat]
ASSUME NoneAssumption == /\ None \notin Login /\ None \notin Token
                         /\ None \notin Pages /\ None \notin Accounts
                         /\ None \notin Chains /\ None \notin Recipients
                         /\ None \notin Networks /\ None \notin TokenIds
                         /\ None \notin Bridges
ASSUME AddressAssumption == Accounts \cap Bridges = {}

VARIABLES
  acts,     \* sign-ins, sign-outs and selections so far
  faults,
  session,  \* the login whose tokens the pages send; None: signed out
  wallet,   \* the account and the chain selected in MetaMask
  flow,     \* per send, where doSendFlow is
  tx,       \* per send and kind, the transaction
  token,    \* per chain with the NFT contract, its tokens
  head,     \* per chain, its latest block
  locks,    \* the TokenLocked events of all chains
  scan      \* per request, ScanByContact and its answer

vars == <<acts, faults, session, wallet, flow, tx, token, head, locks, scan>>

NoFlow == [at |-> "idle", page |-> None, chain |-> None, to |-> None,
           network |-> None, signer |-> None, token |-> None]
NoTx == [status |-> "unsent", chain |-> None, id |-> None]
NoScan == [at |-> "idle", account |-> None, contact |-> None, network |-> None,
           latest |-> 0, items |-> {}, lost |-> {}]

TypeOK == /\ session \in Login \cup {None}
          /\ wallet \in Login
          /\ acts \in 0 .. MaxActs /\ faults \in 0 .. MaxFaults
          /\ flow \in [Sends -> Flow]
          /\ tx \in [Sends -> [Kinds -> Tx]]
          /\ token \in [NftChains -> [TokenIds -> Token \cup {None}]]
          /\ head \in [Chains -> Nat]
          /\ locks \in SUBSET Lock
          /\ scan \in [Scans -> Scan]

Init == /\ session \in Login \cup {None}
        /\ wallet \in Login
        /\ acts = 0 /\ faults = 0
        /\ flow = [s \in Sends |-> NoFlow]
        /\ tx = [s \in Sends |-> [k \in Kinds |-> NoTx]]
        /\ token = [c \in NftChains |-> [i \in TokenIds |-> None]]
        /\ head = [c \in Chains |-> 0]
        /\ locks = {}
        /\ scan = [q \in Scans |-> NoScan]
-----------------------------------------------------------------------------
(* The user.                                                                *)

Act == acts < MaxActs /\ acts' = acts + 1
Fault == faults < MaxFaults /\ faults' = faults + 1

(* siweLogin: the chain chosen on the page, the account the wallet has.      *)
SignIn(c) == /\ Act
             /\ wallet' = [wallet EXCEPT !.chain = c]
             /\ session' = [account |-> wallet.account, chain |-> c]
             /\ UNCHANGED <<faults, flow, tx, token, head, locks, scan>>

SignOut == /\ Act
           /\ session # None
           /\ session' = None
           /\ UNCHANGED <<faults, wallet, flow, tx, token, head, locks, scan>>

(* In MetaMask, at any time.                                                *)
Select(a, c) == /\ Act
                /\ wallet' = [account |-> a, chain |-> c]
                /\ UNCHANGED <<faults, session, flow, tx, token, head, locks, scan>>
-----------------------------------------------------------------------------
(* doSendFlow, from await to await.                                         *)

SetFlow(s, f) == flow' = [flow EXCEPT ![s] = f]
SetTx(s, k, t) == tx' = [tx EXCEPT ![s][k] = t]

(* btnSendDo, which stays disabled while a flow runs, and /files/send as far *)
(* as it succeeds (ContactBook has the rest): the answer depends on the      *)
(* access token and the contact only.                                       *)
Send(s, p, r, n) ==
  /\ flow[s].at = "idle" /\ session # None
  /\ \A o \in Sends : flow[o].page # p
  /\ SetFlow(s, [at |-> "sent", page |-> p, chain |-> session.chain, to |-> r,
                 network |-> n, signer |-> None, token |-> None])
  /\ UNCHANGED <<acts, faults, session, wallet, tx, token, head, locks, scan>>

(* The wallet is asked to go to the chain of the answer, then for its        *)
(* account: another account may as well have been selected before.           *)
Connect(s) == /\ flow[s].at = "sent"
              /\ wallet' = [wallet EXCEPT !.chain = flow[s].chain]
              /\ SetFlow(s, [flow[s] EXCEPT !.at = "mint", !.signer = wallet.account])
              /\ UNCHANGED <<acts, faults, session, tx, token, head, locks, scan>>

(* What approve and transfer are called with.  A bug: the latest token of    *)
(* the signer on the wallet's chain instead of the one in the receipt.       *)
TokenOfSigner(s) ==
  LET c == wallet.chain
      Own == {i \in TokenIds : /\ c \in NftChains
                               /\ token[c][i] # None
                               /\ token[c][i].owner = flow[s].signer}
  IN IF Own = {} THEN flow[s].token ELSE CHOOSE i \in Own : TRUE
TokenSent(s) == flow[s].token

(* The wallet signs for the signer of the flow and submits to its own chain. *)
Sign(s, k) ==
  /\ flow[s].at = k /\ tx[s][k].status = "unsent"
  /\ SetTx(s, k, [status |-> "pending", chain |-> wallet.chain,
                  id |-> IF k = "mint" THEN None ELSE TokenSent(s)])
  /\ UNCHANGED <<acts, faults, session, wallet, flow, token, head, locks, scan>>

(* wait() gives the receipt of a transaction that succeeded.  A bug: of one  *)
(* that is in a block.                                                      *)
InBlock(s, k) == tx[s][k].status \in {"ok", "reverted"}
Confirmed(s, k) == tx[s][k].status = "ok"

(* The page sees a receipt while the wallet is on its chain.  Without a      *)
(* Transfer event in it, doSendFlow throws after the mint.                   *)
Continue(s, k) ==
  /\ flow[s].at = k /\ Confirmed(s, k) /\ wallet.chain = tx[s][k].chain
  /\ k = "mint" => tx[s][k].id # None
  /\ SetFlow(s, [flow[s] EXCEPT !.at = After[k], !.page = IF k = "transfer" THEN None ELSE @,
                                !.token = IF k = "mint" THEN tx[s][k].id ELSE @])
  /\ UNCHANGED <<acts, faults, session, wallet, tx, token, head, locks, scan>>

(* wait() throws for a transaction that reverted, and so does the page for a *)
(* mint whose receipt has no token.                                         *)
Throw(s, k) == /\ flow[s].at = k
               /\ \/ tx[s][k].status = "reverted"
                  \/ k = "mint" /\ tx[s][k].status = "ok" /\ tx[s][k].id = None
               /\ SetFlow(s, [flow[s] EXCEPT !.at = "failed", !.page = None])
               /\ UNCHANGED <<acts, faults, session, wallet, tx, token, head, locks, scan>>

(* The user refuses, a call fails, or the page is closed: nothing of the     *)
(* flow is kept, and a new send starts from the upload.                      *)
GiveUp(s) == /\ flow[s].at \in Active /\ Fault
             /\ SetFlow(s, [flow[s] EXCEPT !.at = "failed", !.page = None])
             /\ UNCHANGED <<acts, session, wallet, tx, token, head, locks, scan>>
-----------------------------------------------------------------------------
(* The chains.  A pending transaction is mined whatever became of the page.  *)

BridgeOf(s) == BridgeByNetwork[flow[s].network]
Pending(s, k) == tx[s][k].status = "pending"
Settle(s, k, how) == SetTx(s, k, [tx[s][k] EXCEPT !.status = how])
SetToken(c, i, t) == token' = [token EXCEPT ![c][i] = t]

(* createToken(tokenURI): a new token of the caller.                         *)
Mint(s) ==
  /\ Pending(s, "mint") /\ tx[s]["mint"].chain \in NftChains
  /\ \E i \in TokenIds :
       /\ token[tx[s]["mint"].chain][i] = None
       /\ SetToken(tx[s]["mint"].chain, i,
                   [doc |-> s, owner |-> flow[s].signer, approved |-> None])
       /\ SetTx(s, "mint", [tx[s]["mint"] EXCEPT !.status = "ok", !.id = i])
  /\ UNCHANGED <<acts, faults, session, wallet, flow, head, locks, scan>>

(* What the contracts ask of the caller.                                    *)
Holds(s, c, i) == token[c][i] # None /\ token[c][i].owner = flow[s].signer
MayApprove(s, c, i) == c \in NftChains /\ Holds(s, c, i)
MayTransfer(s, c, i) == /\ c \in NftChains /\ c = BridgeChain[BridgeOf(s)]
                        /\ Holds(s, c, i) /\ token[c][i].approved = BridgeOf(s)

Approve(s) ==
  LET c == tx[s]["approve"].chain  i == tx[s]["approve"].id IN
  /\ Pending(s, "approve") /\ MayApprove(s, c, i)
  /\ SetToken(c, i, [token[c][i] EXCEPT !.approved = BridgeOf(s)])
  /\ Settle(s, "approve", "ok")
  /\ UNCHANGED <<acts, faults, session, wallet, flow, head, locks, scan>>

(* transferNFTToContract: the bridge takes the token and emits TokenLocked   *)
(* with its token URI, in a new block.                                      *)
LockBy(s, c, i) ==
  [by |-> s, chain |-> c, block |-> head[c] + 1, bridge |-> BridgeOf(s), id |-> i,
   sender |-> flow[s].signer, to |-> flow[s].to, doc |-> token[c][i].doc]
Transfer(s) ==
  LET c == tx[s]["transfer"].chain  i == tx[s]["transfer"].id IN
  /\ Pending(s, "transfer") /\ MayTransfer(s, c, i)
  /\ head[c] < MaxHead[c]
  /\ head' = [head EXCEPT ![c] = @ + 1]
  /\ locks' = locks \cup {LockBy(s, c, i)}
  /\ SetToken(c, i, [token[c][i] EXCEPT !.owner = BridgeOf(s), !.approved = None])
  /\ Settle(s, "transfer", "ok")
  /\ UNCHANGED <<acts, faults, session, wallet, flow, scan>>

(* On a chain without the contract called, which is the bridge for transfer. *)
NoContract(s, k) == IF k = "transfer" THEN tx[s][k].chain # BridgeChain[BridgeOf(s)]
                                      ELSE tx[s][k].chain \notin NftChains
Nothing(s, k) == /\ Pending(s, k) /\ NoContract(s, k)
                 /\ Settle(s, k, "ok")
                 /\ UNCHANGED <<acts, faults, session, wallet, flow, token, head, locks, scan>>

(* A contract refuses, or a transaction fails for a reason of its own.       *)
Refused(s, k) ==
  /\ Pending(s, k) /\ ~NoContract(s, k)
  /\ \/ k = "approve" /\ ~MayApprove(s, tx[s][k].chain, tx[s][k].id)
     \/ k = "transfer" /\ ~MayTransfer(s, tx[s][k].chain, tx[s][k].id)
  /\ Settle(s, k, "reverted")
  /\ UNCHANGED <<acts, faults, session, wallet, flow, token, head, locks, scan>>

Revert(s, k) == /\ Pending(s, k) /\ Fault
                /\ Settle(s, k, "reverted")
                /\ UNCHANGED <<acts, session, wallet, flow, token, head, locks, scan>>

NewBlock(c) == /\ head[c] < MaxHead[c]
               /\ head' = [head EXCEPT ![c] = @ + 1]
               /\ UNCHANGED <<acts, faults, session, wallet, flow, tx, token, locks, scan>>
-----------------------------------------------------------------------------
(* ScanByContact.                                                           *)

(* normalizeRange: 0 stands for the latest block and for the start of the    *)
(* window.  A bug: a window of one block less.                              *)
ShortRange(from, to, latest) ==
  [from |-> IF latest > Window THEN latest - Window + 1 ELSE 0, to |-> latest]
NormalizeRange(from, to, latest) ==
  LET t == IF to = 0 THEN latest ELSE to
      f == IF from # 0 THEN from ELSE IF t > Window THEN t - Window ELSE 0
  IN IF f > t THEN [from |-> t, to |-> f] ELSE [from |-> f, to |-> t]

SetScan(q, r) == scan' = [scan EXCEPT ![q] = r]

(* The page asks for the contact selected; the first call is BlockNumber.    *)
StartScan(q, r, n) ==
  /\ scan[q].at = "idle" /\ session # None
  /\ SetScan(q, [at |-> "logs", account |-> session.account, contact |-> r, network |-> n,
                 latest |-> head[RpcByNetwork[n]], items |-> {}, lost |-> {}])
  /\ UNCHANGED <<acts, faults, session, wallet, flow, tx, token, head, locks>>

(* What FilterLogs returns for the default range, of the sender and the      *)
(* contact.  A bug: of the sender, to anybody.                              *)
InRange(q, l) ==
  LET range == NormalizeRange(0, 0, scan[q].latest)
  IN /\ l.chain = RpcByNetwork[scan[q].network] /\ l.block \in range.from .. range.to
     /\ l.bridge = BridgeByNetwork[scan[q].network]
FoundOfSender(q, l) == InRange(q, l) /\ l.sender = scan[q].account
Found(q, l) == InRange(q, l) /\ l.sender = scan[q].account /\ l.to = scan[q].contact

(* FilterLogs, then TransactionByHash for each event: one that fails leaves  *)
(* the event out of an answer that is otherwise in order.                    *)
AnswerScan(q) ==
  /\ scan[q].at = "logs"
  /\ \E lost \in SUBSET {l \in locks : Found(q, l)} :
       /\ IF lost = {} THEN UNCHANGED faults ELSE Fault
       /\ SetScan(q, [scan[q] EXCEPT !.at = "answered", !.lost = lost,
                                     !.items = {l \in locks : Found(q, l)} \ lost])
  /\ UNCHANGED <<acts, session, wallet, flow, tx, token, head, locks>>

FailScan(q) == /\ scan[q].at = "logs" /\ Fault
               /\ SetScan(q, [scan[q] EXCEPT !.at = "failed"])
               /\ UNCHANGED <<acts, session, wallet, flow, tx, token, head, locks>>
-----------------------------------------------------------------------------
UserStep == \/ SignOut
            \/ \E c \in Chains : SignIn(c)
            \/ \E a \in Accounts, c \in Chains : Select(a, c)
PageStep(s) == \/ \E p \in Pages, r \in Recipients, n \in Networks : Send(s, p, r, n)
               \/ Connect(s)
               \/ \E k \in Kinds : Sign(s, k) \/ Continue(s, k) \/ Throw(s, k)
               \/ GiveUp(s)
ChainStep(s) == \/ Mint(s)
                \/ Approve(s)
                \/ Transfer(s)
                \/ \E k \in Kinds : Nothing(s, k) \/ Refused(s, k) \/ Revert(s, k)
ScanStep(q) == \/ \E r \in Recipients, n \in Networks : StartScan(q, r, n)
               \/ AnswerScan(q)
               \/ FailScan(q)
Next == \/ UserStep
        \/ \E s \in Sends : PageStep(s) \/ ChainStep(s)
        \/ \E c \in Chains : NewBlock(c)
        \/ \E q \in Scans : ScanStep(q)

Spec == Init /\ [][Next]_vars
-----------------------------------------------------------------------------
(* Properties.                                                              *)

(* The chain that the document has to be locked on.                         *)
Home(s) == BridgeChain[BridgeOf(s)]
MintedAt(s, c) == tx[s]["mint"].status = "ok" /\ tx[s]["mint"].chain = c

(* What a bridge locks, it locks for one send: from the account that signed  *)
(* it, for the contact and with the bridge that the server answered, once,   *)
(* and, unless the wallet went to another chain since the mint, the token    *)
(* with the document of this send, whatever the signer sends at the same     *)
(* time (index.html, doSendFlow: the token id in the receipt).               *)
LockedAsSent ==
  \A l \in locks :
    /\ l.sender = flow[l.by].signer /\ l.to = flow[l.by].to
    /\ l.bridge = BridgeOf(l.by) /\ l.chain = Home(l.by)
    /\ tx[l.by]["mint"].chain = l.chain => l.doc = l.by
    /\ \A m \in locks : m.by = l.by \/ (m.chain = l.chain /\ m.id = l.id) => m = l

(* When the page says that the document was sent, and mint and transfer went *)
(* to the chain of the bridge, its token is locked, whatever the other tabs  *)
(* did to it meanwhile (index.html, doSendFlow up to its last wait).         *)
DoneIsLocked ==
  \A s \in Sends :
    flow[s].at = "done" /\ MintedAt(s, Home(s)) /\ tx[s]["transfer"].chain = Home(s) =>
      \E l \in locks : l.by = s /\ l.doc = s

(* An answer for which every transaction could be fetched has each document  *)
(* the account locked for the contact in the blocks of the window, however   *)
(* the chain grew while it was made (ScanTransfers with normalizeRange).     *)
SentIsListed ==
  \A q \in Scans, l \in locks :
    /\ scan[q].at = "answered" /\ scan[q].lost = {}
    /\ l.sender = scan[q].account /\ l.to = scan[q].contact
    /\ l.bridge = BridgeByNetwork[scan[q].network]
    /\ l.chain = RpcByNetwork[scan[q].network]
    /\ l.block <= scan[q].latest /\ scan[q].latest <= l.block + Window
    => l \in scan[q].items

(* What is listed for a contact was signed by the account of the request,    *)
(* for this contact and this network's bridge (ScanTransfers, its filters).  *)
ListedIsSent ==
  \A q \in Scans : \A l \in scan[q].items :
    /\ l \in locks
    /\ flow[l.by].signer = scan[q].account /\ flow[l.by].to = scan[q].contact
    /\ BridgeOf(l.by) = BridgeByNetwork[scan[q].network]
-----------------------------------------------------------------------------
(* The inductive invariant.                                                 *)

(* f is the flow of a send, t its transactions by kind.                      *)
Sent(t, k) == t[k].status # "unsent"
Complete(f) == f.to \in Recipients /\ f.network \in Networks /\ f.chain \in Chains
Signed(f) == Complete(f) /\ f.signer \in Accounts
Minted(t) == t["mint"].status = "ok" /\ t["mint"].id # None

(* A transaction is sent after the one before it succeeded, with the token   *)
(* of the mint, also when the flow was given up since.                       *)
InOrder(f, t) ==
  /\ f.at \in {"idle", "sent"} => ~Sent(t, "mint")
  /\ f.at \in {"idle", "sent", "mint"} => ~Sent(t, "approve")
  /\ f.at \in {"idle", "sent", "mint", "approve"} => ~Sent(t, "transfer")
  /\ f.at # "idle" => Complete(f)
  /\ f.at \in Kinds \cup {"done"} => Signed(f)
  /\ \A k \in Kinds : Sent(t, k) => Signed(f) /\ t[k].chain \in Chains
  /\ f.at \in {"approve", "transfer", "done"} => Minted(t) /\ f.token = t["mint"].id
  /\ \A k \in {"approve", "transfer"} : Sent(t, k) => Minted(t) /\ t[k].id = t["mint"].id
  /\ f.at = "done" => t["transfer"].status = "ok"
FlowsInOrder == \A s \in Sends : InOrder(flow[s], tx[s])

(* The token in a receipt has the document of the send.                      *)
MintedToken ==
  \A s \in Sends :
    tx[s]["mint"].id # None =>
      /\ tx[s]["mint"].status = "ok" /\ tx[s]["mint"].chain \in NftChains
      /\ token[tx[s]["mint"].chain][tx[s]["mint"].id] # None
      /\ token[tx[s]["mint"].chain][tx[s]["mint"].id].doc = s

(* Each lock is the effect of one transfer of a flow, the only one of its    *)
(* send and of its token, which the bridge keeps.                            *)
LockOf(l, f, t) ==
  /\ t.status = "ok" /\ t.chain = l.chain /\ t.id = l.id
  /\ l.bridge = BridgeByNetwork[f.network] /\ l.chain = BridgeChain[l.bridge]
  /\ l.sender = f.signer /\ l.to = f.to
LockOfTransfer == \A l \in locks : LockOf(l, flow[l.by], tx[l.by]["transfer"])
LockKept ==
  \A l \in locks :
    /\ l.chain \in NftChains /\ token[l.chain][l.id] # None
    /\ token[l.chain][l.id].owner = l.bridge /\ token[l.chain][l.id].doc = l.doc
LocksDiffer ==
  \A l, m \in locks : l.by = m.by \/ (l.chain = m.chain /\ l.id = m.id) => l = m
LockInBlock == \A l \in locks : l.block <= head[l.chain]

TransferLocked ==
  \A s \in Sends :
    tx[s]["transfer"].status = "ok" /\ tx[s]["transfer"].chain = Home(s) =>
      \E l \in locks : l.by = s

(* An answer stays what a search of its range finds.                         *)
ScanExact ==
  \A q \in Scans :
    /\ scan[q].at # "idle" => /\ scan[q].network \in Networks
                              /\ scan[q].latest <= head[RpcByNetwork[scan[q].network]]
    /\ scan[q].items = IF scan[q].at = "answered"
                       THEN {l \in locks : Found(q, l)} \ scan[q].lost ELSE {}

IInv == /\ TypeOK /\ FlowsInOrder /\ MintedToken
        /\ LockOfTransfer /\ LockKept /\ LocksDiffer /\ LockInBlock /\ TransferLocked
        /\ ScanExact
=============================================================================
