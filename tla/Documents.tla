----------------------------- MODULE Documents -----------------------------
(***************************************************************************)
(* What requests about documents are answered: POST /files/send, POST        *)
(* /scan/contact and the listing behind GET /nfts, after LoadConfig has read *)
(* the environment (config/config.go, handlers/files.go, handlers/scan.go,   *)
(* scan/tx_scanner.go, nftscan/).                                           *)
(*                                                                         *)
(* ContactBook and SendFlow have the control of these requests; here is what *)
(* they compute, each request in one step: the network's bridge, the token   *)
(* URI, the range of blocks, the filters and what is read from a URI.  One   *)
(* account, Me, sends and scans; every RPC URL leads to one chain.           *)
(***************************************************************************)
EXTENDS TokenURI

CONSTANTS
  Me,
  Recipients,    \* addresses that receive documents
  Zero,          \* the zero address
  Networks, Blank,
  Spellings,     \* how a network may be written
  Norm,          \* ToLower(TrimSpace(_)) of each
  Environments,  \* the environments the server is started in
  Length,        \* bound: the events that are locked, per environment
  FilesIn,       \* bound: names of the files that are sent, per length
  OthersIn,      \* bound: other events that are locked, per length
  Sizes, Limit,  \* of files, and what ioReadAllLimit accepts
  MaxBlock,      \* bound on the chain
  Modulus,       \* of uint64
  DefaultWindow, \* in blocks, where SCAN_WINDOW gives none
  Questions,     \* requests to /scan/contact
  NoValue

ASSUME NormAssumption == Norm \in [Spellings -> Networks \cup {Blank}]
ASSUME RangeAssumption == /\ Modulus \in Nat \ {0}
                          /\ DefaultWindow \in 1 .. Modulus - 1
                          /\ MaxBlock \in 0 .. Modulus - 1
ASSUME WindowAssumption == \A e \in Environments : e.window = NoValue \/ e.window \in Int
ASSUME LengthAssumption == Length \in [Environments -> Nat]
ASSUME FilesAssumption == /\ \A n \in DOMAIN FilesIn : FilesIn[n] \subseteq Seq(STRING)
                          /\ Sizes \subseteq Nat /\ Limit \in Nat
ASSUME BridgesAssumption == \A e \in Environments : e.bridges \in Seq(ToSet(e.bridges))
ASSUME QuestionsAssumption == \A q \in Questions : {q.from, q.to} \subseteq 0 .. Modulus - 1

VARIABLES
  env,    \* the environment the server was started in, NoValue before
  config, \* its Config; NoValue: it did not start
  chain,  \* TokenLocked events of the bridges, in the order of the chain
  latest, \* the latest block
  reply   \* the answer under way to a client

docsVars == <<env, config, chain, latest, reply>>

DocsInit == /\ env = NoValue
            /\ config = NoValue
            /\ chain = <<>>
            /\ latest = 0
            /\ reply = NoValue

-----------------------------------------------------------------------------
(* LoadConfig.  The pairs of a variable are sequences of two; a value that   *)
(* is NoValue is missing or malformed.                                      *)

GoodPair(p) == p[1] # NoValue /\ p[2] # NoValue

Put(m, p) == [k \in DOMAIN m \cup {p[1]} |-> IF k = p[1] THEN p[2] ELSE m[k]]

MapOf(pairs) == FoldLeft(Put, <<>>, pairs)

AsWritten(pairs) == pairs                      \* fault: keys are not normalised
Normalised(pairs) == [i \in DOMAIN pairs |-> <<Norm[pairs[i][1]], pairs[i][2]>>]

Loadable(e) ==
  /\ e.dsn # NoValue /\ e.secret # NoValue
  /\ e.rpcUrls # <<>>
  /\ \A p \in ToSet(e.rpcUrls) : GoodPair(p)
  /\ \A p \in ToSet(e.bridges) : GoodPair(p) /\ Norm[p[1]] # Blank
  /\ e.rpcs # NoValue

(* RPC_BY_NETWORK is an object: two of its keys may be one network, and the   *)
(* order in which a map is read is random.                                  *)
RpcMaps(e) ==
  LET named == {k \in DOMAIN e.rpcs : Norm[k] # Blank /\ e.rpcs[k] # NoValue}
  IN {m \in [{Norm[k] : k \in named} -> {e.rpcs[k] : k \in named}] :
        \A n \in DOMAIN m : \E k \in named : Norm[k] = n /\ m[n] = e.rpcs[k]}

(* Bound: the server restarts only while nothing is locked.                  *)
LoadConfig(e) ==
  /\ reply = NoValue /\ chain = <<>>
  /\ env' = e
  /\ IF Loadable(e)
     THEN \E m \in RpcMaps(e) :
            config' = [byChain |-> MapOf(e.rpcUrls),
                       bridges |-> MapOf(Normalised(e.bridges)), rpcs |-> m]
     ELSE config' = NoValue
  /\ UNCHANGED <<chain, latest, reply>>

-----------------------------------------------------------------------------
(* SendFile                                                                 *)

ReadToLimit(size) == Min({size, Limit})         \* fault: LimitedReader{N: limit}
ReadAll(size) == Min({size, Limit + 1})

SendReply(s, filename, size) ==
  IF ReadAll(size) > Limit THEN [of |-> "send", error |-> "too large", size |-> size]
  ELSE IF Norm[s] \notin DOMAIN config.bridges
  THEN [of |-> "send", error |-> "no bridge", network |-> s]
  ELSE [of |-> "send", error |-> "none", network |-> s, bridge |-> config.bridges[Norm[s]],
        size |-> size, sealed |-> ReadAll(size), filename |-> filename,
        uri |-> TokenURIOf(Len(chain) + 1, filename)]

MoreEvents == config # NoValue /\ Len(chain) < Length[env]

SendFile(s, filename, size) ==
  /\ MoreEvents /\ reply = NoValue
  /\ filename \in FilesIn[Length[env]]
  /\ reply' = SendReply(s, filename, size)
  /\ UNCHANGED <<env, config, chain, latest>>

-----------------------------------------------------------------------------
(* The chain.  token: the URI that tokenURI returns for the token;           *)
(* filename: what was sent, NoValue for what was not sent here.             *)

Fresh == 1 .. Length[env] \ {chain[i].tx : i \in DOMAIN chain}

Event(t, b, e, filename) ==
  [tx |-> t, block |-> b, filename |-> filename,
   bridge |-> e.bridge, sender |-> e.sender, signer |-> e.signer, direct |-> e.direct,
   recipient |-> e.recipient, nft |-> e.nft, uri |-> e.uri, token |-> e.token]

Lock(e, filename) ==
  /\ \E t \in Fresh, b \in {latest, latest + 1} :
       /\ b \in 1 .. MaxBlock
       /\ latest' = b
       /\ chain' = Append(chain, Event(t, b, e, filename))
  /\ reply' = NoValue
  /\ UNCHANGED <<env, config>>

LockSent(r) ==
  /\ reply # NoValue /\ reply.of = "send" /\ reply.error = "none"
  /\ Lock([bridge |-> reply.bridge, sender |-> Me, signer |-> Me, direct |-> TRUE,
           recipient |-> r, nft |-> "ours", uri |-> reply.uri, token |-> reply.uri],
          reply.filename)

LockOther(e) ==
  /\ MoreEvents /\ reply = NoValue
  /\ e \in OthersIn[Length[env]]
  /\ Lock(e, NoValue)

Mine == /\ latest < MaxBlock /\ reply = NoValue
        /\ latest' = latest + 1
        /\ UNCHANGED <<env, config, chain, reply>>

-----------------------------------------------------------------------------
(* ScanByContact and ScanTransfers                                          *)

Minus(a, b) == IF b <= a THEN a - b ELSE a - b + Modulus

(* SCAN_WINDOW: parseUint takes any integer, and Uint64 its low bits.        *)
WindowOf(v) ==
  IF v = NoValue THEN DefaultWindow
  ELSE IF v < 0 \/ v % Modulus = 0 THEN DefaultWindow
  ELSE v % Modulus

ReachBackFrom0(to, window) == Minus(to, window)   \* fault: no look at the length of the chain
ReachBack(to, window) == IF to > window THEN Minus(to, window) ELSE 0

NormalizeRange(from, to, last, window) ==
  LET t == IF to = 0 THEN last ELSE to
      f == IF from = 0 THEN ReachBack(t, window) ELSE from
  IN IF f > t THEN <<t, f>> ELSE <<f, t>>

Listed(q, range, e) ==
  /\ e.bridge = config.bridges[Norm[q.network]]
  /\ e.block \in range[1] .. range[2]
  /\ e.sender = Me
  /\ q.recipient \in {Zero, e.recipient}
  /\ e.direct /\ e.signer = Me
  /\ q.nft \in {NoValue, e.nft}

ItemOf(e) == [tx |-> e.tx, block |-> e.block,
              read |-> ReadBySender(IF e.uri = Empty THEN e.token ELSE e.uri)]

Newer(i, j) == IF i.block = j.block THEN i.tx > j.tx ELSE i.block > j.block

NewestFirst(items) ==
  CHOOSE s \in SetToSeqs(items) : \A i, j \in DOMAIN s : i < j => Newer(s[i], s[j])

ScanReply(q) ==
  IF Norm[q.network] \notin DOMAIN config.bridges
  THEN [of |-> "scan", error |-> "no bridge", network |-> q.network]
  ELSE IF Norm[q.network] \notin DOMAIN config.rpcs
  THEN [of |-> "scan", error |-> "no rpc", network |-> q.network]
  ELSE LET range == NormalizeRange(q.from, q.to, latest, WindowOf(env.window))
           events == {e \in ToSet(chain) : Listed(q, range, e)}
       IN [of |-> "scan", error |-> "none", network |-> q.network, q |-> q,
           bridge |-> config.bridges[Norm[q.network]],
           url |-> config.rpcs[Norm[q.network]],
           items |-> NewestFirst({ItemOf(e) : e \in events})]

ScanByContact(q) ==
  /\ config # NoValue /\ reply = NoValue
  /\ reply' = ScanReply(q)
  /\ UNCHANGED <<env, config, chain, latest>>

(* ListByOwner: the bridge has minted the tokens that were locked for r on   *)
(* the network of the watcher, with their URIs.  Their order is NftWatcher's. *)
ListReply(r) ==
  [of |-> "list", error |-> "none",
   items |-> [i \in {j \in DOMAIN chain : chain[j].recipient = r} |->
                [tx |-> chain[i].tx, read |-> ReadByRecipient(chain[i].uri)]]]

ListByOwner(r) ==
  /\ config # NoValue /\ reply = NoValue
  /\ reply' = ListReply(r)
  /\ UNCHANGED <<env, config, chain, latest>>

Receive == /\ reply # NoValue
           /\ reply' = NoValue
           /\ UNCHANGED <<env, config, chain, latest>>

DocsNext == \/ \E e \in Environments : LoadConfig(e)
            \/ \E s \in Spellings, size \in Sizes :
                 \E f \in UNION {FilesIn[n] : n \in DOMAIN FilesIn} : SendFile(s, f, size)
            \/ \E r \in Recipients : LockSent(r) \/ ListByOwner(r)
            \/ \E e \in UNION {OthersIn[n] : n \in DOMAIN OthersIn} : LockOther(e)
            \/ \E q \in Questions : ScanByContact(q)
            \/ Mine \/ Receive

DocsSpec == DocsInit /\ [][DocsNext]_docsVars

-----------------------------------------------------------------------------
(* Properties                                                               *)

Replied(of) == reply # NoValue /\ reply.of = of /\ reply.error = "none"

(* The blocks a question is about, by the integers: between the two that are *)
(* given, in either order; without the first, those that the last one is at  *)
(* most a window past; without the second, up to the latest.                 *)
InQuestion(q, b) ==
  LET t == IF q.to = 0 THEN latest ELSE q.to
  IN IF q.from = 0 THEN b <= t /\ t <= b + WindowOf(env.window)
     ELSE b \in q.from .. t \/ b \in t .. q.from

AskedAbout(q, bridge, e) ==
  /\ e.bridge = bridge /\ InQuestion(q, e.block)
  /\ {e.sender, e.signer} = {Me} /\ e.direct
  /\ q.recipient # Zero => e.recipient = q.recipient
  /\ q.nft # NoValue => e.nft = q.nft

(* A scan lists exactly the documents that Me locked, by a transaction that   *)
(* it signed itself, for the contact asked about (for anybody, if that is    *)
(* the zero address) in the blocks asked about, newest first, whatever the    *)
(* bounds and the window are (ScanTransfers, normalizeRange).                *)
ScanAnswersQuestion ==
  Replied("scan") =>
    LET asked == {e \in ToSet(chain) : AskedAbout(reply.q, reply.bridge, e)}
    IN /\ {reply.items[i].tx : i \in DOMAIN reply.items} = {e.tx : e \in asked}
       /\ Len(reply.items) = Cardinality(asked)
       /\ \A i, j \in DOMAIN reply.items : i < j => Newer(reply.items[i], reply.items[j])

(* A file that is sent is sealed whole.  Its sender finds it under the name   *)
(* it was given, but for spaces around it, and a link to what was uploaded;   *)
(* so does its recipient, except that a name in which "+" or "%" stand and    *)
(* could be taken for escapes is unescaped once more (SendFile, parseNameCid, *)
(* parseTokenURI).                                                          *)
SentName(e) == TrimSpace(NameEnc(e.filename))
KeepsName(s) == WellFormed(s) => \A i \in DOMAIN s : s[i] \notin {"+", "%"}

DocumentReadAsSent ==
  /\ Replied("send") => reply.sealed = reply.size
  /\ \A of \in {"scan", "list"} : Replied(of) =>
       \A i \in DOMAIN reply.items : \A e \in ToSet(chain) :
         e.tx = reply.items[i].tx /\ e.filename # NoValue =>
           LET read == reply.items[i].read
           IN /\ read.cid = e.uri.cid
              /\ read.link = [gateway |-> e.uri.cid]
              /\ (read.name = [text |-> SentName(e)]) <=> (of = "scan" \/ KeepsName(SentName(e)))

(* However a network is spelled, in the environment or by a contact, sending  *)
(* to it and scanning it use one bridge, that of the last pair that names     *)
(* the network, or say that none does; and the scan reads the chain of an     *)
(* RPC URL that is given for the network (LoadConfig, SendFile,              *)
(* ScanByContact).                                                          *)
Naming(s) == {i \in DOMAIN env.bridges : Norm[env.bridges[i][1]] = Norm[s]}

NetworkFound ==
  reply # NoValue /\ "network" \in DOMAIN reply =>
    IF reply.error = "none"
    THEN /\ reply.bridge = env.bridges[Max(Naming(reply.network))][2]
         /\ reply.of = "scan" => \E k \in DOMAIN env.rpcs : /\ Norm[k] = Norm[reply.network]
                                                           /\ reply.url = env.rpcs[k]
    ELSE reply.error = "no bridge" <=> Naming(reply.network) = {}
=============================================================================
