# Formal models of bridge-web-metamask-client

The program lets a user who owns an Ethereum account send encrypted files to
other accounts. A single-page client signs in with MetaMask, keeps a contact
list on the server, has the server encrypt and upload a file to IPFS, and then
mints an NFT that points at it and hands that NFT to a bridge contract, which
delivers it on the recipient's network. The Go backend issues the login tokens,
keeps the contacts, watches the NFTs its users receive, and searches bridge
transactions for the documents a user has sent.

This directory models that program in TLA+, checks the models with TLC on
small instances, and proves the main results with TLAPS for every size.

## 1. Inventory

| Part | Source | State | Operations |
|---|---|---|---|
| Authentication service | `backend/internal/auth/`, `handlers/auth.go` | nonce map, refresh-session map, each behind a mutex held for one call; JWTs are stateless | SIWE init and verify, refresh, logout |
| NFT watcher | `nftscan/watcher.go`, `handlers/nfts.go` | users, cache and last error, behind one RWMutex | `Start`/`scanOnce` loop, `Register`, `GetOrScanNow` |
| Postgres provider, contact book | `store/postgres/`, `handlers/contacts.go`, `db/init.sql` | a pool opened once (`sync.Once`), the table `contacts` without any unique key | `Pool`, `Insert`, `List`, `GetContactKeyInfo` |
| Sending a file (server half) | `handlers/files.go`, `cryptoenc/`, `ipfs/` | none; reads contacts and configuration, uploads | `SendFile` |
| RPC clients per chain | `eth/rpc_service.go`, `handlers/me.go` | map of clients behind an RWMutex | `Client` (double-checked), `BalanceWei` |
| Transaction scanner | `scan/tx_scanner.go`, `handlers/scan.go` | none | `ScanTransfers`, `normalizeRange`, token URI lookup |
| Token URIs | `nftscan/parser.go`, `scan/tx_scanner.go`, `handlers/files.go` | none | writing and reading `ipfs://<cid>?name=<name>` |
| Web client: session | `frontend/static/index.html` | tokens in `localStorage`, shared by tabs | login, refresh on 401, logout, boot |
| Web client: views | same | the two lists and their signatures, title and text, selected contact, poll timer | clicking contacts, loading, polling, rendering |
| Web client: send flow | same | the step reached, the wallet's chain | upload, mint, approve, transfer |
| Web client: forms | same | what the user is entering | modals, file picker, list of chains |
| Configuration | `config/` | none after start-up | `LoadConfig`: variables, lists of pairs, JSON maps |
| Access middleware, CORS, wiring, health, chains | `middleware/`, `app/`, `server/` | none after start-up | |
| First version of the same program | `internal/`, `cmd/`, `static/` | | superseded by the directories above |

How they interact:

- Every HTTP request runs in a goroutine of its own. The parts of the backend
  share memory through the maps named above; each access takes a mutex for one
  map operation, and nothing is held from one access to the next.
- `SiweVerify` uses three parts in a row: it consumes a nonce, registers the
  account with the watcher, and opens the Postgres pool; only then are tokens
  issued.
- The client reaches the backend over HTTP, the chain through MetaMask, and the
  backend reaches chain nodes over RPC, Postgres, and Pinata. Each of these calls
  may fail or be slow while the rest goes on.
- Nothing but the contacts table outlives a restart of the backend. Tokens and
  messages in the hands of clients do, and so do JWTs, whose key is configuration.

What is hard here: requests that overlap between two accesses of one store;
a refresh token that is consumed before its successor exists; scans of a chain
that moves meanwhile, whose results are stored in any order; errors that are
kept (the pool's first one, the watcher's last one); a client whose responses
arrive out of order and whose tabs share tokens; a four-step send flow with no
way to resume; integer edges of block ranges. `PROJECT.json` lists each hazard
at its line.

What makes each part correct:

- *Authentication*: a session belongs to the account that signed; rotation never
  forks a login or changes its owner; a revoked login never returns; a client loses the
  nonce it was given last only where requests of its own key overlap.
- *Watcher*: an undisturbed scan is exact; a failure never costs a listing; every
  registered user is scanned; what is shown catches up with the chain.
- *Contacts and sending*: a user's request touches that user's contacts only; a
  file is encrypted for, and addressed to, the contact that was chosen; a pool is
  used only when it is open.
- *RPC clients*: one client per chain, and a failed dial leaves nothing behind.
- *Scanner*: every transfer of the sender in the range, none outside it.
- *Client*: tokens are those of the login on screen; a view shows the answer to
  its own question; the bridge locks what the page was told to send, for whom and by
  whom it was told, however many tabs, accounts and chains are involved.

## 2. Plan

In this order, the parts whose loss would hurt most first:

1. `LoginSessions` (abstract), `AuthService` (implements it), proofs. **Done.**
2. `NftWatcher`, proofs. **Done.**
3. `PoolOnce` (abstract), `ContactBook` (implements it): the Postgres provider, the
   repository, the contact handlers and `SendFile`; proofs. **Done.**
4. `RpcClients`: the double-checked client map; proof of one client per chain.
   **Done.**
5. `WebSession`: tabs, tokens, refresh on 401, logout and boot against a server
   that rotates tokens; proofs. **Done.**
6. `SendFlow`: upload, mint, approve and transfer, with refusals and a change of account
   or chain at every step, and the scan for what was sent; proofs. **Done.**
7. `WebViews`: selection, loading, polling and rendering with answers out of order;
   proofs. **Done.**
8. `TokenURI`: the name and CID written into a token URI against what the two
   readers make of it. **Done.**
9. `Documents`: what a file that is sent and a scan are answered, from the environment
   the server was started in: the configuration, the network's bridge and node, every
   range of blocks at the width of `uint64`, the order of the items, and `TokenURI` as
   they use it; proofs of all three. **Done.**

Composition: the parts of the backend meet in `SiweVerify`, so `AuthService` carries
the watcher's user set and the state of the pool, and `ContactBook` carries the access
tokens that a login leads to; `WebSession` composes the client with as much of the
server's session store as a client meets, and `SendFlow` the page with the wallet, the
contracts and the scanner that reads what they leave behind. A module states what it needs of its
neighbour instead of instantiating all of it: the product of two modules would
be checked on instances too small for either. Only liveness
stays with TLC.

| Module | Models | Proofs | Runs |
|---|---|---|---|
| `LoginSessions`, `AuthService` | authentication service | `AuthServiceProofs` | `auth`, `auth_nonce_one_time` |
| `NftWatcher` | NFT watcher | `NftWatcherProofs` | `watcher` |
| `PoolOnce`, `ContactBook` | Postgres provider, contacts, `SendFile` | `ContactBookProofs` | `contact_send`, `contact_pool`, and three that refute |
| `RpcClients` | RPC clients per chain | `RpcClientsProofs` | `reading` |
| `WebSession` | tokens of the page | `WebSessionProofs` | `web_session`, `web_listed` |
| `SendFlow` | `doSendFlow`, wallet, contracts, control of a scan | `SendFlowProofs` | `send_flow` |
| `WebViews` | what the page shows | `WebViewsProofs` | `reading` |
| `TokenURI`, `Documents` | token URIs; configuration, ranges and answers | `DocumentsProofs` | `reading` |

## 3. AuthService

State and code:

| Variable | Code |
|---|---|
| `nonces` | `NonceStore.m`, keyed by spelled address and chain (`nonceKey`) |
| `sessions` | `RefreshStore.m`; the key is the token instead of its SHA-256 |
| `vtask`, `rtask` | the local variables of each verify and refresh request |
| `users` | `Watcher.users` |
| `db` | `postgres.Provider`: not yet asked, open, or failed for good |
| `now` | the clock |
| `issued`, `minted`, `signedBy`, `revokedAt` | history: what clients hold, and when a login was revoked |
| `calm` | history: the latest nonce of each key, unless its init found a verify request between its Get and its Delete of that key |

A request is one action per store call, because a store's mutex is all that
orders requests: `VerifyGet`, `VerifyDelete`, `Register`, `Connect` and
`IssueLogin` are one POST `/auth/siwe/verify`; `Consume` and `RotateRefresh` one
POST `/auth/refresh`. The text that is signed may be the client's own: `VerifySIWE`
compares domain, URI and nonce with the stored entry of the account and chain it names,
and what is left for the client to choose is its expiration time (`SignatureValid`). Error returns are actions (`VerifyRefused`,
`IssueLoginFails`, `RotateFails`) when the request already holds or changed
something; a request refused before that is a stuttering step. `Restart` loses all
of memory and none of what clients hold.

Runs:

- `auth` (2 accounts, the spellings `0x…` and bare, 2 nonces, 3 tokens, 2 verify and 2
  refresh requests, TTLs of 1 tick, 2 ticks): two verifies of one
  nonce, a stale delete that hits the next nonce's entry, a nonce that expires between the
  steps, a pool that fails after the nonce is spent, two refreshes of one token, a logout
  between any two steps, an access token that outlives its revocation, and a restart at
  each point all fit in (258,207 states). Three tokens allow a login, a rotation and a second login of
  the other account. `NonceLostToOverlapOnly` says who may cost a client its nonce: `Delete`
  removes whatever is stored under the key by then, the entry of a newer init included,
  and the property fixes that nothing but such an overlap, a signature or a restart does,
  neither a refused signature nor a request of another key. It checks the refinement of `LoginSessions` and the inductive
  invariant as well.
- `auth_nonce_one_time` refutes what a comment of the program says (section 12).

`LoginSessions` is the service seen from outside: a login is opened once for one
owner, serves that owner until it is closed, and never returns. The mapping takes
the identity of a login to be its first refresh token, and lets a login be served
by its session *or by a request that has consumed the session and not yet
created its successor*; without the second half, every rotation would close and
reopen a login.

Proved (`AuthServiceProofs`), for all constants that satisfy `TTLAssumption`,
`SpellingAssumption`, `NoneAssumption` and `VerifiersAssumption` (requests under way at
once are finitely many): all safety properties of the run, and the refinement. The inductive invariant `IInv`
adds to the properties

- `Provenance`: whatever a store or request refers to was handed out, under the key
  its verify looks up; without it nothing ties a stored entry to the message signed;
- `Authenticated` and `Prepared`: what each stage of a request has established so
  far, which is what makes the last stage sound;
- `Dated`: nothing is dated beyond the clock, which bounds access tokens after a
  revocation;
- `SpentNonceGone`: a nonce with an accepted signature is in no entry of the store, on which
  the count of logins per nonce rests;
- `CalmNonces`: what is stored under the key of a calm nonce, and what requests have
  read there and are about to delete, is its own entry, which is what makes
  `NonceLostToOverlapOnly` inductive.

`OneHolderPerLogin` and `RevokedLoginStaysDead` are inductive together only with
the provenance of `login`: a fresh token cannot name an old login. `NonceReuseBounded`
follows from a stronger count: the logins opened with a nonce *and the verify requests
that still hold it* together are no more than the requests that can overlap. A request joins
the second set only before the entry is deleted, when no login is counted yet, and moves
from the second set to the first when it issues its login.

## 4. NftWatcher

| Variable | Code |
|---|---|
| `users`, `cache`, `lastErr` | the maps of `Watcher` |
| `task[p]` | the local variables of `ListByOwner`, per goroutine; `Loop` is the one of `Start` |
| `queue` | the slice `scanOnce` copied from `users` |
| `owned` | the contract's enumeration, which transfers reorder as OpenZeppelin's ERC721Enumerable does (external) |
| `moves`, `faults` | counters of the bounds `MaxMoves` and `MaxFaults` |

Each RPC call is one action: `ReadBalance`, and for each index `ReadToken`
(`tokenOfOwnerByIndex`) and `ReadURI` (`tokenURI`), between which the token may change
hands or be burned. `Fail` and `Publish` are the critical section at the
end of a scan, which `scanOnce` and `GetOrScanNow` share. A request that finds
something to show only registers its owner. An expired timeout, a cancelled request and a
failing node all end a scan with an error and are one action, `CallFails`.

Run `watcher` (2 owners, 2 NFTs, the loop and 1 request, 2 transfers, 1 fault; 363,796 states): two
scans of one owner overlap, with a transfer out of the listing between two calls of
either, or a failed call in one of them. Fairness: every scan makes progress (each
has a 12 s timeout, so it cannot hang), the ticker fires for ever, and the loop takes
up each user of its snapshot. Nothing obliges a transfer, a fault or a request to
happen. Two transfers are what it takes for a listing to change twice while an older
scan is under way; one fault suffices because an error matters by being there when
everything else has come to rest. `ExactIfQuiet` says that nothing but a transfer of the
owner's own tokens spoils a scan; a listing that one has spoiled is stored and shown, and
`EventuallyFresh` says that it does not last. In the same way `FailureKeepsListing` is about
the listing, and `EventuallyFresh` about the error that a failure leaves for later requests.

One behaviour is worth knowing though it is no error: an empty listing counts as no
cache (`NothingToShow`), so each poll of an account without documents scans the chain
inside the request, while the comment at `watcher.go:282` says that an existing cache
is returned.

Proved (`NftWatcherProofs`): type correctness, `ExactIfQuiet` and
`FailureKeepsListing`, from the inductive invariant `IInv`, which adds to
`ExactIfQuiet` that a scan which has not read its balance has no items, and that the
token whose URI an undisturbed scan asks for is the next one of its owner.
Liveness is checked by TLC only.

## 5. ContactBook and PoolOnce

| Variable | Code |
|---|---|
| `rows` | the table `contacts`, whose only key is its serial number |
| `once`, `pool` | `Provider.once`; `Provider.pool` and `Provider.err` |
| `up`, `outages` | whether Postgres can be reached (external) |
| `task[r]` | the local variables of each request: `verify` from the pool on, `add`, `list`, `send` |
| `tokens` | access tokens in clients' hands; they outlive restarts, `epoch` counts these |
| `pins` | what is pinned to IPFS, and which key each upload is encrypted with |
| `acked`, `plans`, `lost`, `panics` | history: what clients were told, and what an answer left out |

`EnterOnce`, `DialOk` or `DialFails`, and `PassOnce` are `Provider.Pool`: the function
inside `once.Do` runs under the context of whoever came first, and everybody else
waits at stage `pool`. `Insert` and `InsertAnswered` are two steps because the row is
stored before its client knows; `Told` is the answer, a 200 for a row that was stored and
an error otherwise (`TooLong`, `InsertFails`, `InsertInDoubt`), after which the client may
send the same contact again. `Lookup` does not pass through `Provider.Pool`, as
`GetContactKeyInfo` does not; it picks any matching row, as a query without an order
may. The early returns of `SendFile` are the actions `NotFound`, `QueryFails`,
`Refuse`, `UploadFails` and `NoContract`, in the handler's order. An upload has no
context and goes on when its client is gone.

`PoolOnce` is the provider seen from outside: within a life of the process it is
unsettled, then open or failed for good. `Settled` is the mapping.

Runs:

- `contact_send` (2 users, 2 requests, 2 rows, a good and a bad key, a network with and
  one without a bridge, 1 outage; 1,159,008 states): two rows of one address with different
  keys, or the same address in two users' books, while a send is between its lookup and its
  upload; an insertion that fails or whose answer is lost, and the same contact sent again.
  `AckedContactsSeen` is about what clients were told: a contact answered with 200 is in every
  list and lookup asked for later, and two rows let it stand there twice.
- `contact_pool` (1 user, 2 requests, 1 row, 1 restart, 1 outage; 110,388 states): a dial
  that fails while another request waits, tokens that outlive the process. The table is
  Postgres's and a restart of the process leaves it alone: `init.sql` runs on a new volume
  only. It has the liveness property under weak fairness of each
  request's steps: dials, queries and uploads end by their timeouts.
- `contact_authorized`, `contact_pool_returned`, `contact_bridge`: section 12.

Proved (`ContactBookProofs`): type correctness, `PlansMatchContacts`,
`AckedContactsSeen`, `NilPoolOnlyAfterRestart`, and that the provider implements
`PoolOnce`. The conjuncts of `IInv` that the properties do not have:

- `Equipped`: what a request holds at each stage;
- `PoolBehindTokens`: the pool is open for whoever passed it, or has a token of this
  life of the process. It is what makes `NilPoolOnlyAfterRestart` inductive, and with
  `NoFutureTokens` it says what a restart breaks;
- `OneDialer`: one request at a time is inside `once.Do`, without which a second dial
  could settle the pool again;
- `Grounded`: contacts that an answer has to contain are in the table, each in some row that
  the query behind the answer selects, and a row about to be acknowledged is the request's own;
- `Sourced`: key and network in a send request come from one matching row.

## 6. RpcClients

| Variable | Code |
|---|---|
| `clients` | `RPCService.clients` |
| `writer` | who holds `mu` for writing; a section that makes no call is one action and needs no holder |
| `task[r]` | where a request is in `Client` |
| `dialed`, `handed` | history: connections opened, and what `Client` returned to whom |

Run `reading` (section 11; 3 requests, 2 configured chains and 1 that is not, 2
connections, 1 failing dial): two requests that both missed in `Find` reach the lock together, a
third one for another chain is held up by their dial. Fairness is strong for each
request's steps: an `RWMutex` lets neither readers nor a writer wait for ever, and a
dial ends. The latter is an assumption about `ethclient.Dial`, which is given no
deadline.

Proved (`RpcClientsProofs`): `OneClientPerChain`, with `DialerHolds`: who dials
holds the lock and has seen under it that there is no client.

## 7. WebSession

| Variable | Code |
|---|---|
| `storage` | `localStorage.tokens`, shared by all tabs: the address, the access and the refresh token |
| `screen`, `received`, `timer` | per tab: login page or app and for whom, whose documents are listed, `nftPollTimer` |
| `signin` | a `siweLogin` whose `/auth/siwe/verify` is being answered |
| `call[c]` | an `apiFetchWithRefresh` under way: its kind, whether it is the second attempt, whether a `siweLogin` awaits it, the access token it was sent with, what `refreshTokens` read and received |
| `gen`, `stale`, `gone` | the server: latest pair of each login, expired access tokens, sessions it has lost |
| `lost`, `ended` | history: logins whose latest pair got lost, logins that were logged out in peace |

JavaScript runs from one `await` to the next without interruption; each such stretch is
one action, whatever it calls. `refreshTokens` is four of them: `StartRefresh` reads the
tokens, the server answers (`Rotate`, `Refused`), and `StoreTokens` merges the answer
into the tokens that were read and repeats the call. The answer of an ordinary
call is part of the action that handles it: a token or a pair that is refused once is
refused for ever, so that the moment of the answer decides nothing. `Over` has the
continuation of each call: `loadContacts` is followed by the first `loadReceived`, and
that one by the poll timer, also when the user has logged out meanwhile. The login button is disabled until
`siweLogin`, with its `loadContacts` and first `loadReceived`, is over (`LoginDisabled`): those
two never meet the next sign-in of their tab, while polls and the loads of a booted page do. Calls
other than `/contacts` and `/nfts` go through the same functions.

Run `web_session` (2 tabs with one call each, 2 logins of two accounts, 1 expiry, 1
fault): two tabs meet a 401 together, one refreshes and the other is refused; a user
logs out and in as another account while a refresh is under way; one lost answer,
reload or forgotten session anywhere. A second tab is what it takes for two
refreshes of one token, a second login for mixing two accounts. Fairness: calls are
answered or fail, and the poll timer fires in a tab that is visible and shows what
was received. Nothing makes users act, so that the system may stop once both logins
are used up; deadlock is therefore not checked in the two runs of this module.

Proved (`WebSessionProofs`), for any accounts, logins, tabs and calls: type
correctness, `StoredIsOneLogin`, `SessionNotLostInRaces` and `QuietLogoutIsFinal`.
The argument is about who holds a pair of tokens:

- `Held`: what the storage and each refreshing call hold is a pair that was issued, of
  one login, and what is under way to a call is the latest of its login;
- `OneReceiver`: a pair under way has one receiver, and everyone else's pair of that
  login is spent; this is what makes a refused refresh harmless;
- `Awaited`: the first pair of a login is held by its sign-in alone;
- `EndedUnheld`: no call and no sign-in holds a login that was logged out in peace.

## 8. SendFlow

| Variable | Code |
|---|---|
| `session` | the account and chain of the tokens in `localStorage` |
| `wallet` | the account and the chain selected in MetaMask, for all tabs (external) |
| `flow[s]` | the local variables of one `doSendFlow`: its tab, what `/files/send` answered, the signer, the token id |
| `tx[s][k]` | its mint, approve and transfer; they go on when the page is closed |
| `token`, `head`, `locks` | the chains: NFTs, the latest block, the `TokenLocked` events (external) |
| `scan[q]` | a `ScanByContact`: the latest block it read, and its answer |
| `acts`, `faults` | counters of the bounds `MaxActs` and `MaxFaults` |

A `doSendFlow` runs from one `await` to the next: `Send` up to the answer of the server,
`Connect` up to the signer, `Sign` for each of the three transactions, `Continue` or `Throw`
for each receipt, `GiveUp` for everything that ends it without one: a refusal in
the wallet, a call that fails, a tab that is closed. `Mint`, `Approve` and `Transfer` are
the contracts as the page and the scanner expect them; `Nothing` is a call to an address
that has no contract on the chain at hand, which succeeds. One `Scan` is two actions,
because the chain grows between `BlockNumber` and `FilterLogs`; `TransactionByHash`, called
for each event found, is part of the second one, which may lose any of them.

The wallet library decides whether a transaction can still be signed and its receipt
seen after the user has changed the chain. The model lets both happen on any chain, a
receipt being seen while the wallet is on the chain of the transaction; what is
proved holds whatever the library refuses of it.

Two properties have a premise that a reader should know of:

- `LockedAsSent` promises the right document if mint and lock are on one chain. When the
  user goes to another chain after the mint, the token id of the receipt names
  somebody's token there, and if it is the signer's own, the bridge takes that one.
- `DoneIsLocked` is about sends whose mint and transfer went to the bridge's chain. The
  page switches to the chain of the *login*; the bridge is that of the *contact's
  network* (run `contact_bridge`), and if they differ the page says that it is done though
  nothing happened.

Run `send_flow` (2 accounts, 2 contacts, 2 chains that both have the NFT contract, one of
them with the bridge, 2 tabs, 2 sends, 2 token ids per chain, 1 scan, a window of 1 block,
2 blocks, 1 change in the wallet or of the login, 1 fault): two tabs send at once or one after the other,
one of them after a refusal at any step; the user changes account or chain once at any
moment; a scan begins and ends anywhere. Two sends are what it takes to mix up two tokens,
two blocks and a window of one to have an event at either end of the range and one beyond it. There is
no liveness: nothing obliges the user to sign, so the system may stop anywhere, and
deadlock is not checked.

Proved (`SendFlowProofs`), for any accounts, contacts, chains, bridges, tabs, sends and windows:
type correctness, `LockedAsSent`, `DoneIsLocked`, `ListedIsSent` and `SentIsListed`. `IInv` has

- `FlowsInOrder`: a transaction is out only after the one before it succeeded, and is about
  the minted token, *also when the flow was given up since*;
- `MintedToken` and `LockKept`: a token keeps its document, and the bridge keeps what it
  has locked; accounts and bridges are different addresses;
- `LockOfTransfer`, `LocksDiffer`, `TransferLocked`: events and successful transfers on the
  bridge's chain correspond one to one;
- `LockInBlock` and `ScanExact`: an event that appears after a scan has read the latest
  block lies beyond its range, so that the answer stays what a search of the range finds.

The argument is by kinds of steps: every step moves one flow, changes one transaction, one
token, or nothing of these (`StepKinds`), and what no step takes back is stated once
(`TermsStay`, `OkStays`, `TokensStay`, `BlocksGrow`).

## 9. WebViews

| Variable | Code |
|---|---|
| `inApp` | `showApp`/`showLogin`, and with them whether tokens are stored |
| `view` | `mainTitle`, and which of `receivedCards` and `sentCards` is displayed |
| `cards`, `sig` | what each list holds; `lastReceivedSig`, `lastSentSig` |
| `text` | `messagesEmpty`, which both lists share |
| `selected`, `sidebar`, `timer` | `selectedContact`, the sidebar, `nftPollTimer` |
| `load[p]` | a `loadContacts`, `loadReceived` or `showSentForSelectedContact` at its `await`, with the answer once the server has computed it |
| `inbox`, `outbox` | what the server answers (external) |
| `early` | history: the contact was selected while a `loadContacts` was under way |

Each stretch between two awaits is one action, as in `WebSession`. A load is computed by
the server in `Answer` and handled by the page in `ShowError`, `Skip`, `Redraw`,
`ContactsListed`, `Thrown` or `ContactsThrown`, which may come in any order among the
loads. `Skip` is the early return of `renderMessageCards`: the signature is the
same *and* the list is not empty. The first load after a sign-in or boot is asked when
`loadContacts` returns or throws, and starts the poll timer when it returns or throws
itself. Signing out empties lists and selection and leaves loads under way: they are
handled behind the login page, and a call without tokens waits for the next sign-in or
throws. The next sign-in waits for the loads that `siweLogin` awaits (`LoginDisabled`).

What the run checks:

- `AnswerShown`: several places empty, fill or skip a list on their own; together
  they must never leave a list that differs from the answer just handled. The
  displayed list and its title are promised for a load that met no other (`alone`): when
  two clicks are answered in the other order, the list of the first contact stands
  under the title of the second one, since both share `sentCards`.
- `ViewIsSelected`: the title is that of the selected contact. Its exception, `early`, is a
  behaviour of the code: contacts are clickable while a later `loadContacts` is under
  way, and the `loadReceived` that follows it (`index.html:1139-1140`) takes the view
  away and leaves the contact selected.
- `ComesToShowReceived`: while nothing is selected, polling repairs whatever late,
  failed and lost answers did to the view. Fairness: a call ends and is handled
  (`Advance`), and an interval that is set fires while its tab is visible (`Poll`). Nothing
  obliges the user, or a document, to do anything.

One more behaviour shows in the first line of `HandledWell` about the text: clicking
«Полученные» sets "Загрузка..." (1027-1028) over a list that is not emptied, and if the
answer has the same signature, the early return (899) leaves it there.

Proved (`WebViewsProofs`), for any contacts, documents and number of loads: type
correctness, `ViewIsSelected` and `AnswerShown`. `ViewsInv` has, next to `ViewIsSelected`,

- `SigIsList`: a list that is not empty holds what its signature says, without which
  skipping an answer would be wrong;
- `SelectedAfter`: unless a contact was selected early, no `loadContacts` is under way that
  would take its view;
- `AloneDisplayed`: a load that no other joined is the only one, and the view is still the one
  it set.

The argument is by kinds of steps (`StepKinds`): a step asks for one load, answers one,
handles one, or leaves all of them alone.

## 10. TokenURI and Documents

These two have no concurrency: `ContactBook` and `SendFlow` have the control of the same
requests, and what is left is what each request *computes*. A URI is a record of
its form, CID and name; the name is a sequence of characters, since escaping is what
the properties are about, and the four characters that `url.QueryEscape` treats specially
stand for their kind.

| Definition | Code |
|---|---|
| `QueryEscape`, `QueryUnescape`, `QueryGet`, `TrimSpace` | `net/url`, `strings` (external) |
| `TokenURIOf` | the URI that `SendFile` writes |
| `ParseNameCid`, `TokenURIToHTTP`, `ReadBySender` | what a scan makes of it |
| `ParseTokenURI`, `ReadByRecipient` | what the watcher makes of it |
| `Loadable`, `Normalised`, `MapOf`, `RpcMaps` | `LoadConfig`, `parseChainRPC`, `parseBridgeByNetwork`, `parseRPCByNetwork` |
| `ReadAll` | `ioReadAllLimit` and the check after it |
| `WindowOf`, `NormalizeRange` | `SCAN_WINDOW` and `normalizeRange`, modulo `Modulus` (2^64) |
| `Listed`, `ItemOf`, `Newer`, `ScanReply` | `ScanTransfers` and `ScanByContact` |
| `env`, `config` | the environment, and the `Config` made of it |
| `chain`, `latest` | the `TokenLocked` events, and the latest block (external) |
| `reply` | the answer a client is about to receive |

`RpcMaps` is a set because `parseRPCByNetwork` ranges over a Go map: if two keys are one
network when normalised, which URL wins is random.

What the run checks: `ScanAnswersQuestion` (a scan lists exactly what it was asked about,
newest first, by a definition over the integers that knows of no window arithmetic),
`DocumentReadAsSent` (both readers find the CID and the link that were written; the
sender finds the name, and the recipient finds it exactly if it holds no escape),
`NetworkFound` (sending to a network and scanning it use one bridge, however it is
spelled).

Behaviours met, which the properties state instead of hiding:

- `parseTokenURI` takes the name from `URL.Query`, which has unescaped it, and
  unescapes it once more (`parser.go:37-41`), though `SendFile` escapes it once: a name in
  which `+` or a well-formed `%` escape stands reaches the recipient changed, while the
  sender's scan shows it right.
- A scan for the zero address lists the documents of all recipients, as the filter by
  recipient is then left out.
- `SCAN_WINDOW` may be any integer; its low 64 bits count, and zero of them mean the
  default.

`LoadConfig` may make any map of `RpcMaps`, and `Put` overwrites, so that the map of the
bridges is a fold of `Put` over the pairs. `NewestFirst` is the sequence of the items
that `Newer` orders, by block and then by transaction, which no two items share. The
order of the list of received documents is `NftWatcher`'s concern: `ListReply` indexes
it by place in the chain, and no property here asks for more.

Proved (`DocumentsProofs`), for any modulus, window, chain, question, environment and name,
each as a theorem about every reachable state: `ScanAnswersQuestion` (`ScansAnswer`),
`DocumentReadAsSent` (`ReadAsSent`) and `NetworkFound` (`NetworksFound`). The inductive
invariant `DocsInv` is small: the configuration is one of this environment, every event has
a transaction of its own and carries a URI that `SendFile` wrote if it was sent here, and
an answer is one that `SendReply`, `ScanReply` or `ListReply` makes. It is needed because an
answer stays while its parts are compared with the chain, and because the readers see a
URI and not the name it was made from. What is hard is what the definitions compute:

- The range. `ReachBackIs`: the subtraction in `normalizeRange` never wraps.
  `RangeIsQuestion`: the range holds the blocks of the question, whichever of its ends
  are given and in either order.
- The order. `Sorts`: any finite set of items that `Newer` tells apart has a sorted
  sequence. Each item's place is one more than the number of those ahead of it.
- The escaping. `RoundTrip`: what is escaped is well formed, and unescaping gives it back.
  `UnescapeConcat` lets the text be taken apart character by character, and
  `UnescapeKeeps` says what a second unescaping leaves alone.
- The maps. `MapIs`: the fold over pairs maps each key to its last pair's value.

The provers cannot use an induction principle for an operator. `Induct` states it for
the *set* of numbers with a property, from the least element that a nonempty set of numbers
has (`LeastOf`), and everything above that runs along a sequence rests on it. Assumed of the
constants: the ends asked for are values of `uint64`, and the chain is shorter
than that (`RangeAssumption`, `QuestionsAssumption`); a window is an integer or not set; an
environment lists its bridges in a sequence; a file's name is a sequence of characters
(`WindowAssumption`, `BridgesAssumption`, `FilesAssumption`, `LengthAssumption`).

## 11. The run `reading`

`RpcClients`, `WebViews` and `Documents` share no state. `MCReading` checks them in one
run: `part` is chosen in the beginning and only that module moves, so the
states are the sum of theirs and not the product, and each property is
checked exactly as in a run of its own. The fairness conditions are those of the modules; a part that
does not move enables no step they name.

- Views: 2 contacts, 1 document each way, 2 loads at once, 1 break (an error, a lost or
  unreadable answer, or a reload). Two loads are what it takes for answers to arrive in the
  other order, two contacts for a list under the wrong title.
- Documents: `uint64` counts to 8, the chain has up to 3 blocks, and questions and
  windows have ends at, below and beyond both. The environments are one that is complete,
  and one for each way to leave something out, misspell a network or name it twice;
  names have each kind of escape at each place that matters; the other events
  differ from a listed one in one field each. Two events are in the chain
  where windows are looked at, one or none elsewhere (`Length`). The server restarts, with
  another environment, while nothing is locked.
- RPC clients: section 6.

## 12. What the violated runs show

- `NonceOneTime`: two overlapping verify requests log in with one nonce
  (`service.go:109` and `:134`); `cmd/api/main.go:355` calls the nonce one-time.
  `NonceReuseBounded` says what does hold.
- `AuthorizedMeansConnected`: `handlers/auth.go:76` connects to Postgres after a
  successful authorization, and `GetContactKeyInfo` relies on it; after a restart a token
  is still good and the pool is nil. `NilPoolOnlyAfterRestart` says what does hold.
- `PoolReturned`: `provider.go:23` says that the pool is initialized once and returned;
  if the first caller's client goes away during the dial, nobody ever gets one.
  `PoolSettledOnce` says what does hold.
- `BridgeOnCurrentNetwork`: `handlers/files.go:48` calls the plan's bridge the one "on
  the current network"; the handler takes the one of the contact's network, whatever
  chain the sender's token is for.
- `ListedIsOwn`: `frontend/static/index.html:1024` heads the list with "documents
  received by your account"; the answer of a poll that was sent before a logout is listed
  when the next account's sign-in, which the login button waits for, is over and its own
  list has been shown. `ComesToListOwn` says what does hold.

More behaviours were met while modelling that no line of the deployed program
contradicts; sections 9 and 10 name those of the views and of the documents. A logout
that overtakes a refresh of the same login on the server finds no session, answers ok,
and the refresh then creates one. And the page's own logout does not tell the server: a refresh under way in the browser stores its tokens again
(`QuietLogoutIsFinal` excludes exactly that). A refresh whose answer is lost ends the login
(`SessionNotLostInRaces` names it as its exception), and a transaction that cannot be fetched
leaves its document out of a scan that says nothing of it (`SentIsListed`, likewise).

## 13. Bounds

Every bound is a CONSTANT: the supplies `Nonces`, `Tokens`, `RowIds`, `Cids`, `Clients`,
`Logins`, `Sends`, `Scans` and `TokenIds`, and the counters `MaxTime`, `MaxMoves`, `MaxFaults`,
`MaxRestarts`, `MaxOutages`, `MaxExpiries`, `MaxActs`, `MaxHead`, `MaxBreaks` and
`MaxBlock`; in `Documents` the tables `Environments`, `Length`, `FilesIn`, `OthersIn`,
`Sizes` and `Questions` enumerate the inputs. A guard compares the counter with its bound; nothing else
does. Symmetry is used in runs without liveness, over sets whose members no action or
property names. The theorems hold without any of these sizes.

## 14. Not modelled

- Cryptography (signatures, JWT signing, ECIES), the wording of messages, logging, HTTP
  and JSON.
- CORS, wiring, the server, `/health` and `/chains`: straight-line code with no state after
  start-up. Of the configuration, durations, the address to listen on and the allowed
  origins.
- The page's forms: modals, the file picker and the list of chains hold what the user
  enters until it is sent, and nothing else reads them. Of `addContact`, an answer that
  arrives after a logout.
- Token URIs of malformed JSON, with a fragment, or with a `cid=` in the query of an `ipfs`
  URI; several `TokenLocked` events in one transaction; replies of a node that do not
  decode.
- The first version of the program under `internal/`, `cmd/` and `static/`: a near-identical
  earlier copy of the backend and the page, which `backend/` and `frontend/` replace. A
  second set of modules for it would repeat these.

Smart contracts, MetaMask, Postgres, IPFS and the chains are external: they are modelled as
the code uses them.

Out of the prover's reach and left to TLC is liveness under fairness: `EventuallyFresh`,
`EveryoneScanned`, `EveryRequestEnds`, `ComesToListOwn`, `EveryCallReturns`,
`FailureIsRetried` and `ComesToShowReceived`. Every other property of a passing run is
stated by a theorem.
Four hazards in `PROJECT.json` have no property, with the reason beside each: what goes wrong
there is what the code does, or no state of a bounded model shows it.
