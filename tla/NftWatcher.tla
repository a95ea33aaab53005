------------------------------ MODULE NftWatcher ------------------------------
(***************************************************************************)
(* The NFT watcher of the backend (nftscan/watcher.go): a cache of the NFTs  *)
(* each registered user holds, refreshed by one background goroutine and,    *)
(* when it has nothing to show, by the requests that read it                 *)
(* (handlers/nfts.go).                                                      *)
(*                                                                         *)
(* A scan enumerates an ERC-721 contract over RPC: the balance first, then   *)
(* for each index a token and that token's URI.  The chain moves on between  *)
(* two calls, any call may fail, and two scans of one owner may overlap.  The watcher's maps are     *)
(* guarded by one mutex, held for one map access at a time.                  *)
(*                                                                         *)
(* A call that hangs ends in an error, by the 12 s timeout of each scan or   *)
(* by its request being cancelled, and is counted as a fault like any other. *)
(***************************************************************************)
EXTENDS Naturals, Sequences, FiniteSets

CONSTANTS
  Owners,     \* accounts that use the service
  NFTs,       \* tokens of the watched contract
  Requests,   \* goroutines serving GET /nfts
  Loop,       \* the goroutine started by Watcher.Start
  MaxMoves,   \* bound on transfers
  MaxFaults,  \* bound on failed RPC calls
  None

Scanners == Requests \cup {Loop}

(* An NFTItem: its token, and whether tokenURI could be read.               *)
NFTItem == [nft : NFTs, uri : BOOLEAN]
Listing == Seq(NFTItem)

(* ListByOwner under way: the balance, once read; the items so far; the      *)
(* tokenId whose URI is asked for; and, as history, whether the owner's       *)
(* tokens have stayed put since it began.                                   *)
ScanTask == [owner : Owners, n : Nat \cup {None}, out : Listing,
             token : NFTs \cup {None}, quiet : BOOLEAN]

ASSUME LoopAssumption == Loop \notin Requests
ASSUME BoundAssumption == MaxMoves \in Nat /\ MaxFaults \in Nat
ASSUME NoneAssumption == /\ None \notin ScanTask
                         /\ None \notin Listing
                         /\ None \notin Nat
                         /\ None \notin Owners
                         /\ None \notin NFTs

VARIABLES
  owned,    \* the contract's enumeration of each owner's tokens
  moves,    \* transfers so far
  faults,   \* failed RPC calls so far
  users,    \* Watcher.users
  cache,    \* Watcher.cache: None where the map has no entry
  lastErr,  \* Watcher.lastErr: TRUE for a non-empty error
  task,     \* the scan each goroutine is running
  queue     \* scanOnce's snapshot of users: those not yet scanned

watcher == <<users, cache, lastErr>>
vars == <<owned, moves, faults, users, cache, lastErr, task, queue>>

TypeOK ==
  /\ owned \in [Owners -> Seq(NFTs)]
  /\ moves \in 0 .. MaxMoves
  /\ faults \in 0 .. MaxFaults
  /\ users \in SUBSET Owners
  /\ cache \in [Owners -> Listing \cup {None}]
  /\ lastErr \in [Owners -> BOOLEAN]
  /\ task \in [Scanners -> ScanTask \cup {None}]
  /\ queue \in SUBSET Owners

Init ==
  /\ owned = [o \in Owners |-> <<>>]
  /\ moves = 0
  /\ faults = 0
  /\ users = {}
  /\ cache = [o \in Owners |-> None]
  /\ lastErr = [o \in Owners |-> FALSE]
  /\ task = [p \in Scanners |-> None]
  /\ queue = {}

-----------------------------------------------------------------------------
(* The contract: an ERC721Enumerable, which appends a token that arrives and *)
(* fills the place of one that leaves with the last                          *)

Holds(o, x) == \E i \in 1 .. Len(owned[o]) : owned[o][i] = x

(* No user holds x: somebody else does, or it is burned and has no URI.      *)
Gone(x) == \A o \in Owners : ~Holds(o, x)

Without(s, x) ==
  [i \in 1 .. Len(s) - 1 |-> IF s[i] = x THEN s[Len(s)] ELSE s[i]]

Disturbed(os) ==
  [p \in Scanners |->
     IF task[p] # None /\ task[p].owner \in os
       THEN [task[p] EXCEPT !.quiet = FALSE]
       ELSE task[p]]

(* A mint, or a transfer from an account that does not use the service.     *)
Arrive(x, o) ==
  /\ moves < MaxMoves
  /\ Gone(x)
  /\ owned' = [owned EXCEPT ![o] = Append(@, x)]
  /\ moves' = moves + 1
  /\ task' = Disturbed({o})
  /\ UNCHANGED <<faults, watcher, queue>>

(* A burn, or a transfer to an account that does not use the service.       *)
Leave(x, o) ==
  /\ moves < MaxMoves
  /\ Holds(o, x)
  /\ owned' = [owned EXCEPT ![o] = Without(@, x)]
  /\ moves' = moves + 1
  /\ task' = Disturbed({o})
  /\ UNCHANGED <<faults, watcher, queue>>

(* A transfer between two users.                                            *)
Transfer(x, o, q) ==
  /\ moves < MaxMoves
  /\ o # q
  /\ Holds(o, x)
  /\ owned' = [owned EXCEPT ![o] = Without(@, x), ![q] = Append(@, x)]
  /\ moves' = moves + 1
  /\ task' = Disturbed({o, q})
  /\ UNCHANGED <<faults, watcher, queue>>

-----------------------------------------------------------------------------
(* ListByOwner                                                              *)

NewScan(o) ==
  [owner |-> o, n |-> None, out |-> <<>>, token |-> None, quiet |-> TRUE]

ReadBalance(p) ==
  /\ task[p] # None
  /\ task[p].n = None
  /\ task' = [task EXCEPT ![p].n = Len(owned[task[p].owner])]
  /\ UNCHANGED <<owned, moves, faults, watcher, queue>>

(* The loop of ListByOwner has another index to ask for.                    *)
Asking(p) == /\ task[p] # None
             /\ task[p].n # None
             /\ task[p].token = None
             /\ Len(task[p].out) < task[p].n

IndexSkippingFirst(p) == Len(task[p].out) + 2          \* fault: starts at 1

(* The next index of tokenOfOwnerByIndex, counted from 1.                   *)
Index(p) == Len(task[p].out) + 1

ReadToken(p) ==
  /\ Asking(p)
  /\ Index(p) <= Len(owned[task[p].owner])
  /\ task' = [task EXCEPT ![p].token = owned[task[p].owner][Index(p)]]
  /\ UNCHANGED <<owned, moves, faults, watcher, queue>>

(* tokenURI of that token.  If it fails the item goes without its URI and    *)
(* the scan goes on.                                                        *)
ReadURI(p, uri) ==
  /\ task[p] # None
  /\ task[p].token # None
  /\ task' = [task EXCEPT
                 ![p].out = Append(@, [nft |-> task[p].token, uri |-> uri]),
                 ![p].token = None]
  /\ IF uri \/ Gone(task[p].token) THEN UNCHANGED faults
                                   ELSE faults < MaxFaults /\ faults' = faults + 1
  /\ UNCHANGED <<owned, moves, watcher, queue>>

ErrorKept(o) == lastErr                                \* fault: stale error

(* What a scan that ended well stores besides its items.                    *)
ErrorCleared(o) == [lastErr EXCEPT ![o] = FALSE]

(* A scan that failed: its error is kept for everyone, and nothing else.    *)
Fail(p) ==
  /\ lastErr' = [lastErr EXCEPT ![task[p].owner] = TRUE]
  /\ task' = [task EXCEPT ![p] = None]
  /\ UNCHANGED <<owned, moves, users, cache, queue>>

(* The owner has fewer tokens by now than its balance said: the call reverts. *)
IndexReverts(p) ==
  /\ Asking(p)
  /\ Index(p) > Len(owned[task[p].owner])
  /\ Fail(p)
  /\ UNCHANGED faults

(* balanceOf or tokenOfOwnerByIndex fails, or the scan's context is done.   *)
CallFails(p) ==
  /\ task[p] # None
  /\ task[p].n = None \/ Asking(p)
  /\ faults < MaxFaults
  /\ faults' = faults + 1
  /\ Fail(p)

Publish(p) ==
  /\ task[p] # None
  /\ task[p].n # None
  /\ Len(task[p].out) = task[p].n
  /\ lastErr' = ErrorCleared(task[p].owner)
  /\ cache' = [cache EXCEPT ![task[p].owner] = task[p].out]
  /\ task' = [task EXCEPT ![p] = None]
  /\ UNCHANGED <<owned, moves, faults, users, queue>>

-----------------------------------------------------------------------------
(* Watcher.Start: scanOnce, then the ticker, for ever                       *)

SnapshotOfUnscanned == {o \in users : cache[o] = None}   \* fault: scanned once only
SnapshotOfCache == {o \in users : cache[o] # None}       \* fault: ranges over the cache

Snapshot == users

ScanOnce ==
  /\ task[Loop] = None
  /\ queue = {}
  /\ queue' = Snapshot
  /\ UNCHANGED <<owned, moves, faults, watcher, task>>

(* Go iterates over the snapshot in any order.                              *)
ScanNext(o) ==
  /\ task[Loop] = None
  /\ o \in queue
  /\ queue' = queue \ {o}
  /\ task' = [task EXCEPT ![Loop] = NewScan(o)]
  /\ UNCHANGED <<owned, moves, faults, watcher>>

-----------------------------------------------------------------------------
(* The requests                                                             *)

(* SiweVerify registers the account that logged in.                         *)
Register(o) ==
  /\ users' = users \cup {o}
  /\ UNCHANGED <<owned, moves, faults, cache, lastErr, task, queue>>

(* What GetCached returns, and GetOrScanNow looks at: items or an error.  An *)
(* empty listing counts for nothing: its owner's requests all scan.         *)
NothingToShow(o) == cache[o] \in {None, <<>>} /\ ~lastErr[o]

(* GET /nfts: answered from the cache, or by a scan of its own.             *)
GetNFTs(p, o) ==
  /\ task[p] = None
  /\ users' = users \cup {o}
  /\ task' = IF NothingToShow(o) THEN [task EXCEPT ![p] = NewScan(o)] ELSE task
  /\ UNCHANGED <<owned, moves, faults, cache, lastErr, queue>>

-----------------------------------------------------------------------------
Advance(p) == \/ ReadBalance(p)
              \/ ReadToken(p)
              \/ ReadURI(p, TRUE)
              \/ IndexReverts(p)
              \/ Publish(p)

Next ==
  \/ \E x \in NFTs, o \in Owners : Arrive(x, o)
  \/ \E x \in NFTs, o \in Owners : Leave(x, o)
  \/ \E x \in NFTs, o, q \in Owners : Transfer(x, o, q)
  \/ \E p \in Scanners : Advance(p)
  \/ \E p \in Scanners : ReadURI(p, FALSE)
  \/ \E p \in Scanners : CallFails(p)
  \/ ScanOnce
  \/ \E o \in Owners : ScanNext(o)
  \/ \E o \in Owners : Register(o)
  \/ \E p \in Requests, o \in Owners : GetNFTs(p, o)

Spec == Init /\ [][Next]_vars

(* Every scan ends, by its timeout if need be; the ticker fires; the loop    *)
(* takes up every user of its snapshot.  Nothing obliges the chain to move,  *)
(* a call to fail or a client to ask.                                       *)
Fairness == /\ \A p \in Scanners : WF_vars(Advance(p))
            /\ WF_vars(ScanOnce)
            /\ WF_vars(\E o \in Owners : ScanNext(o))

FairSpec == Spec /\ Fairness

-----------------------------------------------------------------------------
(* Properties                                                               *)

(* A scan during which the owner's tokens stay put lists exactly them: the   *)
(* balance it read is the length of its listing to come, and the items so    *)
(* far are the owner's tokens in the contract's order (ListByOwner).         *)
ExactIfQuiet ==
  \A p \in Scanners :
    task[p] # None /\ task[p].quiet /\ task[p].n # None =>
      /\ task[p].n = Len(owned[task[p].owner])
      /\ Len(task[p].out) <= task[p].n
      /\ \A i \in 1 .. Len(task[p].out) :
           task[p].out[i].nft = owned[task[p].owner][i]

(* The same, with what a scan that has not read its balance looks like: the  *)
(* inductive form.                                                          *)
Agrees(k, os) ==
  /\ k.n = None => k.out = <<>> /\ k.token = None
  /\ k.quiet /\ k.n # None =>
       /\ k.n = Len(os)
       /\ Len(k.out) <= k.n
       /\ \A i \in 1 .. Len(k.out) : k.out[i].nft = os[i]
       /\ k.token # None => Len(k.out) < k.n /\ k.token = os[Len(k.out) + 1]

ScansAgree ==
  \A p \in Scanners : task[p] # None => Agrees(task[p], owned[task[p].owner])

IInv == TypeOK /\ ScansAgree

(* A scan of o that came to its end is being stored.                        *)
Stored(o) == \E p \in Scanners : /\ task[p] # None /\ task'[p] = None
                                 /\ task[p].owner = o
                                 /\ Len(task[p].out) = task[p].n
                                 /\ cache'[o] = task[p].out
                                 /\ ~lastErr'[o]

ListingKept == \A o \in Owners :
  cache'[o] # cache[o] \/ (lastErr[o] /\ ~lastErr'[o]) => Stored(o)

(* A failing chain node never costs a user the last good listing, and an     *)
(* error disappears only when a listing enumerated to its end replaces it.   *)
FailureKeepsListing == [][ListingKept]_vars

(* The tokens of o as a scan without faults lists them.                     *)
Complete(o) == [i \in 1 .. Len(owned[o]) |-> [nft |-> owned[o][i], uri |-> TRUE]]

(* When transfers and faults come to an end, so do stale listings, listings  *)
(* without URIs and errors: whatever overlapping scans left in the cache,    *)
(* each registered user's listing ends up, and stays, what the contract says. *)
EventuallyFresh ==
  <>[](\A o \in users : cache[o] = Complete(o) /\ ~lastErr[o])

(* Whoever registers is scanned, however many are registered before and      *)
(* after, and whatever the scans of the others come to.                     *)
EveryoneScanned ==
  \A o \in Owners : o \in users ~> cache[o] # None \/ lastErr[o]
=============================================================================
