--------------------------- MODULE NftWatcherProofs ---------------------------
(***************************************************************************)
(* The safety properties of NftWatcher, proved for every number of owners,   *)
(* tokens, requests, transfers and faults.                                  *)
(***************************************************************************)
EXTENDS NftWatcher, TLAPS

(* The last token fills the place of the one that leaves.                   *)
LEMMA WithoutType ==
  ASSUME NEW s \in Seq(NFTs), NEW x, Len(s) > 0
  PROVE  Without(s, x) \in Seq(NFTs)
<1>1. Len(s) \in Nat /\ Len(s) \in 1 .. Len(s) /\ Len(s) - 1 \in Nat
  OBVIOUS
<1>2. \A i \in 1 .. Len(s) : s[i] \in NFTs
  OBVIOUS
<1>3. \A i \in 1 .. Len(s) - 1 :
        (IF s[i] = x THEN s[Len(s)] ELSE s[i]) \in NFTs
  BY <1>1, <1>2
<1>4. [i \in 1 .. Len(s) - 1 |-> IF s[i] = x THEN s[Len(s)] ELSE s[i]]
        \in [1 .. Len(s) - 1 -> NFTs]
  BY <1>3
<1> QED
  BY <1>1, <1>4 DEF Without

(* A transfer changes no scan but its note of having been disturbed.        *)
LEMMA DisturbedTasks ==
  ASSUME TypeOK, NEW os \in SUBSET Owners
  PROVE  /\ Disturbed(os) \in [Scanners -> ScanTask \cup {None}]
         /\ \A p \in Scanners :
              /\ Disturbed(os)[p] = None <=> task[p] = None
              /\ task[p] # None /\ Disturbed(os)[p].quiet =>
                   task[p].owner \notin os /\ Disturbed(os)[p] = task[p]
<1> USE DEF TypeOK
<1>1. ASSUME NEW p \in Scanners, task[p] # None
      PROVE  /\ task[p] \in ScanTask
             /\ [task[p] EXCEPT !.quiet = FALSE] \in ScanTask
             /\ [task[p] EXCEPT !.quiet = FALSE].quiet = FALSE
  <2>1. task[p] \in ScanTask
    BY <1>1
  <2> QED
    BY <2>1 DEF ScanTask
<1>2. Disturbed(os) \in [Scanners -> ScanTask \cup {None}]
  BY <1>1 DEF Disturbed
<1>3. ASSUME NEW p \in Scanners
      PROVE  /\ Disturbed(os)[p] = None <=> task[p] = None
             /\ task[p] # None /\ Disturbed(os)[p].quiet =>
                  task[p].owner \notin os /\ Disturbed(os)[p] = task[p]
  BY <1>1, NoneAssumption DEF Disturbed
<1> QED
  BY <1>2, <1>3

(* The fields of a scan under way.                                          *)
LEMMA TaskFields ==
  ASSUME TypeOK, NEW p \in Scanners, task[p] # None
  PROVE  /\ task[p] \in ScanTask
         /\ task[p].owner \in Owners
         /\ task[p].n # None => task[p].n \in Nat
         /\ task[p].out \in Listing
         /\ Len(task[p].out) \in Nat
         /\ task[p].token # None => task[p].token \in NFTs
         /\ task[p].quiet \in BOOLEAN
         /\ owned[task[p].owner] \in Seq(NFTs)
<1>1. task[p] \in ScanTask
  BY DEF TypeOK
<1>2. /\ task[p].owner \in Owners /\ (task[p].n # None => task[p].n \in Nat)
      /\ task[p].out \in Listing /\ task[p].quiet \in BOOLEAN
      /\ (task[p].token # None => task[p].token \in NFTs)
  BY <1>1 DEF ScanTask
<1> QED
  BY <1>1, <1>2 DEF TypeOK, Listing

LEMMA LoopScans == Loop \in Scanners /\ Requests \subseteq Scanners
BY DEF Scanners

LEMMA NewScanType ==
  ASSUME NEW o \in Owners
  PROVE  NewScan(o) \in ScanTask /\ NewScan(o) # None
<1>1. NewScan(o) \in ScanTask
  BY DEF NewScan, ScanTask, Listing
<1> QED
  BY <1>1, NoneAssumption

-----------------------------------------------------------------------------
LEMMA TypeInit == Init => TypeOK
BY BoundAssumption DEF Init, TypeOK

LEMMA TypeStep ==
  ASSUME TypeOK, [Next]_vars
  PROVE  TypeOK'
<1> USE DEF TypeOK
<1>1. CASE UNCHANGED vars
  BY <1>1 DEF vars
<1>2. ASSUME NEW x \in NFTs, NEW o \in Owners, Arrive(x, o)
      PROVE  TypeOK'
  <2>1. moves' \in 0 .. MaxMoves
    BY <1>2, BoundAssumption DEF Arrive
  <2>2. owned' \in [Owners -> Seq(NFTs)]
    BY <1>2 DEF Arrive
  <2>3. task' \in [Scanners -> ScanTask \cup {None}]
    BY <1>2, DisturbedTasks DEF Arrive
  <2> QED
    BY <1>2, <2>1, <2>2, <2>3 DEF Arrive, watcher
<1>3. ASSUME NEW x \in NFTs, NEW o \in Owners, Leave(x, o)
      PROVE  TypeOK'
  <2>1. moves' \in 0 .. MaxMoves
    BY <1>3, BoundAssumption DEF Leave
  <2>2. Len(owned[o]) > 0
    BY <1>3 DEF Leave, Holds
  <2>3. owned' \in [Owners -> Seq(NFTs)]
    BY <1>3, <2>2, WithoutType DEF Leave
  <2>4. task' \in [Scanners -> ScanTask \cup {None}]
    BY <1>3, DisturbedTasks DEF Leave
  <2> QED
    BY <1>3, <2>1, <2>3, <2>4 DEF Leave, watcher
<1>4. ASSUME NEW x \in NFTs, NEW o \in Owners, NEW q \in Owners, Transfer(x, o, q)
      PROVE  TypeOK'
  <2>1. moves' \in 0 .. MaxMoves
    BY <1>4, BoundAssumption DEF Transfer
  <2>2. Len(owned[o]) > 0
    BY <1>4 DEF Transfer, Holds
  <2>3. Without(owned[o], x) \in Seq(NFTs) /\ Append(owned[q], x) \in Seq(NFTs)
    BY <2>2, WithoutType
  <2>4. owned' \in [Owners -> Seq(NFTs)]
    BY <1>4, <2>3 DEF Transfer
  <2>5. task' \in [Scanners -> ScanTask \cup {None}]
    BY <1>4, DisturbedTasks DEF Transfer
  <2> QED
    BY <1>4, <2>1, <2>4, <2>5 DEF Transfer, watcher
<1>5. ASSUME NEW p \in Scanners, ReadBalance(p)
      PROVE  TypeOK'
  <2>1. task[p] \in ScanTask /\ Len(owned[task[p].owner]) \in Nat
    BY <1>5, TaskFields DEF ReadBalance
  <2>2. task' \in [Scanners -> ScanTask \cup {None}]
    BY <1>5, <2>1 DEF ReadBalance, ScanTask
  <2> QED
    BY <1>5, <2>2 DEF ReadBalance, watcher
<1>6. ASSUME NEW p \in Scanners, NEW uri \in BOOLEAN, ReadURI(p, uri)
      PROVE  TypeOK'
  <2> DEFINE item == [nft |-> task[p].token, uri |-> uri]
             out == Append(task[p].out, item)
  <2>1. /\ task[p] \in ScanTask /\ task[p].out \in Seq(NFTItem)
        /\ task[p].token \in NFTs
    BY <1>6, TaskFields DEF ReadURI, Listing
  <2>2. out \in Listing
    BY <2>1 DEF NFTItem, Listing
  <2>3. [task[p] EXCEPT !.out = out, !.token = None] \in ScanTask
    BY <2>1, <2>2 DEF ScanTask
  <2> HIDE DEF out
  <2>4. task' = [task EXCEPT ![p] = [task[p] EXCEPT !.out = out, !.token = None]]
    BY <1>6 DEF ReadURI, out
  <2>5. task' \in [Scanners -> ScanTask \cup {None}]
    BY <2>3, <2>4
  <2>6. faults' \in 0 .. MaxFaults
    BY <1>6, BoundAssumption DEF ReadURI
  <2> QED
    BY <1>6, <2>5, <2>6 DEF ReadURI, watcher
<1>15. ASSUME NEW p \in Scanners, ReadToken(p)
       PROVE  TypeOK'
  <2> DEFINE x == owned[task[p].owner][Index(p)]
  <2>1. /\ task[p] \in ScanTask
        /\ owned[task[p].owner] \in Seq(NFTs)
        /\ Index(p) \in 1 .. Len(owned[task[p].owner])
    BY <1>15, TaskFields DEF ReadToken, Asking, Index
  <2>2. x \in NFTs
    BY <2>1
  <2>3. task' \in [Scanners -> ScanTask \cup {None}]
    BY <1>15, <2>1, <2>2 DEF ReadToken, ScanTask
  <2> QED
    BY <1>15, <2>3 DEF ReadToken, watcher
<1>7. ASSUME NEW p \in Scanners, Fail(p), faults' \in 0 .. MaxFaults
      PROVE  TypeOK'
  BY <1>7 DEF Fail
<1>8. ASSUME NEW p \in Scanners, Publish(p)
      PROVE  TypeOK'
  <2>1. task[p].owner \in Owners /\ task[p].out \in Listing
    BY <1>8, TaskFields DEF Publish
  <2> QED
    BY <1>8, <2>1 DEF Publish, ErrorCleared
<1>9. CASE ScanOnce
  BY <1>9 DEF ScanOnce, Snapshot, watcher
<1>10. ASSUME NEW o \in Owners, ScanNext(o)
       PROVE  TypeOK'
  BY <1>10, NewScanType DEF ScanNext, watcher
<1>11. ASSUME NEW o \in Owners, Register(o)
       PROVE  TypeOK'
  BY <1>11 DEF Register
<1>12. ASSUME NEW p \in Requests, NEW o \in Owners, GetNFTs(p, o)
       PROVE  TypeOK'
  BY <1>12, NewScanType DEF GetNFTs
<1>13. ASSUME NEW p \in Scanners, IndexReverts(p)
       PROVE  TypeOK'
  BY <1>7, <1>13 DEF IndexReverts
<1>14. ASSUME NEW p \in Scanners, CallFails(p)
       PROVE  TypeOK'
  <2>1. faults' \in 0 .. MaxFaults
    BY <1>14, BoundAssumption DEF CallFails
  <2> QED
    BY <1>7, <1>14, <2>1 DEF CallFails
<1> QED
  BY <1>1, <1>2, <1>3, <1>4, <1>5, <1>6, <1>8, <1>9, <1>10, <1>11, <1>12, <1>13, <1>14,
     <1>15 DEF Next, Advance

-----------------------------------------------------------------------------
(* An undisturbed scan agrees with the contract                             *)

LEMMA AgreementIsExact == ScansAgree => ExactIfQuiet
BY DEF ExactIfQuiet, ScansAgree, Agrees

(* Transfers leave alone the tokens of the scans they do not disturb.       *)
LEMMA TransferKeepsAgreement ==
  ASSUME TypeOK, ScansAgree, NEW os \in SUBSET Owners,
         task' = Disturbed(os),
         \A q \in Owners \ os : owned'[q] = owned[q]
  PROVE  ScansAgree'
<1> SUFFICES ASSUME NEW p \in Scanners, task'[p] # None
             PROVE  Agrees(task'[p], owned'[task'[p].owner])
  BY DEF ScansAgree, Agrees
<1>1. task[p] # None /\ task[p] \in ScanTask
  BY DisturbedTasks, TaskFields
<1>2. Agrees(task[p], owned[task[p].owner])
  BY <1>1 DEF ScansAgree
<1>3. task'[p] = task[p] \/ task'[p] = [task[p] EXCEPT !.quiet = FALSE]
  BY DEF Disturbed
<1>4. CASE task'[p].quiet
  <2>1. task[p].owner \notin os /\ task'[p] = task[p]
    BY <1>1, <1>4, DisturbedTasks
  <2>2. owned'[task[p].owner] = owned[task[p].owner]
    BY <1>1, <2>1, TaskFields
  <2> QED
    BY <1>2, <2>1, <2>2
<1>5. CASE ~task'[p].quiet
  <2>1. /\ task'[p].n = task[p].n /\ task'[p].out = task[p].out
        /\ task'[p].token = task[p].token
    BY <1>1, <1>3 DEF ScanTask
  <2> QED
    BY <1>2, <1>5, <2>1 DEF Agrees
<1> QED
  BY <1>4, <1>5

(* Any other step changes one scan at most, and the contract not at all.    *)
LEMMA OneScanKeepsAgreement ==
  ASSUME TypeOK, ScansAgree, NEW p \in Scanners, NEW k,
         task' = [task EXCEPT ![p] = k], owned' = owned,
         k = None \/ Agrees(k, owned[k.owner])
  PROVE  ScansAgree'
<1> SUFFICES ASSUME NEW r \in Scanners, task'[r] # None
             PROVE  Agrees(task'[r], owned[task'[r].owner])
  BY DEF ScansAgree, Agrees
<1>1. CASE r = p
  BY <1>1 DEF TypeOK
<1>2. CASE r # p
  BY <1>2 DEF ScansAgree, TypeOK
<1> QED
  BY <1>1, <1>2

LEMMA AgreementStep ==
  ASSUME TypeOK, ScansAgree, [Next]_vars
  PROVE  ScansAgree'
<1>1. CASE UNCHANGED <<task, owned>>
  BY <1>1 DEF ScansAgree, Agrees
<1>2. ASSUME NEW x \in NFTs, NEW o \in Owners, Arrive(x, o) \/ Leave(x, o)
      PROVE  ScansAgree'
  <2>1. task' = Disturbed({o}) /\ \A q \in Owners \ {o} : owned'[q] = owned[q]
    BY <1>2 DEF Arrive, Leave, TypeOK
  <2> QED
    BY <2>1, TransferKeepsAgreement
<1>3. ASSUME NEW x \in NFTs, NEW o \in Owners, NEW q \in Owners, Transfer(x, o, q)
      PROVE  ScansAgree'
  <2>1. task' = Disturbed({o, q}) /\ \A r \in Owners \ {o, q} : owned'[r] = owned[r]
    BY <1>3 DEF Transfer, TypeOK
  <2> QED
    BY <2>1, TransferKeepsAgreement
<1>4. ASSUME NEW p \in Scanners, ReadBalance(p)
      PROVE  ScansAgree'
  <2> DEFINE len == Len(owned[task[p].owner])
             k == [task[p] EXCEPT !.n = len]
  <2>1. task[p] # None /\ task[p].n = None /\ task' = [task EXCEPT ![p] = k] /\ owned' = owned
    BY <1>4 DEF ReadBalance, TypeOK
  <2>2. /\ task[p] \in ScanTask /\ len \in Nat
        /\ k.owner = task[p].owner /\ k.n = len /\ k.out = task[p].out
        /\ k.token = task[p].token
    BY <2>1, TaskFields DEF ScanTask
  <2>3. task[p].out = <<>> /\ task[p].token = None
    BY <2>1 DEF ScansAgree, Agrees
  <2>4. Agrees(k, owned[k.owner])
    BY <2>2, <2>3, NoneAssumption DEF Agrees
  <2> HIDE DEF k
  <2> QED
    BY <2>1, <2>4, OneScanKeepsAgreement
<1>5. ASSUME NEW p \in Scanners, NEW uri \in BOOLEAN, ReadURI(p, uri)
      PROVE  ScansAgree'
  <2> DEFINE os == owned[task[p].owner]
             out == task[p].out
             item == [nft |-> task[p].token, uri |-> uri]
             k == [task[p] EXCEPT !.out = Append(out, item), !.token = None]
  <2>1. /\ task[p] # None /\ task[p].token # None
        /\ task' = [task EXCEPT ![p] = k] /\ owned' = owned
    BY <1>5 DEF ReadURI, TypeOK
  <2>2. /\ task[p] \in ScanTask /\ out \in Seq(NFTItem) /\ task[p].token \in NFTs
        /\ k.owner = task[p].owner /\ k.n = task[p].n /\ k.quiet = task[p].quiet
        /\ k.out = Append(out, item) /\ k.token = None
    BY <2>1, TaskFields DEF ScanTask, Listing
  <2>3. item \in NFTItem /\ item.nft = task[p].token
    BY <2>2 DEF NFTItem
  <2>4. Agrees(task[p], os)
    BY <2>1 DEF ScansAgree
  <2>5. /\ Len(k.out) = Len(out) + 1
        /\ k.out[Len(out) + 1] = item
        /\ \A i \in 1 .. Len(out) : k.out[i] = out[i]
        /\ Len(out) \in Nat
    BY <2>2, <2>3
  <2>6. task[p].n # None /\ task[p].n \in Nat
    BY <2>1, <2>4, TaskFields DEF Agrees
  <2>7. k.quiet => /\ task[p].n = Len(os) /\ Len(out) < task[p].n
                   /\ task[p].token = os[Len(out) + 1]
                   /\ \A i \in 1 .. Len(out) : out[i].nft = os[i]
    BY <2>1, <2>2, <2>4, <2>6 DEF Agrees
  <2> HIDE DEF k, item, os, out
  <2>8. Agrees(k, os)
    <3>1. ASSUME k.quiet
          PROVE  Len(k.out) <= k.n /\ k.n = Len(os)
      BY <2>2, <2>5, <2>6, <2>7, <3>1
    <3>2. ASSUME k.quiet, NEW i \in 1 .. Len(k.out)
          PROVE  k.out[i].nft = os[i]
      <4>1. CASE i = Len(out) + 1
        BY <2>3, <2>5, <2>7, <3>2, <4>1
      <4>2. CASE i \in 1 .. Len(out)
        BY <2>5, <2>7, <3>2, <4>2
      <4> QED
        BY <2>5, <3>2, <4>1, <4>2
    <3> QED
      BY <2>2, <2>6, <3>1, <3>2 DEF Agrees
  <2> QED
    BY <2>1, <2>2, <2>8, OneScanKeepsAgreement DEF os
<1>10. ASSUME NEW p \in Scanners, ReadToken(p)
       PROVE  ScansAgree'
  <2> DEFINE os == owned[task[p].owner]
             k == [task[p] EXCEPT !.token = os[Index(p)]]
  <2>1. /\ task[p] # None /\ task[p].n # None /\ Len(task[p].out) < task[p].n
        /\ task' = [task EXCEPT ![p] = k] /\ owned' = owned
    BY <1>10 DEF ReadToken, Asking, TypeOK
  <2>2. /\ task[p] \in ScanTask
        /\ k.owner = task[p].owner /\ k.n = task[p].n /\ k.quiet = task[p].quiet
        /\ k.out = task[p].out /\ k.token = os[Len(task[p].out) + 1]
    BY <2>1, TaskFields DEF ScanTask, Index
  <2>3. Agrees(task[p], os)
    BY <2>1 DEF ScansAgree
  <2> HIDE DEF k
  <2>4. Agrees(k, os)
    BY <2>1, <2>2, <2>3 DEF Agrees
  <2> QED
    BY <2>1, <2>2, <2>4, OneScanKeepsAgreement
<1>6. ASSUME NEW p \in Scanners, Fail(p) \/ Publish(p)
      PROVE  ScansAgree'
  <2>1. task' = [task EXCEPT ![p] = None] /\ owned' = owned
    BY <1>6 DEF Fail, Publish
  <2> QED
    BY <2>1, OneScanKeepsAgreement
<1>7. ASSUME NEW p \in Scanners, NEW o \in Owners,
             task' = [task EXCEPT ![p] = NewScan(o)], owned' = owned
      PROVE  ScansAgree'
  <2>1. Agrees(NewScan(o), owned[NewScan(o).owner])
    BY DEF Agrees, NewScan
  <2> QED
    BY <1>7, <2>1, OneScanKeepsAgreement
<1>8. ASSUME NEW o \in Owners, ScanNext(o)
      PROVE  ScansAgree'
  BY <1>7, <1>8, LoopScans DEF ScanNext
<1>9. ASSUME NEW p \in Requests, NEW o \in Owners, GetNFTs(p, o)
      PROVE  ScansAgree'
  BY <1>1, <1>7, <1>9, LoopScans DEF GetNFTs
<1> QED
  BY <1>1, <1>2, <1>3, <1>4, <1>5, <1>6, <1>8, <1>9, <1>10 DEF Next, vars, Advance,
     IndexReverts, CallFails, ScanOnce, Register

-----------------------------------------------------------------------------
(* IInv holds of every reachable state.                                     *)
THEOREM Inductive == Spec => []IInv
<1>1. Init => IInv
  BY TypeInit DEF Init, IInv, ScansAgree
<1>2. IInv /\ [Next]_vars => IInv'
  BY TypeStep, AgreementStep DEF IInv
<1> QED
  BY <1>1, <1>2, PTL DEF Spec

(* Caches, errors and scans under way stay well-formed.                     *)
THEOREM TypeCorrect == Spec => []TypeOK
BY Inductive, PTL DEF IInv

(* A scan that no transfer disturbs lists exactly its owner's tokens.       *)
THEOREM ScansAreExact == Spec => []ExactIfQuiet
BY Inductive, AgreementIsExact, PTL DEF IInv

(* A failure never touches a listing, and only a listing clears an error.   *)
THEOREM FailureIsHarmless == Spec => FailureKeepsListing
<1>1. IInv /\ [Next]_vars => [ListingKept]_vars
  <2> SUFFICES ASSUME IInv, [Next]_vars, NEW o \in Owners,
                      cache'[o] # cache[o] \/ (lastErr[o] /\ ~lastErr'[o])
               PROVE  Stored(o)
    BY DEF ListingKept
  <2> USE DEF IInv, TypeOK
  <2>1. ASSUME NEW p \in Scanners, Publish(p)
        PROVE  Stored(o)
    <3>1. task'[p] = None
      BY <2>1 DEF Publish
    <3>2. task[p].owner = o
      BY <2>1 DEF Publish, ErrorCleared
    <3> QED
      BY <2>1, <3>1, <3>2 DEF Publish, ErrorCleared, Stored
  <2>2. ASSUME NEW p \in Scanners, Fail(p)
        PROVE  FALSE
    <3>1. lastErr'[o] = lastErr[o] \/ lastErr'[o] = TRUE
      BY <2>2 DEF Fail
    <3> QED
      BY <2>2, <3>1 DEF Fail
  <2>3. ~UNCHANGED <<cache, lastErr>>
    OBVIOUS
  <2> QED
    BY <2>1, <2>2, <2>3 DEF Next, vars, Advance, Arrive, Leave, Transfer, ReadBalance,
       ReadToken, ReadURI, IndexReverts, CallFails, ScanOnce, ScanNext, Register, GetNFTs, watcher
<1> QED
  BY <1>1, Inductive, PTL DEF FailureKeepsListing, Spec
=============================================================================
