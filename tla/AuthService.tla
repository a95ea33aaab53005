----------------------------- MODULE AuthService -----------------------------
(***************************************************************************)
(* The authentication service of the backend: Sign-In-With-Ethereum nonces, *)
(* refresh-token rotation and logout.                                      *)
(*                                                                         *)
(* Sources: auth/service.go (Service, NonceStore, RefreshStore),            *)
(* auth/jwt.go, and the handlers that drive them, handlers/auth.go.         *)
(* Every HTTP request runs in a goroutine of its own.  The two stores are   *)
(* guarded by a mutex per call, and nothing is held between two calls, so   *)
(* a request is modelled as one action per store call.  A refused request   *)
(* that changed nothing is a stuttering step and has no action.             *)
(*                                                                         *)
(* A wallet is external: a request carries a message with a nonce that       *)
(* InitSIWE handed out, signed by some account.  The client may have written *)
(* the message itself; VerifySIWE compares domain, URI and nonce with the    *)
(* entry of the account and chain it names, so the text that gets as far as  *)
(* the signature differs from the one handed out in its expiration only.     *)
(* A nonce and a refresh token are random 128- and 256-bit strings: every    *)
(* issue takes a value never used before.                                   *)
(***************************************************************************)
EXTENDS Naturals, FiniteSets

CONSTANTS
  Accounts,    \* Ethereum accounts
  Spellings,   \* ways a client may write an address that IsHexAddress accepts
  Canonical,   \* the spelling of common.Address.Hex()
  Chains,      \* keys of cfg.RPCByChainID
  Origins,     \* origins that InitSIWE lets through
  Nonces,      \* supply of nonces: its size bounds the number of inits
  Tokens,      \* supply of refresh tokens: bounds logins and rotations
  Verifiers,   \* goroutines serving POST /auth/siwe/verify
  Refreshers,  \* goroutines serving POST /auth/refresh
  NonceTTL, AccessTTL, RefreshTTL,
  MaxTime,     \* bound of the clock
  None

Time == 0 .. MaxTime
Key == [account : Accounts, spelling : Spellings, chain : Chains]
Owner == [account : Accounts, chain : Chains]

NonceEntry == [nonce : Nonces, origin : Origins, expires : Nat]
(* What InitSIWE wrote into a message; key is the store key it used.         *)
Message == [key : Key, origin : Origins]
RefreshSession == [owner : Owner, expires : Nat]
(* The pair of tokens an IssueTokens call returned: the login it descends   *)
(* from, the nonce of its login and the JWT's claims.                       *)
TokenPair == [login : Tokens, nonce : Nonces, owner : Owner,
              accessExpires : Nat]
(* A verify request: "read" has the nonce entry it looked up, "accepted"    *)
(* has passed VerifySIWE, "registered" told the watcher of its account,      *)
(* "connected" has the Postgres pool.                                       *)
VerifyTask == [stage : {"read", "accepted", "registered", "connected"},
               nonce : Nonces]
(* A refresh request that has consumed the session of a token.             *)
RotateTask == [token : Tokens, session : RefreshSession]

ASSUME TTLAssumption == /\ NonceTTL \in Nat
                        /\ AccessTTL \in Nat
                        /\ RefreshTTL \in Nat
                        /\ MaxTime \in Nat
ASSUME SpellingAssumption == Canonical \in Spellings
ASSUME VerifiersAssumption == IsFiniteSet(Verifiers)
ASSUME NoneAssumption == /\ None \notin NonceEntry
                         /\ None \notin Message
                         /\ None \notin RefreshSession
                         /\ None \notin TokenPair
                         /\ None \notin VerifyTask
                         /\ None \notin RotateTask
                         /\ None \notin Tokens
                         /\ None \notin Nat

VARIABLES
  now,       \* the wall clock
  nonces,    \* NonceStore.m
  sessions,  \* RefreshStore.m, indexed by the token rather than its hash
  vtask,     \* what each verify goroutine holds
  rtask,     \* what each refresh goroutine holds
  users,     \* Watcher.users
  db,        \* postgres.Provider: "none" before once.Do, then "open" or "failed"
  (* History: what the clients were given, and what was promised to them.  *)
  issued,    \* the message handed out with each nonce
  minted,    \* the token pair issued under each refresh token
  signedBy,  \* the accounts whose signature of a nonce was accepted
  revokedAt, \* when the session of a login was removed by Revoke
  calm       \* the latest nonce of its key, if no request had read another one

server == <<nonces, sessions, vtask, rtask, users, db>>
history == <<issued, minted, signedBy, revokedAt, calm>>
vars == <<now, nonces, sessions, vtask, rtask, users, db,
          issued, minted, signedBy, revokedAt, calm>>

TypeOK ==
  /\ now \in Time
  /\ nonces \in [Key -> NonceEntry \cup {None}]
  /\ sessions \in [Tokens -> RefreshSession \cup {None}]
  /\ vtask \in [Verifiers -> VerifyTask \cup {None}]
  /\ rtask \in [Refreshers -> RotateTask \cup {None}]
  /\ users \in SUBSET Accounts
  /\ db \in {"none", "open", "failed"}
  /\ issued \in [Nonces -> Message \cup {None}]
  /\ minted \in [Tokens -> TokenPair \cup {None}]
  /\ signedBy \in [Nonces -> SUBSET Accounts]
  /\ revokedAt \in [Tokens -> Nat \cup {None}]
  /\ calm \in SUBSET Nonces

InitServer ==
  /\ nonces = [k \in Key |-> None]
  /\ sessions = [t \in Tokens |-> None]
  /\ vtask = [v \in Verifiers |-> None]
  /\ rtask = [r \in Refreshers |-> None]
  /\ users = {}
  /\ db = "none"

Init ==
  /\ now = 0
  /\ InitServer
  /\ issued = [n \in Nonces |-> None]
  /\ minted = [t \in Tokens |-> None]
  /\ signedBy = [n \in Nonces |-> {}]
  /\ revokedAt = [t \in Tokens |-> None]
  /\ calm = {}

-----------------------------------------------------------------------------
(* The stores: one operator per call made under a store's mutex             *)

NonceKept(k) == nonces                         \* fault: Delete left out

NonceDelete(k) == [nonces EXCEPT ![k] = None]

NonceTaken(k) == NonceDelete(k)                \* fault: Get and Delete in one

(* The store after Get.                                                     *)
NonceGet(k) == nonces

SessionKept(t) == sessions                     \* fault: Consume does not delete

SessionDelete(t) == [sessions EXCEPT ![t] = None]

-----------------------------------------------------------------------------
(* nonceKey of the address and chain that the message of nonce n names.     *)
MessageKey(n) == [issued[n].key EXCEPT !.spelling = Canonical]

MessageOwner(n) == [account |-> issued[n].key.account,
                    chain   |-> issued[n].key.chain]

(* Verify requests whose Get of the entry of k their Delete is still to      *)
(* follow.                                                                  *)
Reading(k) == {v \in Verifiers : /\ vtask[v] # None
                                 /\ vtask[v].stage = "read"
                                 /\ MessageKey(vtask[v].nonce) = k}

(* POST /auth/siwe/init                                                     *)

(* The entry is stored under the address as the client spelled it, while    *)
(* the message names the address in its canonical form.                     *)
InitSIWE(k, o, n) ==
  /\ issued[n] = None
  /\ issued' = [issued EXCEPT ![n] = [key |-> k, origin |-> o]]
  /\ nonces' = [nonces EXCEPT
                  ![k] = [nonce |-> n, origin |-> o, expires |-> now + NonceTTL]]
  /\ calm' = {m \in calm : issued[m].key # k}
               \cup (IF Reading(k) = {} THEN {n} ELSE {})
  /\ UNCHANGED <<now, sessions, vtask, rtask, users, db,
                 minted, signedBy, revokedAt>>

-----------------------------------------------------------------------------
(* POST /auth/siwe/verify                                                   *)

(* The checks VerifySIWE makes of the message of n against a store entry.   *)
EntryMatches(e, n) == /\ e # None
                      /\ now <= e.expires
                      /\ e.origin = issued[n].origin
                      /\ e.nonce = n

(* VerifySIWE up to the signature: the entry is read, and left in place: a   *)
(* request that fails later does not cost the client its nonce.             *)
VerifyGet(v, n) ==
  /\ vtask[v] = None
  /\ issued[n] # None
  /\ EntryMatches(nonces[MessageKey(n)], n)
  /\ nonces' = NonceGet(MessageKey(n))
  /\ vtask' = [vtask EXCEPT ![v] = [stage |-> "read", nonce |-> n]]
  /\ UNCHANGED <<now, sessions, rtask, users, db, history>>

SignatureUnchecked(n, signer, until) == now <= until             \* fault

(* siwe's Message.Verify: the expiration time written in the message, and    *)
(* its signer.                                                              *)
SignatureValid(n, signer, until) == now <= until /\ signer = issued[n].key.account

(* The signature holds: VerifySIWE deletes whatever is stored under the key. *)
VerifyDelete(v, signer, until) ==
  /\ vtask[v] # None
  /\ vtask[v].stage = "read"
  /\ LET n == vtask[v].nonce IN
       /\ SignatureValid(n, signer, until)
       /\ nonces' = NonceDelete(MessageKey(n))
       /\ signedBy' = [signedBy EXCEPT ![n] = @ \cup {signer}]
  /\ vtask' = [vtask EXCEPT ![v].stage = "accepted"]
  /\ UNCHANGED <<now, sessions, rtask, users, db,
                 issued, minted, revokedAt, calm>>

VerifyRefused(v, signer, until) ==
  /\ vtask[v] # None
  /\ vtask[v].stage = "read"
  /\ ~SignatureValid(vtask[v].nonce, signer, until)
  /\ vtask' = [vtask EXCEPT ![v] = None]
  /\ UNCHANGED <<now, nonces, sessions, rtask, users, db, history>>

(* Watcher.Register.                                                        *)
Register(v) ==
  /\ vtask[v] # None
  /\ vtask[v].stage = "accepted"
  /\ users' = users \cup {MessageOwner(vtask[v].nonce).account}
  /\ vtask' = [vtask EXCEPT ![v].stage = "registered"]
  /\ UNCHANGED <<now, nonces, sessions, rtask, db, history>>

AfterPoolUnchecked(n) == [stage |-> "connected", nonce |-> n]    \* fault

(* A request without a pool ends in a 500, its nonce spent.                 *)
AfterPool(n) == IF db' = "open" THEN [stage |-> "connected", nonce |-> n]
                                ELSE None

(* Provider.Pool: the first call opens the pool or fails for good            *)
(* (sync.Once).                                                             *)
Connect(v) ==
  /\ vtask[v] # None
  /\ vtask[v].stage = "registered"
  /\ db' \in IF db = "none" THEN {"open", "failed"} ELSE {db}
  /\ vtask' = [vtask EXCEPT ![v] = AfterPool(vtask[v].nonce)]
  /\ UNCHANGED <<now, nonces, sessions, rtask, users, history>>

(* IssueTokens: a JWT that no store knows of, and RefreshStore.Create.      *)
IssueTokens(t, login, n, owner) ==
  /\ minted[t] = None
  /\ sessions' = [sessions EXCEPT
                    ![t] = [owner |-> owner, expires |-> now + RefreshTTL]]
  /\ minted' = [minted EXCEPT
                  ![t] = [login |-> login, nonce |-> n,
                          owner |-> owner, accessExpires |-> now + AccessTTL]]
  /\ UNCHANGED <<now, nonces, users, db, issued, signedBy, revokedAt, calm>>

(* The first pair of a login; its refresh token names the login.            *)
IssueLogin(v, t) ==
  /\ vtask[v] # None
  /\ vtask[v].stage = "connected"
  /\ IssueTokens(t, t, vtask[v].nonce, MessageOwner(vtask[v].nonce))
  /\ vtask' = [vtask EXCEPT ![v] = None]
  /\ UNCHANGED rtask

(* IssueTokens returns an error (no randomness): the login is lost.         *)
IssueLoginFails(v) ==
  /\ vtask[v] # None
  /\ vtask[v].stage = "connected"
  /\ vtask' = [vtask EXCEPT ![v] = None]
  /\ UNCHANGED <<now, nonces, sessions, rtask, users, db, history>>

-----------------------------------------------------------------------------
(* POST /auth/refresh                                                       *)

(* RefreshStore.Consume reads and deletes the session under one lock.       *)
Consume(r, t) ==
  /\ rtask[r] = None
  /\ sessions[t] # None
  /\ rtask' = [rtask EXCEPT ![r] = [token |-> t, session |-> sessions[t]]]
  /\ sessions' = SessionDelete(t)
  /\ UNCHANGED <<now, nonces, vtask, users, db, history>>

SharedOwner(r) ==                              \* fault: a variable shared by all requests
  rtask[CHOOSE q \in Refreshers : rtask[q] # None].session.owner

(* sess.Address and sess.ChainID of the session this request consumed.      *)
SessionOwner(r) == rtask[r].session.owner

(* The rest of RotateRefresh: a live session gets a new pair of tokens.     *)
RotateRefresh(r, t) ==
  /\ rtask[r] # None
  /\ now <= rtask[r].session.expires
  /\ LET old == rtask[r].token IN
       IssueTokens(t, minted[old].login, minted[old].nonce, SessionOwner(r))
  /\ rtask' = [rtask EXCEPT ![r] = None]
  /\ UNCHANGED vtask

(* An expired session, or IssueTokens returning an error: the session is    *)
(* already gone from the store, and stays so.                               *)
RotateFails(r) ==
  /\ rtask[r] # None
  /\ rtask' = [rtask EXCEPT ![r] = None]
  /\ UNCHANGED <<now, nonces, sessions, vtask, users, db, history>>

-----------------------------------------------------------------------------
(* POST /auth/logout                                                        *)

(* RevokeRefresh deletes the session if there is one; the handler answers   *)
(* {"ok": true} whether or not there was.                                   *)
Logout(t) ==
  /\ minted[t] # None
  /\ sessions' = SessionDelete(t)
  /\ revokedAt' = IF sessions[t] # None
                    THEN [revokedAt EXCEPT ![minted[t].login] = now]
                    ELSE revokedAt
  /\ UNCHANGED <<now, nonces, vtask, rtask, users, db, issued, minted, signedBy, calm>>

-----------------------------------------------------------------------------
(* The environment                                                          *)

Tick == /\ now < MaxTime
        /\ now' = now + 1
        /\ UNCHANGED <<server, history>>

(* The process restarts.  Everything it kept was in memory; clients still   *)
(* hold their messages and tokens, and the JWT secret is configuration.     *)
Restart ==
  /\ nonces' = [k \in Key |-> None]
  /\ sessions' = [t \in Tokens |-> None]
  /\ vtask' = [v \in Verifiers |-> None]
  /\ rtask' = [r \in Refreshers |-> None]
  /\ users' = {}
  /\ db' = "none"
  /\ calm' = {}
  /\ UNCHANGED <<now, issued, minted, signedBy, revokedAt>>

Next ==
  \/ \E k \in Key, o \in Origins, n \in Nonces : InitSIWE(k, o, n)
  \/ \E v \in Verifiers, n \in Nonces : VerifyGet(v, n)
  \/ \E v \in Verifiers, s \in Accounts, e \in Time : VerifyDelete(v, s, e)
  \/ \E v \in Verifiers, s \in Accounts, e \in Time : VerifyRefused(v, s, e)
  \/ \E v \in Verifiers : Register(v) \/ Connect(v)
  \/ \E v \in Verifiers, t \in Tokens : IssueLogin(v, t)
  \/ \E v \in Verifiers : IssueLoginFails(v)
  \/ \E r \in Refreshers, t \in Tokens : Consume(r, t)
  \/ \E r \in Refreshers, t \in Tokens : RotateRefresh(r, t)
  \/ \E r \in Refreshers : RotateFails(r)
  \/ \E t \in Tokens : Logout(t)
  \/ Tick
  \/ Restart

Spec == Init /\ [][Next]_vars

-----------------------------------------------------------------------------
(* Properties                                                               *)

(* The tokens of login f with a live session, and the refresh requests that *)
(* have consumed a session of f and not yet answered.                       *)
LiveTokens(f) == {t \in Tokens : sessions[t] # None /\ minted[t].login = f}

Rotating(f) == {r \in Refreshers : /\ rtask[r] # None
                                   /\ minted[rtask[r].token].login = f}

(* However refreshes and logouts interleave, a login lives in one place: one *)
(* session in the store, or one refresh request that is rotating it.  Two   *)
(* requests with one token never fork a login (RefreshStore.Consume).       *)
OneHolderPerLogin ==
  \A f \in Tokens :
    /\ \A t, u \in LiveTokens(f) : t = u
    /\ \A r, q \in Rotating(f) : r = q
    /\ LiveTokens(f) = {} \/ Rotating(f) = {}

(* Once Revoke has removed a session, nothing of that login is left to be   *)
(* rotated, now or later (RevokeRefresh).                                   *)
RevokedLoginStaysDead ==
  \A f \in Tokens : revokedAt[f] # None => LiveTokens(f) = {} /\ Rotating(f) = {}

(* No store knows of the JWTs, so a logout cannot recall them; but none of  *)
(* the login outlives the revocation by more than AccessTTL.                *)
RevokedAccessDiesOut ==
  \A t \in Tokens :
    minted[t] # None /\ revokedAt[minted[t].login] # None
      => minted[t].accessExpires <= revokedAt[minted[t].login] + AccessTTL

(* Delete removes whatever is stored under its key by then, so a client may  *)
(* lose a nonce that nobody has spent; but it keeps the one that InitSIWE    *)
(* gave it last, however often a signature is refused, unless the process    *)
(* restarts or a verify request had read an older nonce of the key before    *)
(* (VerifySIWE).                                                            *)
KeepsNonce(n) ==
  nonces[issued[n].key] # None /\ nonces[issued[n].key].nonce = n

NonceLostToOverlapOnly == \A n \in calm : signedBy[n] = {} => KeepsNonce(n)

(* VerifySIWE reads the entry and deletes it in two steps, so one nonce can *)
(* log in more than once; but only verify requests that were under way      *)
(* together can, so never more often than there are such requests.          *)
LoginsOf(n) ==
  {t \in Tokens : minted[t] # None /\ minted[t].login = t /\ minted[t].nonce = n}

NonceReuseBounded ==
  \A n \in Nonces : Cardinality(LoginsOf(n)) <= Cardinality(Verifiers)

(* Through any number of rotations, a token pair serves the account whose   *)
(* signature opened its login, on the chain its message named.              *)
TokensBelongToSigner ==
  \A t \in Tokens :
    minted[t] # None =>
      /\ signedBy[minted[t].nonce] = {minted[t].owner.account}
      /\ minted[t].owner = MessageOwner(minted[t].nonce)
      /\ sessions[t] # None => sessions[t].owner = minted[t].owner

(* Every session that can be refreshed has what SiweVerify sets up before   *)
(* issuing it: an open Postgres pool and an NFT watcher that scans its      *)
(* owner.  A restart takes all three away together.                         *)
SessionBacked ==
  \A t \in Tokens :
    sessions[t] # None => db = "open" /\ sessions[t].owner.account \in users

(* "nonce is one-time" (src/cmd/api/main.go:355): no two logins stem from   *)
(* one nonce.  Two verify requests that both pass Get before either Delete  *)
(* refute it.                                                               *)
NonceOneTime ==
  \A t, u \in Tokens :
    /\ minted[t] # None /\ minted[t].login = t
    /\ minted[u] # None /\ minted[u].login = u
    /\ minted[t].nonce = minted[u].nonce
    => t = u

(* The service implements LoginSessions: a login serves the owners of its   *)
(* sessions, in the store or in the hands of a refresh request.             *)
ServedOwners ==
  [f \in Tokens |-> {sessions[t].owner : t \in LiveTokens(f)}
                    \cup {rtask[r].session.owner : r \in Rotating(f)}]

OpenedLogins == {minted[t].login : t \in {u \in Tokens : minted[u] # None}}

L == INSTANCE LoginSessions
       WITH Logins <- Tokens, Owners <- Owner,
            opened <- OpenedLogins, who <- ServedOwners

RefinesLogins == L!Spec

-----------------------------------------------------------------------------
(* The inductive invariant behind the properties, in named parts            *)

(* What a request or a store refers to was handed out, under the key that   *)
(* VerifySIWE looks up when it is a verify request that refers to it.       *)
Provenance ==
  /\ \A k \in Key : nonces[k] # None =>
       issued[nonces[k].nonce] # None /\ issued[nonces[k].nonce].key = k
  /\ \A v \in Verifiers : vtask[v] # None =>
       /\ issued[vtask[v].nonce] # None
       /\ issued[vtask[v].nonce].key.spelling = Canonical
  /\ \A n \in Nonces : signedBy[n] # {} =>
       issued[n] # None /\ signedBy[n] = {issued[n].key.account}
  /\ \A t \in Tokens : sessions[t] # None => minted[t] # None
  /\ \A r \in Refreshers : rtask[r] # None => minted[rtask[r].token] # None
  /\ \A t \in Tokens : minted[t] # None =>
       minted[minted[t].login] # None /\ issued[minted[t].nonce] # None
  /\ \A f \in Tokens : revokedAt[f] # None => minted[f] # None

(* No entry of the store has a nonce with an accepted signature.            *)
SpentNonceGone ==
  \A k \in Key : nonces[k] # None => signedBy[nonces[k].nonce] = {}

(* What is stored under the key of a calm nonce, and what requests have read  *)
(* there and are about to delete, is its own entry.                         *)
CalmNonces ==
  \A n \in calm :
    /\ issued[n] # None
    /\ \A k \in Key : k = issued[n].key =>
         /\ nonces[k] # None => nonces[k].nonce = n
         /\ \A v \in Reading(k) : vtask[v].nonce = n

(* An accepted request, and a rotation under way, act for the signer.       *)
Authenticated ==
  /\ \A v \in Verifiers :
       vtask[v] # None /\ vtask[v].stage # "read" => signedBy[vtask[v].nonce] # {}
  /\ \A r \in Refreshers : rtask[r] # None =>
       rtask[r].session.owner = minted[rtask[r].token].owner

(* The pool and the watcher's registration are there before a session is.   *)
Prepared ==
  /\ \A v \in Verifiers : vtask[v] # None =>
       /\ vtask[v].stage \in {"registered", "connected"} =>
            MessageOwner(vtask[v].nonce).account \in users
       /\ vtask[v].stage = "connected" => db = "open"
  /\ \A r \in Refreshers : rtask[r] # None =>
       db = "open" /\ rtask[r].session.owner.account \in users

(* Nothing is dated later than the clock allows.                            *)
Dated ==
  /\ \A t \in Tokens : minted[t] # None => minted[t].accessExpires <= now + AccessTTL
  /\ \A f \in Tokens : revokedAt[f] # None => revokedAt[f] <= now

IInv == /\ TypeOK
        /\ Provenance
        /\ Authenticated
        /\ Prepared
        /\ Dated
        /\ SpentNonceGone
        /\ CalmNonces
        /\ NonceLostToOverlapOnly
        /\ TokensBelongToSigner
        /\ SessionBacked
        /\ OneHolderPerLogin
        /\ RevokedLoginStaysDead
        /\ RevokedAccessDiesOut
=============================================================================
