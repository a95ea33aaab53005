-------------------------- MODULE AuthServiceProofs --------------------------
(***************************************************************************)
(* The safety properties of AuthService, proved for every value of its      *)
(* constants.  IInv is inductive; its parts are preserved one lemma each,    *)
(* one step per action, and the theorems follow from IInv.                  *)
(***************************************************************************)
EXTENDS AuthService, FiniteSetTheorems, TLAPS

(* What is written into a store has the type of its entries.                *)
LEMMA MessageOwnerType ==
  ASSUME TypeOK, NEW n \in Nonces, issued[n] # None
  PROVE  /\ MessageOwner(n) \in Owner
         /\ MessageKey(n) \in Key
         /\ issued[n].key \in Key
         /\ issued[n].origin \in Origins
<1>1. issued[n] \in Message
  BY DEF TypeOK
<1>2. issued[n].key \in Key /\ issued[n].origin \in Origins
  BY <1>1 DEF Message
<1>3. MessageOwner(n) \in Owner
  BY <1>2 DEF MessageOwner, Owner, Key
<1>4. MessageKey(n) \in Key
  BY <1>2, SpellingAssumption DEF MessageKey, Key
<1> QED
  BY <1>2, <1>3, <1>4

(* The effect of IssueTokens: one fresh pair, one live session.             *)
Issued(t, login, n, owner) ==
  /\ minted[t] = None
  /\ minted'[t] # None
  /\ minted'[t].login = login
  /\ minted'[t].nonce = n
  /\ minted'[t].owner = owner
  /\ minted'[t].accessExpires = now + AccessTTL
  /\ sessions'[t] # None
  /\ sessions'[t].owner = owner
  /\ \A u \in Tokens \ {t} : minted'[u] = minted[u] /\ sessions'[u] = sessions[u]

LEMMA IssueTokensEffect ==
  ASSUME TypeOK, NEW t \in Tokens, NEW login \in Tokens,
         NEW n \in Nonces, NEW owner \in Owner,
         IssueTokens(t, login, n, owner)
  PROVE  Issued(t, login, n, owner)
<1> DEFINE pair == [login |-> login, nonce |-> n, owner |-> owner,
                    accessExpires |-> now + AccessTTL]
           session == [owner |-> owner, expires |-> now + RefreshTTL]
<1>1. now + RefreshTTL \in Nat /\ now + AccessTTL \in Nat
  BY TTLAssumption DEF TypeOK, Time
<1>2. pair \in TokenPair /\ session \in RefreshSession
  BY <1>1 DEF TokenPair, RefreshSession
<1>3. pair # None /\ session # None
  BY <1>2, NoneAssumption
<1>4. minted' = [minted EXCEPT ![t] = pair] /\ sessions' = [sessions EXCEPT ![t] = session]
  BY DEF IssueTokens
<1>5. minted'[t] = pair /\ sessions'[t] = session
  BY <1>4 DEF TypeOK
<1>6. \A u \in Tokens \ {t} : minted'[u] = minted[u] /\ sessions'[u] = sessions[u]
  BY <1>4 DEF TypeOK
<1> QED
  BY <1>3, <1>5, <1>6 DEF Issued, IssueTokens

LEMMA IssueLoginEffect ==
  ASSUME TypeOK, Provenance, NEW v \in Verifiers, NEW t \in Tokens, IssueLogin(v, t)
  PROVE  /\ vtask[v].nonce \in Nonces /\ issued[vtask[v].nonce] # None
         /\ Issued(t, t, vtask[v].nonce, MessageOwner(vtask[v].nonce))
<1>1. vtask[v].nonce \in Nonces /\ issued[vtask[v].nonce] # None
  BY DEF IssueLogin, TypeOK, Provenance, VerifyTask
<1>2. MessageOwner(vtask[v].nonce) \in Owner
  BY <1>1, MessageOwnerType
<1> QED
  BY <1>1, <1>2, IssueTokensEffect DEF IssueLogin

LEMMA RotateRefreshEffect ==
  ASSUME TypeOK, Provenance, NEW r \in Refreshers, NEW t \in Tokens, RotateRefresh(r, t)
  PROVE  LET old == rtask[r].token IN
         /\ old \in Tokens /\ minted[old] # None
         /\ minted[old].login \in Tokens /\ minted[old].nonce \in Nonces
         /\ Issued(t, minted[old].login, minted[old].nonce, rtask[r].session.owner)
<1> DEFINE old == rtask[r].token
<1>1. old \in Tokens /\ rtask[r].session.owner \in Owner
  BY DEF RotateRefresh, TypeOK, RotateTask, RefreshSession
<1>2. minted[old] # None /\ minted[old] \in TokenPair
  BY <1>1 DEF RotateRefresh, TypeOK, Provenance
<1>3. minted[old].login \in Tokens /\ minted[old].nonce \in Nonces
  BY <1>2 DEF TokenPair
<1>4. IssueTokens(t, minted[old].login, minted[old].nonce, rtask[r].session.owner)
  BY DEF RotateRefresh, SessionOwner
<1> QED
  BY <1>1, <1>2, <1>3, <1>4, IssueTokensEffect

-----------------------------------------------------------------------------
(* Type correctness                                                         *)

LEMMA TypeInit == Init => TypeOK
BY TTLAssumption DEF Init, InitServer, TypeOK, Time

LEMMA TypeStep ==
  ASSUME TypeOK, Provenance, [Next]_vars
  PROVE  TypeOK'
<1> USE DEF TypeOK
<1>1. CASE UNCHANGED vars
  BY <1>1 DEF vars
<1>2. ASSUME NEW k \in Key, NEW o \in Origins, NEW n \in Nonces, InitSIWE(k, o, n)
      PROVE  TypeOK'
  <2>1. now + NonceTTL \in Nat
    BY TTLAssumption DEF Time
  <2>2. issued' \in [Nonces -> Message \cup {None}]
    BY <1>2 DEF InitSIWE, Message
  <2>3. nonces' \in [Key -> NonceEntry \cup {None}]
    BY <1>2, <2>1 DEF InitSIWE, NonceEntry
  <2> QED
    BY <1>2, <2>2, <2>3 DEF InitSIWE
<1>3. ASSUME NEW v \in Verifiers, NEW n \in Nonces, VerifyGet(v, n)
      PROVE  TypeOK'
  <2>1. vtask' \in [Verifiers -> VerifyTask \cup {None}]
    BY <1>3 DEF VerifyGet, VerifyTask
  <2> QED
    BY <1>3, <2>1 DEF VerifyGet, NonceGet, history
<1>4. ASSUME NEW v \in Verifiers, NEW s \in Accounts, NEW e \in Time, VerifyDelete(v, s, e)
      PROVE  TypeOK'
  <2>1. vtask[v] \in VerifyTask
    BY <1>4 DEF VerifyDelete
  <2>2. vtask' \in [Verifiers -> VerifyTask \cup {None}]
    BY <1>4, <2>1 DEF VerifyDelete, VerifyTask
  <2>3. nonces' \in [Key -> NonceEntry \cup {None}]
    BY <1>4 DEF VerifyDelete, NonceDelete
  <2>4. signedBy' \in [Nonces -> SUBSET Accounts]
    BY <1>4 DEF VerifyDelete
  <2> QED
    BY <1>4, <2>2, <2>3, <2>4 DEF VerifyDelete
<1>5. ASSUME NEW v \in Verifiers, NEW s \in Accounts, NEW e \in Time, VerifyRefused(v, s, e)
      PROVE  TypeOK'
  BY <1>5 DEF VerifyRefused, history
<1>6. ASSUME NEW v \in Verifiers, Register(v)
      PROVE  TypeOK'
  <2>1. vtask[v] \in VerifyTask /\ vtask[v].nonce \in Nonces
    BY <1>6 DEF Register, VerifyTask
  <2>2. MessageOwner(vtask[v].nonce) \in Owner
    BY <1>6, <2>1, MessageOwnerType DEF Register, Provenance
  <2>3. MessageOwner(vtask[v].nonce).account \in Accounts
    BY <2>2 DEF Owner
  <2>4. vtask' \in [Verifiers -> VerifyTask \cup {None}]
    BY <1>6, <2>1 DEF Register, VerifyTask
  <2> QED
    BY <1>6, <2>3, <2>4 DEF Register, history
<1>15. ASSUME NEW v \in Verifiers, Connect(v)
       PROVE  TypeOK'
  <2>1. vtask[v] \in VerifyTask /\ vtask[v].nonce \in Nonces
    BY <1>15 DEF Connect, VerifyTask
  <2>2. vtask' \in [Verifiers -> VerifyTask \cup {None}]
    BY <1>15, <2>1 DEF Connect, AfterPool, VerifyTask
  <2>3. db' \in {"none", "open", "failed"}
    BY <1>15 DEF Connect
  <2> QED
    BY <1>15, <2>2, <2>3 DEF Connect, history
<1>7. ASSUME NEW v \in Verifiers, NEW t \in Tokens, IssueLogin(v, t)
      PROVE  TypeOK'
  <2>1. vtask[v] \in VerifyTask /\ vtask[v].nonce \in Nonces
    BY <1>7 DEF IssueLogin, VerifyTask
  <2>2. MessageOwner(vtask[v].nonce) \in Owner
    BY <1>7, <2>1, MessageOwnerType DEF IssueLogin, Provenance
  <2>3. now + RefreshTTL \in Nat /\ now + AccessTTL \in Nat
    BY TTLAssumption DEF Time
  <2>4. sessions' \in [Tokens -> RefreshSession \cup {None}]
    BY <1>7, <2>2, <2>3 DEF IssueLogin, IssueTokens, RefreshSession
  <2>5. minted' \in [Tokens -> TokenPair \cup {None}]
    BY <1>7, <2>1, <2>2, <2>3 DEF IssueLogin, IssueTokens, TokenPair
  <2> QED
    BY <1>7, <2>4, <2>5 DEF IssueLogin, IssueTokens
<1>8. ASSUME NEW v \in Verifiers, IssueLoginFails(v)
      PROVE  TypeOK'
  BY <1>8 DEF IssueLoginFails, history
<1>9. ASSUME NEW r \in Refreshers, NEW t \in Tokens, Consume(r, t)
      PROVE  TypeOK'
  <2>1. rtask' \in [Refreshers -> RotateTask \cup {None}]
    BY <1>9 DEF Consume, RotateTask
  <2>2. sessions' \in [Tokens -> RefreshSession \cup {None}]
    BY <1>9 DEF Consume, SessionDelete
  <2> QED
    BY <1>9, <2>1, <2>2 DEF Consume, history
<1>10. ASSUME NEW r \in Refreshers, NEW t \in Tokens, RotateRefresh(r, t)
       PROVE  TypeOK'
  <2> DEFINE old == rtask[r].token
  <2>1. rtask[r] \in RotateTask /\ old \in Tokens /\ rtask[r].session.owner \in Owner
    BY <1>10 DEF RotateRefresh, RotateTask, RefreshSession
  <2>2. minted[old] \in TokenPair
    BY <1>10, <2>1 DEF RotateRefresh, Provenance
  <2>3. minted[old].login \in Tokens /\ minted[old].nonce \in Nonces
    BY <2>2 DEF TokenPair
  <2>4. now + RefreshTTL \in Nat /\ now + AccessTTL \in Nat
    BY TTLAssumption DEF Time
  <2>5. sessions' \in [Tokens -> RefreshSession \cup {None}]
    BY <1>10, <2>1, <2>4 DEF RotateRefresh, SessionOwner, IssueTokens, RefreshSession
  <2>6. minted' \in [Tokens -> TokenPair \cup {None}]
    BY <1>10, <2>1, <2>3, <2>4 DEF RotateRefresh, IssueTokens, TokenPair, SessionOwner
  <2> QED
    BY <1>10, <2>5, <2>6 DEF RotateRefresh, IssueTokens
<1>11. ASSUME NEW r \in Refreshers, RotateFails(r)
       PROVE  TypeOK'
  BY <1>11 DEF RotateFails, history
<1>12. ASSUME NEW t \in Tokens, Logout(t)
       PROVE  TypeOK'
  <2>1. minted[t].login \in Tokens
    BY <1>12 DEF Logout, TokenPair
  <2>2. sessions' \in [Tokens -> RefreshSession \cup {None}]
    BY <1>12 DEF Logout, SessionDelete
  <2>3. revokedAt' \in [Tokens -> Nat \cup {None}]
    <3>1. now \in Nat
      BY DEF Time
    <3>2. CASE sessions[t] # None
      BY <1>12, <2>1, <3>1, <3>2 DEF Logout
    <3>3. CASE sessions[t] = None
      BY <1>12, <3>3 DEF Logout
    <3> QED
      BY <3>2, <3>3
  <2> QED
    BY <1>12, <2>2, <2>3 DEF Logout
<1>13. CASE Tick
  BY <1>13, TTLAssumption DEF Tick, Time, server, history
<1>14. CASE Restart
  BY <1>14 DEF Restart, history
<1> QED
  BY <1>1, <1>2, <1>3, <1>4, <1>5, <1>6, <1>7, <1>8, <1>9, <1>10, <1>11, <1>12,
     <1>13, <1>14, <1>15 DEF Next

-----------------------------------------------------------------------------
(* Provenance                                                               *)

LEMMA ProvenanceInit == Init => Provenance
BY DEF Init, InitServer, Provenance

LEMMA ProvenanceStep ==
  ASSUME TypeOK, Provenance, [Next]_vars
  PROVE  Provenance'
<1> USE DEF TypeOK, Provenance
<1>1. CASE UNCHANGED vars
  BY <1>1 DEF vars
<1>2. ASSUME NEW k \in Key, NEW o \in Origins, NEW n \in Nonces, InitSIWE(k, o, n)
      PROVE  Provenance'
  <2> DEFINE m == [key |-> k, origin |-> o]
  <2>1. m \in Message /\ m # None
    BY NoneAssumption DEF Message
  <2>2. /\ issued' = [issued EXCEPT ![n] = m]
        /\ issued'[n] = m /\ m.key = k
        /\ \A i \in Nonces : issued[i] # None => issued'[i] = issued[i]
    BY <1>2 DEF InitSIWE
  <2>3. \A j \in Key : nonces'[j] # None =>
          issued'[nonces'[j].nonce] # None /\ issued'[nonces'[j].nonce].key = j
    <3> SUFFICES ASSUME NEW j \in Key, nonces'[j] # None
                 PROVE  issued'[nonces'[j].nonce] # None
                        /\ issued'[nonces'[j].nonce].key = j
      OBVIOUS
    <3>1. CASE j = k
      BY <1>2, <2>1, <2>2, <3>1 DEF InitSIWE
    <3>2. CASE j # k
      <4>1. nonces'[j] = nonces[j] /\ nonces[j] \in NonceEntry
        BY <1>2, <3>2 DEF InitSIWE
      <4>2. nonces[j].nonce \in Nonces
        BY <4>1 DEF NonceEntry
      <4> QED
        BY <2>2, <4>1, <4>2
    <3> QED
      BY <3>1, <3>2
  <2>4. \A v \in Verifiers : vtask[v] # None => vtask[v].nonce \in Nonces
    BY DEF VerifyTask
  <2>5. \A t \in Tokens : minted[t] # None => minted[t].nonce \in Nonces
    BY DEF TokenPair
  <2> QED
    BY <1>2, <2>1, <2>2, <2>3, <2>4, <2>5 DEF InitSIWE
<1>3. ASSUME NEW v \in Verifiers, NEW n \in Nonces, VerifyGet(v, n)
      PROVE  Provenance'
  <2>1. MessageKey(n) \in Key /\ issued[n].key \in Key
    BY <1>3, MessageOwnerType DEF VerifyGet
  <2>2. issued[n].key = MessageKey(n)
    BY <1>3, <2>1 DEF VerifyGet, EntryMatches
  <2>3. issued[n].key.spelling = Canonical
    BY <2>1, <2>2 DEF MessageKey, Key
  <2> QED
    BY <1>3, <2>3 DEF VerifyGet, NonceGet, history
<1>4. ASSUME NEW v \in Verifiers, NEW s \in Accounts, NEW e \in Time, VerifyDelete(v, s, e)
      PROVE  Provenance'
  <2> DEFINE n == vtask[v].nonce
  <2>1. vtask[v] \in VerifyTask /\ n \in Nonces /\ issued[n] # None
    BY <1>4 DEF VerifyDelete, VerifyTask
  <2>2. \A i \in Nonces : signedBy'[i] # {} =>
          issued[i] # None /\ signedBy'[i] = {issued[i].key.account}
    BY <1>4, <2>1 DEF VerifyDelete, SignatureValid
  <2>3. \A k \in Key : nonces'[k] # None => nonces'[k] = nonces[k]
    BY <1>4 DEF VerifyDelete, NonceDelete
  <2>4. \A w \in Verifiers : vtask'[w] # None =>
          vtask[w] # None /\ vtask'[w].nonce = vtask[w].nonce
    BY <1>4, <2>1 DEF VerifyDelete, VerifyTask
  <2>5. \A k \in Key : nonces'[k] # None =>
          issued[nonces'[k].nonce] # None /\ issued[nonces'[k].nonce].key = k
    BY <2>3
  <2>6. \A w \in Verifiers : vtask'[w] # None =>
          /\ issued[vtask'[w].nonce] # None
          /\ issued[vtask'[w].nonce].key.spelling = Canonical
    BY <2>4
  <2>7. UNCHANGED <<sessions, rtask, issued, minted, revokedAt>>
    BY <1>4 DEF VerifyDelete
  <2> QED
    BY <2>2, <2>5, <2>6, <2>7
<1>5. ASSUME NEW v \in Verifiers, NEW s \in Accounts, NEW e \in Time, VerifyRefused(v, s, e)
      PROVE  Provenance'
  BY <1>5 DEF VerifyRefused, history
<1>6. ASSUME NEW v \in Verifiers, Register(v) \/ Connect(v)
      PROVE  Provenance'
  <2>1. \A w \in Verifiers : vtask'[w] # None =>
          vtask[w] # None /\ vtask'[w].nonce = vtask[w].nonce
    BY <1>6 DEF Register, Connect, AfterPool, VerifyTask
  <2> QED
    BY <1>6, <2>1 DEF Register, Connect, history
<1>7. ASSUME NEW v \in Verifiers, NEW t \in Tokens, IssueLogin(v, t)
      PROVE  Provenance'
  <2>1. /\ vtask[v].nonce \in Nonces /\ issued[vtask[v].nonce] # None
        /\ Issued(t, t, vtask[v].nonce, MessageOwner(vtask[v].nonce))
    BY <1>7, IssueLoginEffect
  <2> QED
    BY <1>7, <2>1 DEF IssueLogin, IssueTokens, Issued, TokenPair
<1>8. ASSUME NEW v \in Verifiers, IssueLoginFails(v)
      PROVE  Provenance'
  BY <1>8 DEF IssueLoginFails, history
<1>9. ASSUME NEW r \in Refreshers, NEW t \in Tokens, Consume(r, t)
      PROVE  Provenance'
  <2>1. \A u \in Tokens : sessions'[u] # None => sessions[u] # None
    BY <1>9 DEF Consume, SessionDelete
  <2>2. \A q \in Refreshers : rtask'[q] # None => minted[rtask'[q].token] # None
    BY <1>9 DEF Consume
  <2> QED
    BY <1>9, <2>1, <2>2 DEF Consume, history
<1>10. ASSUME NEW r \in Refreshers, NEW t \in Tokens, RotateRefresh(r, t)
       PROVE  Provenance'
  <2> DEFINE old == rtask[r].token
  <2>1. /\ old \in Tokens /\ minted[old] # None
        /\ Issued(t, minted[old].login, minted[old].nonce, rtask[r].session.owner)
    BY <1>10, RotateRefreshEffect
  <2>2. \A q \in Refreshers : rtask'[q] # None =>
          rtask'[q] = rtask[q] /\ rtask[q].token \in Tokens
    BY <1>10, NoneAssumption DEF RotateRefresh, RotateTask
  <2>3. UNCHANGED <<nonces, vtask, issued, signedBy, revokedAt>>
    BY <1>10 DEF RotateRefresh, IssueTokens
  <2>4. /\ \A u \in Tokens : minted[u] # None => minted'[u] = minted[u] /\ minted[u].login \in Tokens
        /\ \A u \in Tokens \ {t} : minted'[u] = minted[u] /\ sessions'[u] = sessions[u]
        /\ minted'[t] # None /\ minted'[t].login = minted[old].login
        /\ minted'[t].nonce = minted[old].nonce
    BY <2>1 DEF Issued, TokenPair
  <2> QED
    BY <1>10, <2>1, <2>2, <2>3, <2>4
<1>11. ASSUME NEW r \in Refreshers, RotateFails(r)
       PROVE  Provenance'
  BY <1>11 DEF RotateFails, history
<1>12. ASSUME NEW t \in Tokens, Logout(t)
       PROVE  Provenance'
  <2>1. minted[t].login \in Tokens /\ minted[minted[t].login] # None
    BY <1>12 DEF Logout, TokenPair
  <2>2. \A u \in Tokens : sessions'[u] # None => sessions[u] # None
    BY <1>12 DEF Logout, SessionDelete
  <2>3. \A f \in Tokens : revokedAt'[f] # None => minted[f] # None
    BY <1>12, <2>1 DEF Logout
  <2> QED
    BY <1>12, <2>2, <2>3 DEF Logout
<1>13. CASE Tick
  BY <1>13 DEF Tick, server, history
<1>14. CASE Restart
  BY <1>14 DEF Restart, history
<1> QED
  BY <1>1, <1>2, <1>3, <1>4, <1>5, <1>6, <1>7, <1>8, <1>9, <1>10, <1>11, <1>12,
     <1>13, <1>14 DEF Next

-----------------------------------------------------------------------------
(* Nonces and signatures                                                    *)

LEMMA SpentStep ==
  ASSUME TypeOK, Provenance, SpentNonceGone, [Next]_vars
  PROVE  SpentNonceGone'
<1> USE DEF TypeOK, SpentNonceGone
<1>1. CASE UNCHANGED <<nonces, signedBy>>
  BY <1>1
<1>2. ASSUME NEW k \in Key, NEW o \in Origins, NEW n \in Nonces, InitSIWE(k, o, n)
      PROVE  SpentNonceGone'
  <2>1. signedBy[n] = {}
    BY <1>2 DEF InitSIWE, Provenance
  <2> QED
    BY <1>2, <2>1 DEF InitSIWE
<1>3. ASSUME NEW v \in Verifiers, NEW s \in Accounts, NEW e \in Time, VerifyDelete(v, s, e)
      PROVE  SpentNonceGone'
  <2> DEFINE n == vtask[v].nonce
  <2>1. /\ n \in Nonces /\ issued[n] # None
        /\ issued[n].key.spelling = Canonical /\ issued[n].key \in Key
    BY <1>3, MessageOwnerType DEF VerifyDelete, VerifyTask, Provenance
  <2>2. issued[n].key = MessageKey(n)
    BY <2>1 DEF MessageKey, Key
  <2>3. nonces' = [nonces EXCEPT ![MessageKey(n)] = None]
        /\ signedBy' = [signedBy EXCEPT ![n] = @ \cup {s}]
    BY <1>3 DEF VerifyDelete, NonceDelete
  <2>4. SUFFICES ASSUME NEW k \in Key, nonces'[k] # None
                 PROVE  signedBy'[nonces'[k].nonce] = {}
    OBVIOUS
  <2>5. k # MessageKey(n) /\ nonces'[k] = nonces[k]
    BY <2>1, <2>2, <2>3, <2>4
  <2>6. nonces[k].nonce # n
    BY <2>2, <2>4, <2>5 DEF Provenance
  <2>7. nonces[k] \in NonceEntry /\ nonces[k].nonce \in Nonces
    BY <2>4, <2>5 DEF NonceEntry
  <2> QED
    BY <2>3, <2>4, <2>5, <2>6, <2>7
<1>4. CASE Restart
  BY <1>4 DEF Restart
<1> QED
  BY <1>1, <1>2, <1>3, <1>4 DEF Next, vars, VerifyGet, NonceGet, VerifyRefused, Register, Connect,
     IssueLogin, IssueLoginFails, Consume, RotateRefresh, RotateFails, IssueTokens,
     Logout, Tick, server, history

(* Init's nonce and the requests about to delete it: what the store holds     *)
(* under the key of a calm nonce, and what is read from there, is its own.    *)
LEMMA CalmInit == Init => CalmNonces /\ NonceLostToOverlapOnly
BY DEF Init, CalmNonces, NonceLostToOverlapOnly

LEMMA CalmStep ==
  ASSUME TypeOK, Provenance, CalmNonces, NonceLostToOverlapOnly, [Next]_vars
  PROVE  CalmNonces' /\ NonceLostToOverlapOnly'
<1> DEFINE Reads(v, k) == /\ vtask[v] # None
                          /\ vtask[v].stage = "read"
                          /\ MessageKey(vtask[v].nonce) = k
           Calm(n) == /\ issued[n] # None
                      /\ nonces[issued[n].key] # None => nonces[issued[n].key].nonce = n
                      /\ \A v \in Verifiers : Reads(v, issued[n].key) => vtask[v].nonce = n
                      /\ signedBy[n] = {} => KeepsNonce(n)
<1>1. \A n \in calm : n \in Nonces /\ issued[n].key \in Key /\ Calm(n)
  BY MessageOwnerType DEF TypeOK, CalmNonces, NonceLostToOverlapOnly, Reading
<1>2. \A n \in Nonces : issued[n] # None => issued[n].key \in Key /\ issued'[n] = issued[n]
  <2>1. \A n \in Nonces : issued[n] # None => issued'[n] = issued[n]
    BY DEF TypeOK, Next, vars, InitSIWE, VerifyGet, VerifyDelete, VerifyRefused, Register,
       Connect, IssueLogin, IssueLoginFails, Consume, RotateRefresh, RotateFails,
       IssueTokens, Logout, Tick, Restart, server, history
  <2> QED
    BY <2>1, MessageOwnerType
<1> SUFFICES ASSUME NEW n \in calm'
             PROVE  Calm(n)'
  BY DEF CalmNonces, NonceLostToOverlapOnly, Reading
<1>3. \A v \in Verifiers : vtask[v] # None =>
        vtask[v].nonce \in Nonces /\ issued[vtask[v].nonce] # None
  BY DEF TypeOK, VerifyTask, Provenance
<1>4. ASSUME NEW k \in Key, NEW o \in Origins, NEW m \in Nonces, InitSIWE(k, o, m)
      PROVE  Calm(n)'
  <2>1. \A v \in Verifiers : \A j : Reads(v, j)' <=> Reads(v, j)
    BY <1>2, <1>3, <1>4 DEF InitSIWE, MessageKey
  <2>2. /\ nonces'[k] = [nonce |-> m, origin |-> o, expires |-> now + NonceTTL]
        /\ \A j \in Key \ {k} : nonces'[j] = nonces[j]
        /\ issued'[m] = [key |-> k, origin |-> o]
        /\ signedBy' = signedBy /\ vtask' = vtask
    BY <1>4 DEF InitSIWE, TypeOK
  <2>3. CASE n \in calm /\ issued[n].key # k
    <3>1. issued'[n] = issued[n] /\ issued[n].key \in Key \ {k}
      BY <1>1, <1>2, <2>3
    <3>2. nonces'[issued'[n].key] = nonces[issued[n].key]
      BY <2>2, <3>1
    <3> QED
      BY <1>1, <2>1, <2>2, <2>3, <3>1, <3>2 DEF KeepsNonce
  <2>4. CASE n = m /\ Reading(k) = {}
    <3>1. issued'[n].key = k /\ issued'[n] # None
      BY <2>2, <2>4, NoneAssumption DEF Message
    <3>2. nonces'[k] # None /\ nonces'[k].nonce = n
      <4>1. now + NonceTTL \in Nat
        BY TTLAssumption DEF TypeOK, Time
      <4>2. nonces'[k] \in NonceEntry
        BY <2>2, <4>1 DEF NonceEntry
      <4> QED
        BY <2>2, <2>4, <4>2, NoneAssumption
    <3>3. \A v \in Verifiers : ~Reads(v, k)
      BY <2>4 DEF Reading
    <3> QED
      BY <2>1, <3>1, <3>2, <3>3 DEF KeepsNonce
  <2> QED
    BY <1>4, <2>3, <2>4 DEF InitSIWE
<1>5. ASSUME NEW v \in Verifiers, NEW m \in Nonces, VerifyGet(v, m)
      PROVE  Calm(n)'
  <2>1. /\ nonces[MessageKey(m)] # None /\ nonces[MessageKey(m)].nonce = m
        /\ UNCHANGED <<nonces, issued, signedBy, calm>>
        /\ vtask'[v].nonce = m
        /\ \A w \in Verifiers \ {v} : vtask'[w] = vtask[w]
    BY <1>5 DEF VerifyGet, NonceGet, EntryMatches, TypeOK, history
  <2>2. \A w \in Verifiers : Reads(w, issued[n].key)' => vtask'[w].nonce = n
    BY <1>1, <2>1 DEF MessageKey
  <2> QED
    BY <1>1, <2>1, <2>2 DEF KeepsNonce
<1>6. ASSUME NEW v \in Verifiers, NEW s \in Accounts, NEW e \in Time, VerifyDelete(v, s, e)
      PROVE  Calm(n)'
  <2> DEFINE m == vtask[v].nonce
  <2>1. /\ m \in Nonces /\ Reads(v, MessageKey(m))
        /\ nonces' = [nonces EXCEPT ![MessageKey(m)] = None]
        /\ signedBy' = [signedBy EXCEPT ![m] = @ \cup {s}]
        /\ UNCHANGED <<issued, calm>>
    BY <1>3, <1>6 DEF VerifyDelete, NonceDelete
  <2>2. \A w \in Verifiers : \A k : Reads(w, k)' => Reads(w, k) /\ vtask'[w] = vtask[w]
    <3>1. vtask'[v].stage = "accepted"
      BY <1>6 DEF VerifyDelete, TypeOK, VerifyTask
    <3>2. \A w \in Verifiers \ {v} : vtask'[w] = vtask[w]
      BY <1>6 DEF VerifyDelete, TypeOK
    <3> QED
      BY <2>1, <3>1, <3>2 DEF MessageKey
  <2>3. /\ \A k \in Key \ {MessageKey(m)} : nonces'[k] = nonces[k]
        /\ \A k \in Key : nonces'[k] # None => nonces'[k] = nonces[k]
    BY <2>1 DEF TypeOK
  <2>4. signedBy'[n] = {} => signedBy[n] = {} /\ n # m
    BY <1>1, <2>1 DEF TypeOK
  <2>5. issued[n].key = MessageKey(m) => n = m
    BY <1>1, <2>1
  <2>6. signedBy'[n] = {} => nonces'[issued[n].key] = nonces[issued[n].key]
    BY <1>1, <2>1, <2>3, <2>4, <2>5
  <2>7. n \in calm /\ issued'[n] = issued[n] /\ issued[n].key \in Key /\ Calm(n)
    BY <1>1, <2>1
  <2>8. signedBy'[n] = {} => KeepsNonce(n)'
    BY <2>4, <2>6, <2>7 DEF KeepsNonce
  <2>9. nonces'[issued[n].key] # None => nonces'[issued[n].key].nonce = n
    BY <2>3, <2>7
  <2>10. \A w \in Verifiers : Reads(w, issued[n].key)' => vtask'[w].nonce = n
    BY <2>2, <2>7
  <2> QED
    BY <2>7, <2>8, <2>9, <2>10
<1>7. CASE Restart
  BY <1>7 DEF Restart
<1>8. ASSUME UNCHANGED <<nonces, issued, signedBy, calm>>,
             \A w \in Verifiers : vtask'[w] # None /\ vtask'[w].stage = "read"
                                    => vtask'[w] = vtask[w]
      PROVE  Calm(n)'
  BY <1>1, <1>8 DEF KeepsNonce, MessageKey
<1>9. \/ \E k \in Key, o \in Origins, m \in Nonces : InitSIWE(k, o, m)
      \/ \E v \in Verifiers, m \in Nonces : VerifyGet(v, m)
      \/ \E v \in Verifiers, s \in Accounts, e \in Time : VerifyDelete(v, s, e)
      \/ Restart
      \/ /\ UNCHANGED <<nonces, issued, signedBy, calm>>
         /\ \A w \in Verifiers : vtask'[w] # None /\ vtask'[w].stage = "read"
                                    => vtask'[w] = vtask[w]
  BY DEF TypeOK, VerifyTask, Next, vars, VerifyRefused, Register, Connect, AfterPool,
     IssueLogin, IssueLoginFails, Consume, RotateRefresh, RotateFails, IssueTokens,
     Logout, Tick, server, history
<1> HIDE DEF Calm, Reads
<1> QED
  BY <1>4, <1>5, <1>6, <1>7, <1>8, <1>9

(* Only the account a message names can have its signature accepted, and an *)
(* accepted signature stays on record.                                      *)
LEMMA SignersStep ==
  ASSUME TypeOK, Provenance, [Next]_vars, NEW n \in Nonces, issued[n] # None
  PROVE  /\ issued'[n] = issued[n]
         /\ signedBy[n] # {} => signedBy'[n] = signedBy[n]
<1> USE DEF TypeOK
<1>1. issued'[n] = issued[n]
  BY DEF Next, vars, InitSIWE, VerifyGet, VerifyDelete, VerifyRefused, Register, Connect,
     IssueLogin, IssueLoginFails, Consume, RotateRefresh, RotateFails, IssueTokens,
     Logout, Tick, Restart, server, history
<1>2. ASSUME NEW v \in Verifiers, NEW s \in Accounts, NEW e \in Time,
             VerifyDelete(v, s, e), signedBy[n] # {}
      PROVE  signedBy'[n] = signedBy[n]
  <2>1. vtask[v].nonce \in Nonces /\ s = issued[vtask[v].nonce].key.account
    BY <1>2 DEF VerifyDelete, VerifyTask, SignatureValid
  <2>2. signedBy[n] = {issued[n].key.account}
    BY <1>2 DEF Provenance
  <2> QED
    BY <1>2, <2>1, <2>2 DEF VerifyDelete
<1>3. signedBy[n] # {} => signedBy'[n] = signedBy[n]
  BY <1>2 DEF Next, vars, InitSIWE, VerifyGet, VerifyRefused, Register, Connect,
     IssueLogin, IssueLoginFails, Consume, RotateRefresh, RotateFails, IssueTokens,
     Logout, Tick, Restart, server, history
<1> QED
  BY <1>1, <1>3

-----------------------------------------------------------------------------
(* Token pairs                                                              *)

(* A pair never changes; a session is only ever taken away from it; and a   *)
(* pair comes into being by IssueTokens alone.                              *)
LEMMA PairStep ==
  ASSUME TypeOK, Provenance, [Next]_vars, NEW t \in Tokens
  PROVE  /\ minted[t] # None =>
              /\ minted'[t] = minted[t]
              /\ sessions'[t] # None => sessions[t] # None /\ sessions'[t] = sessions[t]
         /\ minted[t] = None /\ minted'[t] # None =>
              \/ \E v \in Verifiers : IssueLogin(v, t)
              \/ \E r \in Refreshers : RotateRefresh(r, t)
<1> DEFINE Kept == minted'[t] = minted[t] /\ sessions'[t] \in {sessions[t], None}
           Made == \/ \E v \in Verifiers : IssueLogin(v, t)
                   \/ \E r \in Refreshers : RotateRefresh(r, t)
<1>1. ASSUME NEW v \in Verifiers, NEW u \in Tokens, IssueLogin(v, u)
      PROVE  minted[u] = None /\ (u # t => Kept)
  BY <1>1, IssueLoginEffect DEF Issued
<1>2. ASSUME NEW r \in Refreshers, NEW u \in Tokens, RotateRefresh(r, u)
      PROVE  minted[u] = None /\ (u # t => Kept)
  BY <1>2, RotateRefreshEffect DEF Issued
<1>3. ASSUME NEW r \in Refreshers, NEW u \in Tokens, Consume(r, u)
      PROVE  Kept
  BY <1>3 DEF Consume, SessionDelete, history, TypeOK
<1>4. ASSUME NEW u \in Tokens, Logout(u)
      PROVE  Kept
  BY <1>4 DEF Logout, SessionDelete, TypeOK
<1>5. \/ UNCHANGED <<minted, sessions>>
      \/ \E v \in Verifiers, u \in Tokens : IssueLogin(v, u)
      \/ \E r \in Refreshers, u \in Tokens : RotateRefresh(r, u)
      \/ \E r \in Refreshers, u \in Tokens : Consume(r, u)
      \/ \E u \in Tokens : Logout(u)
      \/ Restart
  BY DEF Next, vars, InitSIWE, VerifyGet, VerifyDelete, VerifyRefused, Register, Connect,
     IssueLoginFails, RotateFails, Tick, server, history
<1>6. Kept \/ (minted[t] = None /\ Made)
  <2>1. CASE UNCHANGED <<minted, sessions>>
    BY <2>1
  <2>2. CASE \E v \in Verifiers, u \in Tokens : IssueLogin(v, u)
    BY <2>2, <1>1
  <2>3. CASE \E r \in Refreshers, u \in Tokens : RotateRefresh(r, u)
    BY <2>3, <1>2
  <2>4. CASE \E r \in Refreshers, u \in Tokens : Consume(r, u)
    BY <2>4, <1>3
  <2>5. CASE \E u \in Tokens : Logout(u)
    BY <2>5, <1>4
  <2>6. CASE Restart
    BY <2>6 DEF Restart, history
  <2> HIDE DEF Kept, Made
  <2> QED
    BY <1>5, <2>1, <2>2, <2>3, <2>4, <2>5, <2>6
<1> QED
  BY <1>6

LEMMA AuthenticatedStep ==
  ASSUME TypeOK, Provenance, Authenticated, TokensBelongToSigner, [Next]_vars
  PROVE  Authenticated'
<1> USE DEF TypeOK
<1>1. ASSUME NEW w \in Verifiers, vtask'[w] # None, vtask'[w].stage # "read"
      PROVE  signedBy'[vtask'[w].nonce] # {}
  <2>1. CASE vtask'[w] = vtask[w]
    <3>1. vtask[w].nonce \in Nonces /\ issued[vtask[w].nonce] # None
      BY <1>1, <2>1 DEF VerifyTask, Provenance
    <3> QED
      BY <1>1, <2>1, <3>1, SignersStep DEF Authenticated
  <2>2. ASSUME NEW n \in Nonces, VerifyGet(w, n)
        PROVE  FALSE
    BY <1>1, <2>2 DEF VerifyGet
  <2>3. ASSUME NEW s \in Accounts, NEW e \in Time, VerifyDelete(w, s, e)
        PROVE  signedBy'[vtask'[w].nonce] # {}
    <3>1. vtask[w] \in VerifyTask
      BY <2>3 DEF VerifyDelete
    <3>2. vtask'[w].nonce = vtask[w].nonce /\ vtask[w].nonce \in Nonces
      BY <2>3, <3>1 DEF VerifyDelete, VerifyTask
    <3> QED
      BY <2>3, <3>2 DEF VerifyDelete
  <2>4. ASSUME Register(w) \/ Connect(w)
        PROVE  signedBy'[vtask'[w].nonce] # {}
    <3>1. vtask[w] # None /\ vtask[w].stage # "read" /\ signedBy' = signedBy
      BY <2>4 DEF Register, Connect, history
    <3>2. vtask'[w].nonce = vtask[w].nonce
      BY <1>1, <2>4 DEF Register, Connect, AfterPool, VerifyTask
    <3> QED
      BY <3>1, <3>2 DEF Authenticated
  <2>5. \/ vtask'[w] \in {vtask[w], None}
        \/ \E n \in Nonces : VerifyGet(w, n)
        \/ \E s \in Accounts, e \in Time : VerifyDelete(w, s, e)
        \/ Register(w) \/ Connect(w)
    BY DEF Next, vars, InitSIWE, VerifyGet, VerifyDelete, VerifyRefused, Register, Connect,
       IssueLogin, IssueLoginFails, Consume, RotateRefresh, RotateFails, IssueTokens,
       Logout, Tick, Restart, server, history
  <2> QED
    BY <1>1, <2>1, <2>2, <2>3, <2>4, <2>5
<1>2. ASSUME NEW q \in Refreshers, rtask'[q] # None
      PROVE  rtask'[q].session.owner = minted'[rtask'[q].token].owner
  <2>1. CASE rtask'[q] = rtask[q]
    <3>1. rtask[q].token \in Tokens /\ minted[rtask[q].token] # None
      BY <1>2, <2>1 DEF RotateTask, Provenance
    <3> QED
      BY <1>2, <2>1, <3>1, PairStep DEF Authenticated
  <2>2. ASSUME NEW t \in Tokens, Consume(q, t)
        PROVE  rtask'[q].session.owner = minted'[rtask'[q].token].owner
    BY <2>2 DEF Consume, TokensBelongToSigner, Provenance, history
  <2>3. \/ rtask'[q] \in {rtask[q], None}
        \/ \E t \in Tokens : Consume(q, t)
    BY DEF Next, vars, InitSIWE, VerifyGet, VerifyDelete, VerifyRefused, Register, Connect,
       IssueLogin, IssueLoginFails, Consume, RotateRefresh, RotateFails, IssueTokens,
       Logout, Tick, Restart, server, history
  <2> QED
    BY <1>2, <2>1, <2>2, <2>3
<1> QED
  BY <1>1, <1>2 DEF Authenticated

LEMMA OwnerStep ==
  ASSUME TypeOK, Provenance, Authenticated, TokensBelongToSigner, [Next]_vars
  PROVE  TokensBelongToSigner'
<1> USE DEF TypeOK, MessageOwner
<1> DEFINE Signed(t) ==
      /\ signedBy'[minted'[t].nonce] = {minted'[t].owner.account}
      /\ minted'[t].owner = [account |-> issued'[minted'[t].nonce].key.account,
                             chain   |-> issued'[minted'[t].nonce].key.chain]
      /\ sessions'[t] # None => sessions'[t].owner = minted'[t].owner
<1> SUFFICES ASSUME NEW t \in Tokens, minted'[t] # None
             PROVE  Signed(t)
  BY DEF TokensBelongToSigner
<1>1. CASE minted[t] # None
  <2>1. /\ minted'[t] = minted[t]
        /\ sessions'[t] # None => sessions[t] # None /\ sessions'[t] = sessions[t]
    BY <1>1, PairStep
  <2>2. minted[t].nonce \in Nonces /\ issued[minted[t].nonce] # None
    BY <1>1 DEF TokenPair, Provenance
  <2>3. signedBy[minted[t].nonce] # {}
    BY <1>1 DEF TokensBelongToSigner
  <2>4. /\ signedBy'[minted[t].nonce] = signedBy[minted[t].nonce]
        /\ issued'[minted[t].nonce] = issued[minted[t].nonce]
    BY <2>2, <2>3, SignersStep
  <2> QED
    BY <1>1, <2>1, <2>4 DEF TokensBelongToSigner
<1>2. ASSUME NEW v \in Verifiers, IssueLogin(v, t)
      PROVE  Signed(t)
  <2> DEFINE n == vtask[v].nonce
  <2>1. n \in Nonces /\ issued[n] # None /\ Issued(t, t, n, MessageOwner(n))
    BY <1>2, IssueLoginEffect
  <2>2. signedBy[n] = {issued[n].key.account}
    BY <1>2, <2>1 DEF IssueLogin, Authenticated, Provenance
  <2>3. signedBy' = signedBy /\ issued' = issued
    BY <1>2 DEF IssueLogin, IssueTokens
  <2> QED
    BY <2>1, <2>2, <2>3 DEF Issued
<1>3. ASSUME NEW r \in Refreshers, RotateRefresh(r, t)
      PROVE  Signed(t)
  <2> DEFINE old == rtask[r].token
  <2>1. /\ old \in Tokens /\ minted[old] # None
        /\ Issued(t, minted[old].login, minted[old].nonce, rtask[r].session.owner)
    BY <1>3, RotateRefreshEffect
  <2>2. rtask[r].session.owner = minted[old].owner
    BY <1>3 DEF RotateRefresh, Authenticated
  <2>3. signedBy' = signedBy /\ issued' = issued
    BY <1>3 DEF RotateRefresh, IssueTokens
  <2>4. /\ signedBy[minted[old].nonce] = {minted[old].owner.account}
        /\ minted[old].owner = MessageOwner(minted[old].nonce)
    BY <2>1 DEF TokensBelongToSigner
  <2>5. /\ minted'[t].nonce = minted[old].nonce
        /\ minted'[t].owner = minted[old].owner
        /\ sessions'[t].owner = minted[old].owner
    BY <2>1, <2>2 DEF Issued
  <2> QED
    BY <2>3, <2>4, <2>5
<1> HIDE DEF Signed
<1> QED
  BY <1>1, <1>2, <1>3, PairStep

-----------------------------------------------------------------------------
(* The pool and the watcher stand behind every session                      *)

LEMMA PreparedStep ==
  ASSUME TypeOK, Provenance, Authenticated, TokensBelongToSigner, Prepared,
         SessionBacked, [Next]_vars
  PROVE  Prepared' /\ SessionBacked'
<1> USE DEF TypeOK
<1>1. CASE Restart
  BY <1>1 DEF Restart, Prepared, SessionBacked
<1> SUFFICES ASSUME ~Restart
             PROVE  Prepared' /\ SessionBacked'
  BY <1>1
<1>2. users \subseteq users' /\ (db = "open" => db' = "open")
  BY DEF Next, vars, InitSIWE, VerifyGet, VerifyDelete, VerifyRefused, Register, Connect,
     IssueLogin, IssueLoginFails, Consume, RotateRefresh, RotateFails, IssueTokens,
     Logout, Tick, server, history
<1> DEFINE Ready(w) ==
      /\ issued'[vtask'[w].nonce].key.account \in users'
      /\ vtask'[w].stage = "connected" => db' = "open"
<1>3. ASSUME NEW w \in Verifiers, vtask'[w] # None,
             vtask'[w].stage \in {"registered", "connected"}
      PROVE  Ready(w)
  <2>1. \/ vtask'[w] \in {vtask[w], None}
        \/ \E n \in Nonces : VerifyGet(w, n)
        \/ \E s \in Accounts, e \in Time : VerifyDelete(w, s, e)
        \/ Register(w) \/ Connect(w)
    BY DEF Next, vars, InitSIWE, VerifyGet, VerifyDelete, VerifyRefused, Register, Connect,
       IssueLogin, IssueLoginFails, Consume, RotateRefresh, RotateFails, IssueTokens,
       Logout, Tick, Restart, server, history
  <2>2. CASE vtask'[w] = vtask[w]
    <3>1. vtask[w].nonce \in Nonces /\ issued[vtask[w].nonce] # None
      BY <1>3, <2>2 DEF VerifyTask, Provenance
    <3>2. issued'[vtask[w].nonce] = issued[vtask[w].nonce]
      BY <3>1, SignersStep
    <3> QED
      BY <1>2, <1>3, <2>2, <3>2 DEF Prepared, MessageOwner
  <2>3. ~\E n \in Nonces : VerifyGet(w, n)
    BY <1>3 DEF VerifyGet
  <2>4. ~\E s \in Accounts, e \in Time : VerifyDelete(w, s, e)
    BY <1>3 DEF VerifyDelete, VerifyTask
  <2>5. CASE Register(w)
    <3>1. /\ vtask[w] \in VerifyTask /\ vtask'[w].stage = "registered"
          /\ vtask'[w].nonce = vtask[w].nonce
      BY <2>5 DEF Register, VerifyTask
    <3> QED
      BY <2>5, <3>1 DEF Register, MessageOwner, history
  <2>6. CASE Connect(w)
    <3>1. db' = "open" /\ vtask'[w].nonce = vtask[w].nonce
      BY <1>3, <2>6 DEF Connect, AfterPool
    <3> QED
      BY <2>6, <3>1 DEF Connect, Prepared, MessageOwner, history
  <2> QED
    BY <1>3, <2>1, <2>2, <2>3, <2>4, <2>5, <2>6
<1>4. ASSUME NEW q \in Refreshers, rtask'[q] # None
      PROVE  db' = "open" /\ rtask'[q].session.owner.account \in users'
  <2>1. \/ rtask'[q] \in {rtask[q], None}
        \/ \E t \in Tokens : Consume(q, t)
    BY DEF Next, vars, InitSIWE, VerifyGet, VerifyDelete, VerifyRefused, Register, Connect,
       IssueLogin, IssueLoginFails, Consume, RotateRefresh, RotateFails, IssueTokens,
       Logout, Tick, server, history
  <2>2. CASE rtask'[q] = rtask[q]
    BY <1>2, <1>4, <2>2 DEF Prepared
  <2>3. CASE \E t \in Tokens : Consume(q, t)
    BY <2>3 DEF Consume, SessionBacked
  <2> QED
    BY <1>4, <2>1, <2>2, <2>3
<1>5. Prepared'
  BY <1>3, <1>4 DEF Prepared, MessageOwner
<1> HIDE DEF Ready
<1>6. ASSUME NEW t \in Tokens, sessions'[t] # None
      PROVE  db' = "open" /\ sessions'[t].owner.account \in users'
  <2>1. CASE minted[t] # None
    BY <1>2, <1>6, <2>1, PairStep DEF SessionBacked
  <2>2. ASSUME NEW v \in Verifiers, IssueLogin(v, t)
        PROVE  db' = "open" /\ sessions'[t].owner.account \in users'
    <3>1. sessions'[t].owner = MessageOwner(vtask[v].nonce)
      BY <2>2, IssueLoginEffect DEF Issued
    <3> QED
      BY <1>2, <2>2, <3>1 DEF IssueLogin, Prepared
  <2>3. ASSUME NEW r \in Refreshers, RotateRefresh(r, t)
        PROVE  db' = "open" /\ sessions'[t].owner.account \in users'
    <3>1. sessions'[t].owner = rtask[r].session.owner
      BY <2>3, RotateRefreshEffect DEF Issued
    <3> QED
      BY <1>2, <2>3, <3>1 DEF RotateRefresh, Prepared
  <2>4. minted'[t] # None
    BY <1>6, ProvenanceStep DEF Provenance
  <2> QED
    BY <2>1, <2>2, <2>3, <2>4, PairStep
<1> QED
  BY <1>5, <1>6 DEF SessionBacked

-----------------------------------------------------------------------------
(* One holder per login                                                     *)

(* A step issues a pair, consumes a session, or takes sessions and rotations *)
(* away without adding any.                                                 *)
LEMMA StepKinds ==
  ASSUME TypeOK, [Next]_vars
  PROVE  \/ \E v \in Verifiers, t \in Tokens : IssueLogin(v, t)
         \/ \E r \in Refreshers, t \in Tokens : RotateRefresh(r, t)
         \/ \E r \in Refreshers, t \in Tokens : Consume(r, t)
         \/ /\ minted' = minted
            /\ \A t \in Tokens : sessions'[t] \in {sessions[t], None}
            /\ \A r \in Refreshers : rtask'[r] \in {rtask[r], None}
BY DEF TypeOK, Next, vars, InitSIWE, VerifyGet, VerifyDelete, VerifyRefused,
   Register, Connect, IssueLoginFails, RotateFails, Logout, Tick, Restart,
   SessionDelete, server, history

(* OneHolderPerLogin without its sets.                                      *)
OneHolder ==
  /\ \A t, u \in Tokens :
       sessions[t] # None /\ sessions[u] # None /\ minted[t].login = minted[u].login
         => t = u
  /\ \A r, q \in Refreshers :
       rtask[r] # None /\ rtask[q] # None
         /\ minted[rtask[r].token].login = minted[rtask[q].token].login
         => r = q
  /\ \A t \in Tokens, r \in Refreshers :
       ~ (sessions[t] # None /\ rtask[r] # None
            /\ minted[t].login = minted[rtask[r].token].login)

LEMMA LoginType ==
  ASSUME TypeOK, Provenance
  PROVE  /\ \A t \in Tokens : minted[t] # None => minted[t].login \in Tokens
         /\ \A t \in Tokens : sessions[t] # None => minted[t].login \in Tokens
         /\ \A r \in Refreshers : rtask[r] # None =>
              rtask[r].token \in Tokens /\ minted[rtask[r].token].login \in Tokens
BY DEF TypeOK, Provenance, TokenPair, RotateTask

LEMMA HolderOut ==
  ASSUME TypeOK, Provenance, OneHolderPerLogin
  PROVE  OneHolder
BY LoginType DEF OneHolderPerLogin, OneHolder, LiveTokens, Rotating

LEMMA HolderStep ==
  ASSUME TypeOK, Provenance, OneHolderPerLogin, [Next]_vars
  PROVE  OneHolderPerLogin'
<1>1. OneHolder
  BY HolderOut
<1> SUFFICES OneHolder'
  BY DEF OneHolderPerLogin, OneHolder, LiveTokens, Rotating
<1>2. ASSUME NEW v \in Verifiers, NEW t \in Tokens, IssueLogin(v, t)
      PROVE  OneHolder'
  <2>1. minted[t] = None /\ minted'[t].login = t
        /\ \A u \in Tokens \ {t} : minted'[u] = minted[u] /\ sessions'[u] = sessions[u]
    BY <1>2, IssueLoginEffect DEF Issued
  <2>2. \A u \in Tokens : minted[u] # None => minted[u].login # t
    BY <2>1 DEF Provenance
  <2>3. \A u \in Tokens \ {t} : sessions'[u] # None =>
          minted[u] # None /\ sessions[u] # None /\ minted'[u] = minted[u]
    BY <2>1 DEF Provenance
  <2>4. \A r \in Refreshers : rtask'[r] # None =>
          /\ rtask[r] # None /\ rtask'[r] = rtask[r]
          /\ rtask[r].token \in Tokens \ {t} /\ minted[rtask[r].token] # None
    BY <1>2, <2>1, LoginType DEF IssueLogin, Provenance
  <2> QED
    BY <1>1, <2>1, <2>2, <2>3, <2>4 DEF OneHolder
<1>3. ASSUME NEW r \in Refreshers, NEW t \in Tokens, RotateRefresh(r, t)
      PROVE  OneHolder'
  <2> DEFINE old == rtask[r].token
  <2>1. /\ old \in Tokens /\ minted[old] # None /\ rtask[r] # None
        /\ minted[t] = None /\ minted'[t].login = minted[old].login
        /\ \A u \in Tokens \ {t} : minted'[u] = minted[u] /\ sessions'[u] = sessions[u]
    BY <1>3, RotateRefreshEffect DEF Issued, RotateRefresh
  <2>2. \A u \in Tokens \ {t} : sessions'[u] # None =>
          sessions[u] # None /\ minted'[u].login # minted[old].login
    BY <1>1, <2>1 DEF OneHolder
  <2>3. \A q \in Refreshers : rtask'[q] # None =>
          /\ q # r /\ rtask[q] # None /\ rtask'[q] = rtask[q]
          /\ rtask[q].token \in Tokens \ {t}
    BY <1>3, <2>1, LoginType DEF RotateRefresh, TypeOK, Provenance
  <2>4. \A q \in Refreshers : rtask'[q] # None =>
          /\ minted'[rtask'[q].token].login = minted[rtask[q].token].login
          /\ minted[rtask[q].token].login # minted[old].login
    BY <1>1, <2>1, <2>3 DEF OneHolder
  <2> QED
    BY <1>1, <2>1, <2>2, <2>3, <2>4 DEF OneHolder
<1>4. ASSUME NEW r \in Refreshers, NEW t \in Tokens, Consume(r, t)
      PROVE  OneHolder'
  <2>1. /\ minted' = minted /\ sessions[t] # None /\ rtask[r] = None
        /\ rtask'[r].token = t
        /\ \A q \in Refreshers \ {r} : rtask'[q] = rtask[q]
        /\ sessions'[t] = None
        /\ \A u \in Tokens \ {t} : sessions'[u] = sessions[u]
    BY <1>4 DEF Consume, SessionDelete, TypeOK, history
  <2> QED
    BY <1>1, <2>1 DEF OneHolder
<1>5. ASSUME minted' = minted,
             \A t \in Tokens : sessions'[t] \in {sessions[t], None},
             \A r \in Refreshers : rtask'[r] \in {rtask[r], None}
      PROVE  OneHolder'
  BY <1>1, <1>5 DEF OneHolder
<1> QED
  BY <1>2, <1>3, <1>4, <1>5, StepKinds

-----------------------------------------------------------------------------
(* Revocation                                                               *)

(* RevokedLoginStaysDead without its sets.                                  *)
Dead(f) == /\ \A t \in Tokens : ~ (sessions[t] # None /\ minted[t].login = f)
           /\ \A r \in Refreshers :
                ~ (rtask[r] # None /\ minted[rtask[r].token].login = f)

(* Revoke is the only call that sets revokedAt.                             *)
LEMMA RevokeStep ==
  ASSUME TypeOK, [Next]_vars, NEW f \in Tokens
  PROVE  \/ revokedAt'[f] = revokedAt[f]
         \/ /\ revokedAt'[f] = now
            /\ \E t \in Tokens : /\ Logout(t)
                                 /\ sessions[t] # None
                                 /\ minted[t].login = f
<1>1. ASSUME NEW t \in Tokens, Logout(t)
      PROVE  \/ revokedAt'[f] = revokedAt[f]
             \/ /\ revokedAt'[f] = now
                /\ sessions[t] # None
                /\ minted[t].login = f
  BY <1>1 DEF Logout, TypeOK
<1>2. revokedAt' = revokedAt \/ \E t \in Tokens : Logout(t)
  BY DEF Next, vars, InitSIWE, VerifyGet, VerifyDelete, VerifyRefused, Register, Connect,
     IssueLogin, IssueLoginFails, Consume, RotateRefresh, RotateFails, IssueTokens,
     Tick, Restart, server, history
<1> QED
  BY <1>1, <1>2

LEMMA RevokedStep ==
  ASSUME TypeOK, Provenance, OneHolderPerLogin, RevokedLoginStaysDead, [Next]_vars
  PROVE  RevokedLoginStaysDead'
<1>1. OneHolder
  BY HolderOut
<1>2. \A f \in Tokens : revokedAt[f] # None => Dead(f)
  BY DEF RevokedLoginStaysDead, Dead, LiveTokens, Rotating
<1> SUFFICES ASSUME NEW f \in Tokens, revokedAt'[f] # None
             PROVE  Dead(f)'
  BY DEF RevokedLoginStaysDead, Dead, LiveTokens, Rotating
<1>3. ASSUME NEW t \in Tokens, Logout(t), sessions[t] # None, minted[t].login = f
      PROVE  Dead(f)'
  <2>1. minted' = minted /\ rtask' = rtask /\ sessions' = [sessions EXCEPT ![t] = None]
    BY <1>3 DEF Logout, SessionDelete
  <2>2. \A u \in Tokens : sessions'[u] # None => u # t /\ sessions[u] # None
    BY <2>1 DEF TypeOK
  <2> QED
    BY <1>1, <1>3, <2>1, <2>2 DEF OneHolder, Dead
<1>4. CASE revokedAt'[f] = revokedAt[f]
  <2>1. Dead(f) /\ minted[f] # None
    BY <1>2, <1>4 DEF Provenance
  <2>2. ASSUME NEW v \in Verifiers, NEW t \in Tokens, IssueLogin(v, t)
        PROVE  Dead(f)'
    <3>1. t # f /\ minted'[t].login = t /\ rtask' = rtask /\ minted[t] = None
          /\ \A u \in Tokens \ {t} : minted'[u] = minted[u] /\ sessions'[u] = sessions[u]
      BY <2>1, <2>2, IssueLoginEffect DEF Issued, IssueLogin
    <3>2. \A r \in Refreshers : rtask[r] # None => rtask[r].token \in Tokens \ {t}
      BY <3>1, LoginType DEF Provenance
    <3> QED
      BY <2>1, <3>1, <3>2 DEF Dead
  <2>3. ASSUME NEW r \in Refreshers, NEW t \in Tokens, RotateRefresh(r, t)
        PROVE  Dead(f)'
    <3>1. /\ minted'[t].login = minted[rtask[r].token].login /\ rtask[r] # None
          /\ minted[t] = None
          /\ \A u \in Tokens \ {t} : minted'[u] = minted[u] /\ sessions'[u] = sessions[u]
      BY <2>3, RotateRefreshEffect DEF Issued, RotateRefresh
    <3>2. minted'[t].login # f
      BY <2>1, <3>1 DEF Dead
    <3>3. \A q \in Refreshers : rtask'[q] # None =>
            rtask[q] # None /\ rtask'[q] = rtask[q] /\ rtask[q].token \in Tokens \ {t}
      BY <2>3, <3>1, LoginType DEF RotateRefresh, TypeOK, Provenance
    <3> QED
      BY <2>1, <3>1, <3>2, <3>3 DEF Dead
  <2>4. ASSUME NEW r \in Refreshers, NEW t \in Tokens, Consume(r, t)
        PROVE  Dead(f)'
    <3>1. /\ minted' = minted /\ sessions[t] # None /\ rtask'[r].token = t
          /\ \A q \in Refreshers \ {r} : rtask'[q] = rtask[q]
          /\ \A u \in Tokens : sessions'[u] \in {sessions[u], None}
      BY <2>4 DEF Consume, SessionDelete, TypeOK, history
    <3> QED
      BY <2>1, <3>1 DEF Dead
  <2>5. ASSUME minted' = minted,
               \A t \in Tokens : sessions'[t] \in {sessions[t], None},
               \A r \in Refreshers : rtask'[r] \in {rtask[r], None}
        PROVE  Dead(f)'
    BY <2>1, <2>5 DEF Dead
  <2> QED
    BY <2>2, <2>3, <2>4, <2>5, StepKinds
<1> QED
  BY <1>3, <1>4, RevokeStep

(* What holds of a date holds of the later ones.                            *)
LEMMA LaterBound ==
  \A x, n, later, ttl \in Nat : x <= n + ttl /\ n <= later => x <= later + ttl
OBVIOUS

LEMMA DatedStep ==
  ASSUME TypeOK, Provenance, Dated, [Next]_vars
  PROVE  Dated'
<1>1. now \in Nat /\ now' \in Nat /\ now <= now'
  BY DEF TypeOK, Time, Next, vars, InitSIWE, VerifyGet, VerifyDelete, VerifyRefused,
     Register, Connect, IssueLogin, IssueLoginFails, Consume, RotateRefresh, RotateFails,
     IssueTokens, Logout, Tick, Restart, server, history
<1>2. ASSUME NEW t \in Tokens, minted'[t] # None
      PROVE  minted'[t].accessExpires <= now' + AccessTTL
  <2>1. CASE minted[t] # None
    <3>1. minted'[t] = minted[t] /\ minted[t].accessExpires \in Nat
      BY <2>1, PairStep DEF TypeOK, TokenPair
    <3>2. minted[t].accessExpires <= now + AccessTTL
      BY <2>1 DEF Dated
    <3> QED
      BY <1>1, <3>1, <3>2, LaterBound, TTLAssumption
  <2>2. CASE minted[t] = None
    <3>1. minted'[t].accessExpires = now + AccessTTL
      BY <1>2, <2>2, PairStep, IssueLoginEffect, RotateRefreshEffect DEF Issued
    <3>2. now + AccessTTL \in Nat /\ now + AccessTTL <= now + AccessTTL
      BY <1>1, TTLAssumption
    <3> QED
      BY <1>1, <3>1, <3>2, LaterBound, TTLAssumption
  <2> QED
    BY <2>1, <2>2
<1>3. ASSUME NEW f \in Tokens, revokedAt'[f] # None
      PROVE  revokedAt'[f] <= now'
  <2>1. CASE revokedAt'[f] = revokedAt[f]
    <3>1. revokedAt[f] \in Nat /\ revokedAt[f] <= now
      BY <1>3, <2>1 DEF TypeOK, Dated
    <3> QED
      BY <1>1, <2>1, <3>1
  <2>2. CASE revokedAt'[f] = now
    BY <1>1, <2>2
  <2> QED
    BY <2>1, <2>2, RevokeStep
<1> QED
  BY <1>2, <1>3 DEF Dated

LEMMA AccessStep ==
  ASSUME TypeOK, Provenance, Dated, RevokedLoginStaysDead, RevokedAccessDiesOut, [Next]_vars
  PROVE  RevokedAccessDiesOut'
<1> SUFFICES ASSUME NEW t \in Tokens, minted'[t] # None,
                    revokedAt'[minted'[t].login] # None
             PROVE  minted'[t].accessExpires <= revokedAt'[minted'[t].login] + AccessTTL
  BY DEF RevokedAccessDiesOut
<1> DEFINE f == minted'[t].login
<1>1. CASE minted[t] # None
  <2>1. minted'[t] = minted[t] /\ f \in Tokens
    BY <1>1, PairStep, LoginType
  <2>2. CASE revokedAt'[f] = revokedAt[f]
    BY <1>1, <2>1, <2>2 DEF RevokedAccessDiesOut
  <2>3. CASE revokedAt'[f] = now
    BY <1>1, <2>1, <2>3 DEF Dated
  <2> QED
    BY <2>1, <2>2, <2>3, RevokeStep
<1>2. ASSUME NEW v \in Verifiers, IssueLogin(v, t)
      PROVE  FALSE
  <2>1. f = t /\ minted[t] = None
    BY <1>2, IssueLoginEffect DEF Issued
  <2>2. revokedAt[t] = None
    BY <2>1 DEF Provenance
  <2> QED
    BY <1>2, <2>1, <2>2 DEF IssueLogin, IssueTokens
<1>3. ASSUME NEW r \in Refreshers, RotateRefresh(r, t)
      PROVE  FALSE
  <2>1. f = minted[rtask[r].token].login /\ f \in Tokens /\ rtask[r] # None
    BY <1>3, RotateRefreshEffect DEF Issued, RotateRefresh
  <2>2. r \in Rotating(f)
    BY <2>1 DEF Rotating
  <2>3. revokedAt[f] = None
    BY <2>1, <2>2 DEF RevokedLoginStaysDead
  <2> QED
    BY <1>3, <2>3 DEF RotateRefresh, IssueTokens
<1> QED
  BY <1>1, <1>2, <1>3, PairStep

-----------------------------------------------------------------------------
(* The theorems                                                             *)

(* The conjunction of the parts is inductive.                               *)
THEOREM Inductive == Spec => []IInv
<1>1. Init => IInv
  <2> SUFFICES ASSUME Init
               PROVE  IInv
    OBVIOUS
  <2> USE DEF Init, InitServer
  <2>1. Provenance /\ Authenticated /\ Prepared /\ Dated
    BY DEF Provenance, Authenticated, Prepared, Dated
  <2>2. SpentNonceGone /\ TokensBelongToSigner /\ SessionBacked /\ RevokedAccessDiesOut
    BY DEF SpentNonceGone, TokensBelongToSigner, SessionBacked, RevokedAccessDiesOut
  <2>3. OneHolderPerLogin /\ RevokedLoginStaysDead
    BY DEF OneHolderPerLogin, RevokedLoginStaysDead, LiveTokens, Rotating
  <2> QED
    BY <2>1, <2>2, <2>3, TypeInit, CalmInit DEF IInv
<1>2. IInv /\ [Next]_vars => IInv'
  BY TypeStep, ProvenanceStep, AuthenticatedStep, PreparedStep, DatedStep, SpentStep,
     CalmStep, OwnerStep, HolderStep, RevokedStep, AccessStep DEF IInv
<1> QED
  BY <1>1, <1>2, PTL DEF Spec

(* The stores, requests and clients' tokens stay well-formed.               *)
THEOREM TypeCorrect == Spec => []TypeOK
BY Inductive, PTL DEF IInv

(* The latest nonce of a key is lost only to a signature, a restart, or a     *)
(* verify request that had read an older nonce of that key.                 *)
THEOREM NonceKeptForItsClient == Spec => []NonceLostToOverlapOnly
BY Inductive, PTL DEF IInv

(* Every token pair serves the account that signed its login's message.     *)
THEOREM Ownership == Spec => []TokensBelongToSigner
BY Inductive, PTL DEF IInv

(* No session without an open pool and a watched owner.                     *)
THEOREM Backed == Spec => []SessionBacked
BY Inductive, PTL DEF IInv

(* However many refresh requests race, a login is never forked.             *)
THEOREM OneHolderOnly == Spec => []OneHolderPerLogin
BY Inductive, PTL DEF IInv

(* A revoked login is never refreshed again.                                *)
THEOREM RevocationIsFinal == Spec => []RevokedLoginStaysDead
BY Inductive, PTL DEF IInv

(* The last JWT of a revoked login expires within AccessTTL.                *)
THEOREM RevocationBoundsAccess == Spec => []RevokedAccessDiesOut
BY Inductive, PTL DEF IInv

-----------------------------------------------------------------------------
(* How often a nonce logs in: the logins it has opened and the requests that  *)
(* hold it are together never more than there are requests.  A request takes  *)
(* a nonce only while it is unspent, hence has opened nothing yet.           *)

HoldersOf(n) == {v \in Verifiers : vtask[v] # None /\ vtask[v].nonce = n}

ReuseInv ==
  \A n \in Nonces :
    /\ IsFiniteSet(LoginsOf(n))
    /\ Cardinality(LoginsOf(n)) + Cardinality(HoldersOf(n)) <= Cardinality(Verifiers)

LEMMA HoldersFinite ==
  \A n : /\ IsFiniteSet(HoldersOf(n))
         /\ Cardinality(HoldersOf(n)) \in Nat
         /\ Cardinality(HoldersOf(n)) <= Cardinality(Verifiers)
         /\ Cardinality(Verifiers) \in Nat
<1> TAKE n
<1>1. HoldersOf(n) \subseteq Verifiers
  BY DEF HoldersOf
<1> QED
  BY <1>1, VerifiersAssumption, FS_Subset, FS_CardinalityType

(* A step that opens no login and takes no nonce.                            *)
LEMMA FewerHolders ==
  ASSUME ReuseInv, NEW n \in Nonces,
         LoginsOf(n)' = LoginsOf(n), HoldersOf(n)' \subseteq HoldersOf(n)
  PROVE  /\ IsFiniteSet(LoginsOf(n))'
         /\ Cardinality(LoginsOf(n))' + Cardinality(HoldersOf(n))' <= Cardinality(Verifiers)
<1> DEFINE L0 == LoginsOf(n)
           H0 == HoldersOf(n)
           H1 == HoldersOf(n)'
<1>1. /\ IsFiniteSet(L0) /\ Cardinality(L0) + Cardinality(H0) <= Cardinality(Verifiers)
      /\ IsFiniteSet(H0) /\ H1 \subseteq H0
      /\ Cardinality(H0) \in Nat /\ Cardinality(Verifiers) \in Nat
  BY HoldersFinite DEF ReuseInv
<1> HIDE DEF L0, H0, H1
<1>2. Cardinality(H1) \in Nat /\ Cardinality(H1) <= Cardinality(H0)
  BY <1>1, FS_Subset, FS_CardinalityType
<1>3. Cardinality(L0) \in Nat
  BY <1>1, FS_CardinalityType
<1>4. Cardinality(L0) + Cardinality(H1) <= Cardinality(Verifiers)
  BY <1>1, <1>2, <1>3
<1> QED
  BY <1>1, <1>4 DEF L0, H1

LEMMA SameLogins ==
  ASSUME UNCHANGED minted
  PROVE  \A n : LoginsOf(n)' = LoginsOf(n)
  BY DEF LoginsOf

LEMMA RotationOpensNone ==
  ASSUME TypeOK, Provenance, NEW r \in Refreshers, NEW t \in Tokens, RotateRefresh(r, t),
         NEW n \in Nonces
  PROVE  LoginsOf(n)' = LoginsOf(n)
<1>1. PICK old \in Tokens :
        /\ minted[old] # None /\ minted[old].login \in Tokens
        /\ minted[t] = None /\ minted'[t].login = minted[old].login
        /\ \A u \in Tokens \ {t} : minted'[u] = minted[u]
  BY RotateRefreshEffect DEF Issued
<1>2. minted[minted[old].login] # None
  BY <1>1 DEF Provenance
<1>3. minted'[t].login # t
  BY <1>1, <1>2
<1> QED
  BY <1>1, <1>3 DEF LoginsOf

LEMMA ReuseStep ==
  ASSUME IInv, ReuseInv, [Next]_vars
  PROVE  ReuseInv'
<1> SUFFICES ASSUME NEW n \in Nonces
             PROVE  /\ IsFiniteSet(LoginsOf(n))'
                    /\ Cardinality(LoginsOf(n))' + Cardinality(HoldersOf(n))'
                         <= Cardinality(Verifiers)
  BY DEF ReuseInv
<1> USE DEF IInv
<1>0. vtask \in [Verifiers -> VerifyTask \cup {None}]
  BY DEF TypeOK
<1>1. CASE UNCHANGED minted /\ UNCHANGED vtask
  <2>1. HoldersOf(n)' = HoldersOf(n)
    BY <1>1 DEF HoldersOf
  <2> QED
    BY <1>1, <2>1, SameLogins, FewerHolders
<1>2. ASSUME NEW v \in Verifiers, NEW m \in Nonces, VerifyGet(v, m)
      PROVE  /\ IsFiniteSet(LoginsOf(n))'
             /\ Cardinality(LoginsOf(n))' + Cardinality(HoldersOf(n))' <= Cardinality(Verifiers)
  <2>1. LoginsOf(n)' = LoginsOf(n)
    BY <1>2, SameLogins DEF VerifyGet, history
  <2>2. CASE m # n
    <3>1. HoldersOf(n)' \subseteq HoldersOf(n)
      BY <1>0, <1>2, <2>2 DEF HoldersOf, VerifyGet
    <3> QED
      BY <2>1, <3>1, FewerHolders
  <2>3. CASE m = n
    <3>1. issued[n] # None /\ MessageKey(n) \in Key
      BY <1>2, <2>3, MessageOwnerType DEF VerifyGet
    <3>2. nonces[MessageKey(n)] # None /\ nonces[MessageKey(n)].nonce = n
      BY <1>2, <2>3 DEF VerifyGet, EntryMatches
    <3>3. signedBy[n] = {}
      BY <3>1, <3>2 DEF SpentNonceGone
    <3>4. LoginsOf(n) = {}
      BY <3>3 DEF LoginsOf, TokensBelongToSigner
    <3>5. Cardinality(LoginsOf(n)') = 0 /\ IsFiniteSet(LoginsOf(n)')
      BY <2>1, <3>4, FS_EmptySet
    <3>6. /\ Cardinality(HoldersOf(n)') \in Nat
          /\ Cardinality(HoldersOf(n)') <= Cardinality(Verifiers)
      <4>1. HoldersOf(n)' \subseteq Verifiers
        BY DEF HoldersOf
      <4> QED
        BY <4>1, VerifiersAssumption, FS_Subset, FS_CardinalityType
    <3> QED
      BY <3>5, <3>6
  <2> QED
    BY <2>2, <2>3
<1>3. ASSUME NEW v \in Verifiers, NEW t \in Tokens, IssueLogin(v, t)
      PROVE  /\ IsFiniteSet(LoginsOf(n))'
             /\ Cardinality(LoginsOf(n))' + Cardinality(HoldersOf(n))' <= Cardinality(Verifiers)
  <2>1. /\ vtask[v] # None /\ vtask' = [vtask EXCEPT ![v] = None]
        /\ minted[t] = None /\ minted'[t] # None
        /\ minted'[t].login = t /\ minted'[t].nonce = vtask[v].nonce
        /\ \A u \in Tokens \ {t} : minted'[u] = minted[u]
    BY <1>3, IssueLoginEffect DEF Issued, IssueLogin
  <2>2. CASE vtask[v].nonce # n
    <3>1. LoginsOf(n)' = LoginsOf(n)
      BY <2>1, <2>2 DEF LoginsOf
    <3>2. HoldersOf(n)' \subseteq HoldersOf(n)
      BY <1>0, <2>1 DEF HoldersOf
    <3> QED
      BY <3>1, <3>2, FewerHolders
  <2>3. CASE vtask[v].nonce = n
    <3> DEFINE L0 == LoginsOf(n)
               L1 == LoginsOf(n)'
               H0 == HoldersOf(n)
               H1 == HoldersOf(n)'
    <3>1. L1 = L0 \cup {t} /\ t \notin L0
      BY <2>1, <2>3 DEF LoginsOf
    <3>2. H1 = H0 \ {v} /\ v \in H0
      BY <1>0, <2>1, <2>3 DEF HoldersOf
    <3>3. /\ IsFiniteSet(L0) /\ Cardinality(L0) + Cardinality(H0) <= Cardinality(Verifiers)
          /\ IsFiniteSet(H0)
      BY HoldersFinite DEF ReuseInv
    <3> HIDE DEF L0, L1, H0, H1
    <3>4. IsFiniteSet(L1) /\ Cardinality(L1) = Cardinality(L0) + 1
      BY <3>1, <3>3, FS_AddElement
    <3>5. Cardinality(H1) = Cardinality(H0) - 1
      BY <3>2, <3>3, FS_RemoveElement
    <3>6. Cardinality(L0) \in Nat /\ Cardinality(H0) \in Nat
      BY <3>3, FS_CardinalityType
    <3>7. Cardinality(L1) + Cardinality(H1) <= Cardinality(Verifiers)
      BY <3>3, <3>4, <3>5, <3>6
    <3> QED
      BY <3>4, <3>7 DEF L1, H1
  <2> QED
    BY <2>2, <2>3
<1>4. ASSUME NEW r \in Refreshers, NEW t \in Tokens, RotateRefresh(r, t)
      PROVE  /\ IsFiniteSet(LoginsOf(n))'
             /\ Cardinality(LoginsOf(n))' + Cardinality(HoldersOf(n))' <= Cardinality(Verifiers)
  <2>1. HoldersOf(n)' = HoldersOf(n)
    BY <1>4 DEF HoldersOf, RotateRefresh
  <2> QED
    BY <1>4, <2>1, RotationOpensNone, FewerHolders
<1>5. ASSUME NEW v \in Verifiers,
             \/ \E s \in Accounts, e \in Time :
                  VerifyDelete(v, s, e) \/ VerifyRefused(v, s, e)
             \/ Register(v) \/ Connect(v) \/ IssueLoginFails(v)
      PROVE  /\ IsFiniteSet(LoginsOf(n))'
             /\ Cardinality(LoginsOf(n))' + Cardinality(HoldersOf(n))' <= Cardinality(Verifiers)
  <2>1. UNCHANGED minted
    BY <1>5 DEF VerifyDelete, VerifyRefused, Register, Connect, IssueLoginFails, history
  <2>2. /\ vtask[v] # None
        /\ \A u \in Verifiers \ {v} : vtask'[u] = vtask[u]
        /\ vtask'[v] # None => vtask'[v].nonce = vtask[v].nonce
    BY <1>0, <1>5
    DEF VerifyDelete, VerifyRefused, Register, Connect, IssueLoginFails, AfterPool, VerifyTask
  <2>3. HoldersOf(n)' \subseteq HoldersOf(n)
    BY <2>2 DEF HoldersOf
  <2> QED
    BY <2>1, <2>3, SameLogins, FewerHolders
<1>6. CASE Restart
  <2>1. HoldersOf(n)' \subseteq HoldersOf(n)
    BY <1>6 DEF HoldersOf, Restart
  <2> QED
    BY <1>6, <2>1, SameLogins, FewerHolders DEF Restart, history
<1> QED
  BY <1>1, <1>2, <1>3, <1>4, <1>5, <1>6
  DEF Next, vars, history, server, InitSIWE, Consume, RotateFails, Logout, Tick

(* One nonce never opens more logins than there are verify requests at once.  *)
THEOREM ReuseIsBounded == Spec => []NonceReuseBounded
<1>1. Init => ReuseInv
  <2> SUFFICES ASSUME Init, NEW n \in Nonces
               PROVE  /\ IsFiniteSet(LoginsOf(n))
                      /\ Cardinality(LoginsOf(n)) + Cardinality(HoldersOf(n))
                           <= Cardinality(Verifiers)
    BY DEF ReuseInv
  <2>1. LoginsOf(n) = {}
    BY DEF Init, LoginsOf
  <2> QED
    BY <2>1, HoldersFinite, FS_EmptySet
<1>2. ReuseInv => NonceReuseBounded
  <2> SUFFICES ASSUME ReuseInv, NEW n \in Nonces
               PROVE  Cardinality(LoginsOf(n)) <= Cardinality(Verifiers)
    BY DEF NonceReuseBounded
  <2>1. Cardinality(LoginsOf(n)) \in Nat
    BY FS_CardinalityType DEF ReuseInv
  <2> QED
    BY <2>1, HoldersFinite DEF ReuseInv
<1> QED
  BY <1>1, <1>2, ReuseStep, Inductive, PTL DEF Spec

-----------------------------------------------------------------------------
(* Refinement                                                               *)

(* o is one of ServedOwners[f], without the sets.                           *)
Serves(f, o) ==
  \/ \E t \in Tokens : /\ sessions[t] # None /\ minted[t].login = f
                       /\ o = sessions[t].owner
  \/ \E r \in Refreshers : /\ rtask[r] # None /\ minted[rtask[r].token].login = f
                           /\ o = rtask[r].session.owner

LEMMA ServedSet ==
  \A f \in Tokens : \A o : o \in ServedOwners[f] <=> Serves(f, o)
BY DEF ServedOwners, LiveTokens, Rotating, Serves

LEMMA ServedSetNext ==
  \A f \in Tokens : \A o : o \in ServedOwners'[f] <=> Serves(f, o)'
BY DEF ServedOwners, LiveTokens, Rotating, Serves

(* To compare the abstract state before and after a step, compare its       *)
(* members.                                                                 *)
LEMMA SameServed ==
  ASSUME \A f \in Tokens : \A o : Serves(f, o)' <=> Serves(f, o)
  PROVE  ServedOwners' = ServedOwners
<1>1. \A f \in Tokens : ServedOwners'[f] = ServedOwners[f]
  BY ServedSet, ServedSetNext
<1> QED
  BY <1>1 DEF ServedOwners

LEMMA ChangedServed ==
  ASSUME NEW g \in Tokens, NEW S,
         \A o : Serves(g, o)' <=> o \in S,
         \A f \in Tokens \ {g} : \A o : Serves(f, o)' <=> Serves(f, o)
  PROVE  ServedOwners' = [ServedOwners EXCEPT ![g] = S]
<1>1. \A f \in Tokens \ {g} : ServedOwners'[f] = ServedOwners[f]
  BY ServedSet, ServedSetNext
<1>2. ServedOwners'[g] = S
  BY ServedSetNext
<1>3. ServedOwners' = [f \in Tokens |-> ServedOwners'[f]]
      /\ ServedOwners = [f \in Tokens |-> ServedOwners[f]]
  BY DEF ServedOwners
<1>4. \A f \in Tokens : ServedOwners'[f] = [ServedOwners EXCEPT ![g] = S][f]
  BY <1>1, <1>2, <1>3
<1> QED
  BY <1>3, <1>4

LEMMA ClosedServed ==
  ASSUME NEW g \in Tokens,
         \A o : ~Serves(g, o)',
         \A f \in Tokens \ {g} : \A o : Serves(f, o)' <=> Serves(f, o)
  PROVE  ServedOwners' = [ServedOwners EXCEPT ![g] = {}]
<1> DEFINE S == {}
<1>1. \A o : Serves(g, o)' <=> o \in S
  OBVIOUS
<1> HIDE DEF S
<1>2. ServedOwners' = [ServedOwners EXCEPT ![g] = S]
  BY <1>1, ChangedServed
<1> QED
  BY <1>2 DEF S

LEMMA OpenStep ==
  ASSUME IInv, NEW v \in Verifiers, NEW t \in Tokens, IssueLogin(v, t)
  PROVE  L!Next
<1> USE DEF IInv
<1> DEFINE o == MessageOwner(vtask[v].nonce)
<1>1. /\ vtask[v].nonce \in Nonces /\ issued[vtask[v].nonce] # None
      /\ Issued(t, t, vtask[v].nonce, o)
  BY IssueLoginEffect
<1>2. o \in Owner
  BY <1>1, MessageOwnerType
<1>3. minted[t] = None /\ minted'[t] # None /\ minted'[t].login = t
      /\ sessions'[t] # None /\ sessions'[t].owner = o
      /\ \A u \in Tokens \ {t} : minted'[u] = minted[u] /\ sessions'[u] = sessions[u]
  BY <1>1 DEF Issued
<1>4. rtask' = rtask
  BY DEF IssueLogin
<1>5. \A u \in Tokens : minted[u] # None => minted[u].login # t
  BY <1>3 DEF Provenance
<1>6. sessions[t] = None /\ \A r \in Refreshers : rtask[r] # None =>
        rtask[r].token \in Tokens \ {t} /\ minted[rtask[r].token] # None
  BY <1>3, LoginType DEF Provenance
<1>7. \A x : Serves(t, x)' <=> x \in {o}
  BY <1>3, <1>4, <1>5, <1>6 DEF Serves, Provenance
<1>8. \A f \in Tokens \ {t} : \A x : Serves(f, x)' <=> Serves(f, x)
  BY <1>3, <1>4, <1>6 DEF Serves
<1>9. ServedOwners' = [ServedOwners EXCEPT ![t] = {o}]
  BY <1>7, <1>8, ChangedServed
<1>10. t \notin OpenedLogins /\ OpenedLogins' = OpenedLogins \cup {t}
  BY <1>3, <1>5 DEF OpenedLogins
<1>11. L!Open(t, o)
  BY <1>9, <1>10 DEF L!Open
<1> QED
  BY <1>2, <1>11 DEF L!Next

LEMMA RotateIsSilent ==
  ASSUME IInv, NEW r \in Refreshers, NEW t \in Tokens, RotateRefresh(r, t)
  PROVE  UNCHANGED L!vars
<1> USE DEF IInv
<1> DEFINE old == rtask[r].token
           g == minted[old].login
           o == rtask[r].session.owner
<1>1. /\ old \in Tokens /\ minted[old] # None /\ rtask[r] # None
      /\ minted[t] = None /\ minted'[t] # None /\ minted'[t].login = g
      /\ sessions'[t] # None /\ sessions'[t].owner = o
      /\ \A u \in Tokens \ {t} : minted'[u] = minted[u] /\ sessions'[u] = sessions[u]
  BY RotateRefreshEffect DEF Issued, RotateRefresh
<1>2. sessions[t] = None /\ \A q \in Refreshers : rtask[q] # None =>
        rtask[q].token \in Tokens \ {t} /\ minted[rtask[q].token] # None
  BY <1>1, LoginType DEF Provenance
<1>3. /\ rtask'[r] = None
      /\ \A q \in Refreshers \ {r} : rtask'[q] = rtask[q]
  BY DEF RotateRefresh, TypeOK
<1>4. \A f \in Tokens : \A x : Serves(f, x)' <=> Serves(f, x)
  BY <1>1, <1>2, <1>3 DEF Serves
<1>5. OpenedLogins' = OpenedLogins
  BY <1>1 DEF OpenedLogins
<1> QED
  BY <1>4, <1>5, SameServed DEF L!vars

LEMMA ConsumeIsSilent ==
  ASSUME IInv, NEW r \in Refreshers, NEW t \in Tokens, Consume(r, t)
  PROVE  UNCHANGED L!vars
<1>1. /\ minted' = minted /\ sessions[t] # None /\ rtask[r] = None
      /\ rtask'[r] = [token |-> t, session |-> sessions[t]]
      /\ \A q \in Refreshers \ {r} : rtask'[q] = rtask[q]
      /\ sessions'[t] = None
      /\ \A u \in Tokens \ {t} : sessions'[u] = sessions[u]
  BY DEF Consume, SessionDelete, IInv, TypeOK, history
<1>2. rtask'[r] # None
  BY <1>1, TypeStep, NoneAssumption DEF IInv, TypeOK, RotateTask
<1>3. \A f \in Tokens : \A x : Serves(f, x)' <=> Serves(f, x)
  BY <1>1, <1>2 DEF Serves
<1>4. OpenedLogins' = OpenedLogins
  BY <1>1 DEF OpenedLogins
<1> QED
  BY <1>3, <1>4, SameServed DEF L!vars

LEMMA RotateFailsCloses ==
  ASSUME IInv, NEW r \in Refreshers, RotateFails(r)
  PROVE  L!Next
<1> USE DEF IInv
<1>1. /\ rtask[r] # None /\ rtask'[r] = None
      /\ \A q \in Refreshers \ {r} : rtask'[q] = rtask[q]
      /\ minted' = minted /\ sessions' = sessions
  BY DEF RotateFails, TypeOK, history
<1>2. PICK g \in Tokens : g = minted[rtask[r].token].login
  BY <1>1, LoginType
<1>3. OneHolder
  BY HolderOut
<1>4. \A x : ~Serves(g, x)'
  <2>1. \A u \in Tokens : sessions'[u] # None => minted'[u].login # g
    BY <1>1, <1>2, <1>3 DEF OneHolder
  <2>2. \A q \in Refreshers : rtask'[q] # None => minted'[rtask'[q].token].login # g
    BY <1>1, <1>2, <1>3 DEF OneHolder
  <2> QED
    BY <2>1, <2>2 DEF Serves
<1>5. \A f \in Tokens \ {g} : \A x : Serves(f, x)' <=> Serves(f, x)
  BY <1>1, <1>2 DEF Serves
<1>6. ServedOwners' = [ServedOwners EXCEPT ![g] = {}]
  BY <1>2, <1>4, <1>5, ClosedServed
<1>7. ServedOwners[g] # {}
  BY <1>1, <1>2, ServedSet DEF Serves
<1>8. OpenedLogins' = OpenedLogins
  BY <1>1 DEF OpenedLogins
<1> QED
  BY <1>2, <1>6, <1>7, <1>8 DEF L!Next, L!Close

LEMMA LogoutCloses ==
  ASSUME IInv, NEW t \in Tokens, Logout(t)
  PROVE  L!Next \/ UNCHANGED L!vars
<1> USE DEF IInv
<1>1. /\ minted' = minted /\ rtask' = rtask /\ sessions'[t] = None
      /\ \A u \in Tokens \ {t} : sessions'[u] = sessions[u]
  BY DEF Logout, SessionDelete, TypeOK
<1>2. OpenedLogins' = OpenedLogins
  BY <1>1 DEF OpenedLogins
<1>3. CASE sessions[t] = None
  <2>1. \A f \in Tokens : \A x : Serves(f, x)' <=> Serves(f, x)
    BY <1>1, <1>3 DEF Serves
  <2> QED
    BY <1>2, <2>1, SameServed DEF L!vars
<1>4. CASE sessions[t] # None
  <2>1. PICK g \in Tokens : g = minted[t].login
    BY <1>4, LoginType
  <2>2. OneHolder
    BY HolderOut
  <2>3. \A x : ~Serves(g, x)'
    BY <1>1, <1>4, <2>1, <2>2 DEF Serves, OneHolder
  <2>4. \A f \in Tokens \ {g} : \A x : Serves(f, x)' <=> Serves(f, x)
    BY <1>1, <2>1 DEF Serves
  <2>5. ServedOwners' = [ServedOwners EXCEPT ![g] = {}]
    BY <2>1, <2>3, <2>4, ClosedServed
  <2>6. ServedOwners[g] # {}
    BY <1>4, <2>1, ServedSet DEF Serves
  <2> QED
    BY <1>2, <2>1, <2>5, <2>6 DEF L!Next, L!Close
<1> QED
  BY <1>3, <1>4

LEMMA RestartCrashes ==
  ASSUME Restart
  PROVE  L!Next
<1>1. /\ \A t \in Tokens : sessions'[t] = None
      /\ \A r \in Refreshers : rtask'[r] = None
      /\ minted' = minted
  BY DEF Restart, history
<1>2. ServedOwners' = [f \in Tokens |-> {}]
  BY <1>1 DEF ServedOwners, LiveTokens, Rotating
<1>3. OpenedLogins' = OpenedLogins
  BY <1>1 DEF OpenedLogins
<1> QED
  BY <1>2, <1>3 DEF L!Next, L!Crash

(* The service implements the abstract logins.                              *)
THEOREM Refinement == Spec => RefinesLogins
<1>1. Init => L!Init
  <2> SUFFICES ASSUME Init
               PROVE  L!Init
    OBVIOUS
  <2>1. OpenedLogins = {} /\ ServedOwners = [f \in Tokens |-> {}]
    BY DEF Init, InitServer, OpenedLogins, ServedOwners, LiveTokens, Rotating
  <2> QED
    BY <2>1 DEF L!Init
<1>2. IInv /\ [Next]_vars => [L!Next]_(L!vars)
  <2> SUFFICES ASSUME IInv, [Next]_vars
               PROVE  L!Next \/ UNCHANGED L!vars
    OBVIOUS
  <2>1. CASE UNCHANGED <<sessions, rtask, minted>>
    BY <2>1 DEF L!vars, OpenedLogins, ServedOwners, LiveTokens, Rotating
  <2>2. \/ UNCHANGED <<sessions, rtask, minted>>
        \/ \E v \in Verifiers, t \in Tokens : IssueLogin(v, t)
        \/ \E r \in Refreshers, t \in Tokens : RotateRefresh(r, t)
        \/ \E r \in Refreshers, t \in Tokens : Consume(r, t)
        \/ \E r \in Refreshers : RotateFails(r)
        \/ \E t \in Tokens : Logout(t)
        \/ Restart
    BY DEF Next, vars, InitSIWE, VerifyGet, VerifyDelete, VerifyRefused,
       Register, Connect, IssueLoginFails, Tick, server, history
  <2> QED
    BY <2>1, <2>2, OpenStep, RotateIsSilent, ConsumeIsSilent, RotateFailsCloses,
       LogoutCloses, RestartCrashes
<1> QED
  BY <1>1, <1>2, Inductive, PTL DEF Spec, RefinesLogins, L!Spec
=============================================================================
