-------------------------- MODULE WebSessionProofs --------------------------
(***************************************************************************)
(* The session of the web client keeps one login together, loses it in no   *)
(* race, and ends it with a quiet logout, for any tabs, calls and logins.   *)
(***************************************************************************)
EXTENDS WebSession, TLAPS

(* Records                                                                  *)

LEMMA Records ==
  ASSUME NEW s \in Stored
  PROVE  /\ s # None
         /\ s.who \in Owners /\ s.access \in Pair /\ s.refresh \in Pair
         /\ s.refresh.login \in Logins /\ s.refresh.gen \in Nat
         /\ s.access.login \in Logins /\ s.access.gen \in Nat
         /\ s.refresh # None /\ s.access # None
  BY NoneAssumption DEF Stored, Pair

LEMMA CallFields ==
  ASSUME TypeOK, NEW c \in Calls, call[c] # None
  PROVE  /\ call[c] \in Call
         /\ call[c].kind \in Kinds
         /\ call[c].at \in Stages
         /\ call[c].awaited \in BOOLEAN
         /\ call[c].with \in Pair \cup {None}
         /\ call[c].old \in Stored \cup {None}
         /\ call[c].new \in Pair \cup {None}
<1>1. call[c] \in Call
  BY DEF TypeOK
<1> HIDE DEF Kinds, Stages
<1> QED
  BY <1>1 DEF Call

LEMMA SentType ==
  ASSUME NEW kind \in Kinds, NEW again \in BOOLEAN, NEW awaited \in BOOLEAN,
         NEW s \in Stored \cup {None}
  PROVE  /\ Sent(kind, again, awaited, s) \in Call
         /\ Sent(kind, again, awaited, s) # None
         /\ Sent(kind, again, awaited, s).at = "sent"
<1> DEFINE w == IF s = None THEN None ELSE s.access
<1>1. w \in Pair \cup {None}
  BY Records
<1>2. "sent" \in Stages
  BY DEF Stages
<1> HIDE DEF Kinds, Stages
<1>3. Sent(kind, again, awaited, s) \in Call
  <2> HIDE DEF w
  <2>1. [kind |-> kind, at |-> "sent", again |-> again,
         awaited |-> awaited, with |-> w,
         old |-> None, new |-> None] \in Call
    BY <1>1, <1>2 DEF Call
  <2> QED
    BY <2>1 DEF Sent, w
<1> QED
  BY <1>3, NoneAssumption DEF Sent

LEMMA FirstType ==
  ASSUME NEW l \in Logins
  PROVE  /\ OfLogin(l) \in Stored
         /\ OfLogin(l).refresh = First(l) /\ OfLogin(l).access = First(l)
         /\ OfLogin(l).who = OwnerOf[l]
         /\ First(l).login = l /\ First(l).gen = 1
  BY OwnerAssumption DEF OfLogin, First, Stored, Pair

LEMMA MergedType ==
  ASSUME NEW s \in Stored, NEW p \in Pair
  PROVE  /\ Merged(s, p) \in Stored
         /\ Merged(s, p).refresh = p /\ Merged(s, p).access = p
         /\ Merged(s, p).who = s.who
  BY DEF Merged, Stored

(* The end of a call.                                                       *)
LEMMA OverType ==
  ASSUME TypeOK, NEW c \in Calls, call[c] # None, Over(c)
  PROVE  /\ call' \in [Calls -> Call \cup {None}]
         /\ timer' \in [Tabs -> BOOLEAN]
         /\ \A d \in Calls : d # c => call'[d] = call[d]
         /\ call'[c] # None => call'[c].at = "sent"
<1>1. Sent("first", FALSE, call[c].awaited, storage) \in Call
      /\ Sent("first", FALSE, call[c].awaited, storage).at = "sent"
  BY CallFields, SentType DEF Kinds, TypeOK
<1>2. call' = [call EXCEPT ![c] = IF call[c].kind = "contacts"
                                  THEN Sent("first", FALSE, call[c].awaited, storage) ELSE None]
  BY DEF Over
<1>3. timer' \in [Tabs -> BOOLEAN]
  BY TabAssumption DEF Over, TypeOK, Tab
<1> QED
  BY <1>1, <1>2, <1>3 DEF TypeOK

-----------------------------------------------------------------------------
(* Type correctness                                                         *)

(* Steps that end a call and list something or nothing.                     *)
Ends(c) == Show(c) \/ DeniedAgain(c) \/ NoTokens(c) \/ Refused(c)

LEMMA EndsType ==
  ASSUME TypeOK, NEW c \in Calls, Ends(c)
  PROVE  TypeOK'
<1>1. call[c] # None /\ Over(c)
  BY DEF Ends, Show, DeniedAgain, NoTokens, Refused, Accepted, Denied, At
<1>2. received' \in [Tabs -> Owners \cup {None}]
  <2>1. CASE Show(c)
    <3>1. call[c].with \in Pair
      BY <1>1, <2>1, CallFields DEF Show, Accepted, Valid
    <3>2. OwnerOf[call[c].with.login] \in Owners
      BY <3>1, OwnerAssumption DEF Pair
    <3> QED
      BY <2>1, <3>2, TabAssumption DEF Show, Listed, Tab, TypeOK
  <2>2. CASE DeniedAgain(c)
    BY <2>2, TabAssumption DEF DeniedAgain, Listed, Tab, TypeOK
  <2>3. CASE NoTokens(c) \/ Refused(c)
    BY <2>3 DEF NoTokens, Refused, TypeOK
  <2> QED
    BY <2>1, <2>2, <2>3 DEF Ends
<1>3. UNCHANGED <<storage, screen, signin, server, faults, lost, ended>>
  BY DEF Ends, Show, DeniedAgain, NoTokens, Refused
<1> QED
  BY <1>1, <1>2, <1>3, OverType DEF TypeOK, server

LEMMA RefreshTypes ==
  ASSUME TypeOK, Held, NEW c \in Calls, InRefresh(c)
  PROVE  /\ call[c] \in Call
         /\ call[c].old \in Stored
         /\ call[c].old.refresh \in Pair
         /\ At(c, "rotated") => call[c].new \in Pair
<1>1. call[c] # None /\ call[c].old # None
  BY DEF InRefresh, At, Held
<1>2. At(c, "rotated") => call[c].new # None
  BY DEF Held
<1> QED
  BY <1>1, <1>2, CallFields, Records

LEMMA StartRefreshType ==
  ASSUME TypeOK, NEW c \in Calls, StartRefresh(c)
  PROVE  /\ TypeOK'
         /\ storage # None
         /\ call'[c].old = storage
         /\ call'[c] # None /\ call'[c].at = "refreshing"
         /\ \A d \in Calls : d # c => call'[d] = call[d]
<1>1. PICK k \in Call : k = call[c]
  BY CallFields DEF StartRefresh, Denied, At
<1>2. storage \in Stored
  BY DEF StartRefresh, Snapshot, TypeOK
<1>3. PICK k2 : k2 = [k EXCEPT !.at = "refreshing", !.old = storage]
  OBVIOUS
<1>4. k2 \in Call /\ k2.old = storage /\ k2.at = "refreshing"
  BY <1>2, <1>3 DEF Call, Stages
<1>5. call' = [call EXCEPT ![c] = k2]
  BY <1>1, <1>3 DEF StartRefresh, Snapshot
<1>6. call' \in [Calls -> Call \cup {None}]
  BY <1>4, <1>5 DEF TypeOK
<1>7. TypeOK'
  BY <1>6 DEF StartRefresh, TypeOK, server
<1> QED
  BY <1>2, <1>4, <1>5, <1>7, NoneAssumption DEF TypeOK

LEMMA RotateType ==
  ASSUME TypeOK, Held, NEW c \in Calls, Rotate(c)
  PROVE  /\ TypeOK'
         /\ \E l \in Logins, n \in Nat :
              /\ call[c].old.refresh.login = l /\ call[c].old.refresh.gen = n
              /\ gen[l] = n /\ l \notin gone
              /\ gen' = [gen EXCEPT ![l] = n + 1]
              /\ call'[c].new.login = l /\ call'[c].new.gen = n + 1
         /\ call'[c].new # None /\ call'[c].old = call[c].old
         /\ call'[c] # None /\ call'[c].at = "rotated"
         /\ \A d \in Calls : d # c => call'[d] = call[d]
<1>1. InRefresh(c)
  BY DEF Rotate, InRefresh
<1>2. PICK k \in Call : k = call[c] /\ k.old.refresh \in Pair
  BY <1>1, RefreshTypes
<1>3. PICK l \in Logins, n \in Nat : k.old.refresh.login = l /\ k.old.refresh.gen = n
  BY <1>2 DEF Pair
<1>4. gen[l] = n /\ l \notin gone /\ gen' = [gen EXCEPT ![l] = n + 1]
  BY <1>2, <1>3 DEF Rotate, Refreshable, TypeOK
<1>5. PICK p \in Pair : /\ p = [login |-> l, gen |-> n + 1]
                        /\ p.login = l /\ p.gen = n + 1
  <2>1. n + 1 \in Nat
    OBVIOUS
  <2>2. [login |-> l, gen |-> n + 1] \in Pair
    BY <2>1 DEF Pair
  <2> QED
    BY <2>2
<1>6. PICK k2 : k2 = [k EXCEPT !.at = "rotated", !.new = p]
  OBVIOUS
<1>7. k2 \in Call /\ k2.old = k.old /\ k2.new = p /\ k2.at = "rotated"
  BY <1>5, <1>6 DEF Call, Stages
<1>8. call' = [call EXCEPT ![c] = k2]
  BY <1>2, <1>3, <1>5, <1>6 DEF Rotate
<1>9. call' \in [Calls -> Call \cup {None}]
  BY <1>7, <1>8 DEF TypeOK
<1>10. gen' \in [Logins -> Nat]
  BY <1>4 DEF TypeOK
<1>11. TypeOK'
  BY <1>9, <1>10 DEF Rotate, TypeOK
<1>12. /\ call'[c] = k2
       /\ \A d \in Calls : d # c => call'[d] = call[d]
  BY <1>8 DEF TypeOK
<1> QED
  BY <1>2, <1>3, <1>4, <1>5, <1>7, <1>11, <1>12, NoneAssumption

LEMMA StoreType ==
  ASSUME TypeOK, Held, NEW c \in Calls, StoreTokens(c)
  PROVE  /\ TypeOK'
         /\ storage' \in Stored
         /\ storage'.refresh = call[c].new /\ storage'.access = call[c].new
         /\ storage'.who = call[c].old.who
         /\ call'[c] # None /\ call'[c].at = "sent"
         /\ \A d \in Calls : d # c => call'[d] = call[d]
<1>1. InRefresh(c) /\ At(c, "rotated") /\ call[c] # None
  BY DEF StoreTokens, InRefresh, At
<1>2. call[c].old \in Stored /\ call[c].new \in Pair /\ call[c].kind \in Kinds
      /\ call[c].awaited \in BOOLEAN
  BY <1>1, RefreshTypes, CallFields
<1>3. PICK s \in Stored : /\ s = Merged(call[c].old, call[c].new)
                          /\ s.refresh = call[c].new /\ s.access = call[c].new
                          /\ s.who = call[c].old.who
  BY <1>2, MergedType
<1>4. PICK k \in Call : /\ k = Sent(call[c].kind, TRUE, call[c].awaited, s)
                        /\ k # None /\ k.at = "sent"
  BY <1>2, SentType
<1>5. storage' = s /\ call' = [call EXCEPT ![c] = k]
  BY <1>3, <1>4 DEF StoreTokens
<1>6. call' \in [Calls -> Call \cup {None}]
  BY <1>5 DEF TypeOK
<1>7. TypeOK'
  BY <1>5, <1>6 DEF StoreTokens, TypeOK, server
<1> QED
  BY <1>3, <1>4, <1>5, <1>7 DEF TypeOK

LEMMA SignedInType ==
  ASSUME TypeOK, NEW t \in Tabs, NEW c \in Calls, SignedIn(t, c)
  PROVE  /\ TypeOK'
         /\ signin[t] \in Logins
         /\ storage' = OfLogin(signin[t])
         /\ call'[c] # None /\ call'[c].at = "sent"
         /\ \A d \in Calls : d # c => call'[d] = call[d]
<1>1. PICK l \in Logins : signin[t] = l
  BY DEF SignedIn, TypeOK
<1>2. OfLogin(l) \in Stored /\ OwnerOf[l] \in Owners
  BY FirstType, OwnerAssumption
<1>3. PICK k \in Call : /\ k = Sent("contacts", FALSE, TRUE, OfLogin(l))
                        /\ k # None /\ k.at = "sent"
  BY <1>2, SentType DEF Kinds
<1>4. storage' = OfLogin(l) /\ call' = [call EXCEPT ![c] = k]
      /\ screen' = [screen EXCEPT ![t] = OwnerOf[l]]
      /\ signin' = [signin EXCEPT ![t] = None]
  BY <1>1, <1>3 DEF SignedIn
<1>5. call' \in [Calls -> Call \cup {None}]
  BY <1>4 DEF TypeOK
<1>6. TypeOK'
  BY <1>2, <1>4, <1>5 DEF SignedIn, TypeOK, server
<1> QED
  BY <1>1, <1>3, <1>4, <1>6 DEF TypeOK

LEMMA PollType ==
  ASSUME TypeOK, NEW c \in Calls, Poll(c)
  PROVE  /\ TypeOK'
         /\ call'[c].at = "sent"
         /\ \A d \in Calls : d # c => call'[d] = call[d]
<1>1. PICK k \in Call : k = Sent("poll", FALSE, FALSE, storage) /\ k.at = "sent"
  BY SentType DEF Kinds, TypeOK
<1>2. call' = [call EXCEPT ![c] = k]
  BY <1>1 DEF Poll
<1> QED
  BY <1>1, <1>2 DEF Poll, TypeOK, server

LEMMA ReloadType ==
  ASSUME TypeOK, NEW t \in Tabs, Reload(t)
  PROVE  /\ TypeOK'
         /\ \A c \in Calls : call'[c] = call[c] \/ call'[c] = None \/ call'[c].at = "sent"
<1>1. PICK b \in Calls :
        call' = [c \in Calls |-> IF Tab(c) # t THEN call[c]
                                 ELSE IF c = b /\ storage # None
                                      THEN Sent("contacts", FALSE, FALSE, storage)
                                      ELSE None]
  BY DEF Reload
<1>2. PICK k \in Call : k = Sent("contacts", FALSE, FALSE, storage) /\ k.at = "sent"
  BY SentType DEF Kinds, TypeOK
<1>3. /\ call' \in [Calls -> Call \cup {None}]
      /\ \A c \in Calls : call'[c] = call[c] \/ call'[c] = None \/ call'[c] = k
  BY <1>1, <1>2 DEF TypeOK
<1>4. storage # None => storage.who \in Owners
  BY Records DEF TypeOK
<1>5. faults' \in 0 .. MaxFaults
  BY BoundAssumption DEF Reload, Fault, TypeOK
<1>6. lost' \in SUBSET Logins
  BY DEF Reload, UnderWay, TypeOK
<1>7. screen' \in [Tabs -> Owners \cup {None}]
  BY <1>4 DEF Reload, TypeOK
<1> QED
  BY <1>2, <1>3, <1>5, <1>6, <1>7 DEF Reload, TypeOK, server

LEMMA TypeStep ==
  ASSUME TypeOK, Held, [Next]_vars
  PROVE  TypeOK'
<1>1. ASSUME NEW c \in Calls, Poll(c) \/ Advance(c)
      PROVE  TypeOK'
  BY <1>1, PollType, EndsType, StartRefreshType, RotateType, StoreType DEF Advance, Ends
<1>2. ASSUME NEW c \in Calls, Break(c), UNCHANGED server
      PROVE  TypeOK'
  <2>1. call[c] # None /\ Over(c)
    BY <1>2 DEF Break
  <2>2. faults' \in 0 .. MaxFaults
    BY <1>2, BoundAssumption DEF Break, Fault, TypeOK
  <2>3. lost' \in SUBSET Logins
    BY <1>2 DEF Break, UnderWay, TypeOK
  <2> QED
    BY <1>2, <2>1, <2>2, <2>3, OverType DEF Break, TypeOK, server
<1>3. ASSUME NEW t \in Tabs, NEW l \in Logins, SignIn(t, l)
      PROVE  TypeOK'
  BY <1>3 DEF SignIn, TypeOK
<1>4. ASSUME NEW t \in Tabs, NEW c \in Calls, SignedIn(t, c)
      PROVE  TypeOK'
  BY <1>4, SignedInType
<1>5. ASSUME NEW t \in Tabs, SignInBreaks(t)
      PROVE  TypeOK'
  <2>1. faults' \in 0 .. MaxFaults
    BY <1>5, BoundAssumption DEF SignInBreaks, Fault, TypeOK
  <2> QED
    BY <1>5, <2>1 DEF SignInBreaks, TypeOK, server
<1>6. ASSUME NEW t \in Tabs, Logout(t)
      PROVE  TypeOK'
  <2>1. ended' \in SUBSET Logins
    BY <1>6, Records DEF Logout, TypeOK
  <2> QED
    BY <1>6, <2>1 DEF Logout, TypeOK, server
<1>7. ASSUME NEW t \in Tabs, Reload(t)
      PROVE  TypeOK'
  BY <1>7, ReloadType
<1>8. ASSUME NEW l \in Logins, Expire(l)
      PROVE  TypeOK'
  <2>1. expiries' \in 0 .. MaxExpiries
    BY <1>8, BoundAssumption DEF Expire, TypeOK
  <2> QED
    BY <1>8, <2>1 DEF Expire, TypeOK, browser
<1>9. ASSUME NEW l \in Logins, Forget(l)
      PROVE  TypeOK'
  <2>1. faults' \in 0 .. MaxFaults
    BY <1>9, BoundAssumption DEF Forget, Fault, TypeOK
  <2> QED
    BY <1>9, <2>1 DEF Forget, TypeOK, browser
<1>10. CASE UNCHANGED vars
  BY <1>10 DEF vars, TypeOK
<1> QED
  BY <1>1, <1>2, <1>3, <1>4, <1>5, <1>6, <1>7, <1>8, <1>9, <1>10 DEF Next

-----------------------------------------------------------------------------
(* What a step does to the pairs that are held                              *)

(* Nothing new is held, and what is not held any more by a call that was to  *)
(* receive it is lost.                                                      *)
Drops ==
  /\ storage' = storage
  /\ gen' = gen
  /\ ended' = ended
  /\ \A c \in Calls : call'[c] = call[c] \/ call'[c] = None \/ call'[c].at = "sent"
  /\ \A t \in Tabs : signin'[t] = signin[t] \/ signin'[t] = None
  /\ \A l \in Logins : l \in lost \cup UnderWay(Calls) => l \in lost' \cup UnderWay(Calls)'

LEMMA StepKinds ==
  ASSUME TypeOK, Held, [Next]_vars
  PROVE  \/ Drops
         \/ \E c \in Calls : StartRefresh(c) \/ Rotate(c) \/ StoreTokens(c)
         \/ \E t \in Tabs, l \in Logins : SignIn(t, l)
         \/ \E t \in Tabs, c \in Calls : SignedIn(t, c)
         \/ \E t \in Tabs : Logout(t)
(* A call that was to receive a pair and stays keeps the login under way.    *)
<1>1. ASSUME NEW C, C \subseteq Calls,
             lost' = lost \cup UnderWay(C),
             \A c \in Calls \ C : call'[c] = call[c]
      PROVE  \A l \in Logins :
               l \in lost \cup UnderWay(Calls) => l \in lost' \cup UnderWay(Calls)'
  BY <1>1 DEF UnderWay, At
<1>2. ASSUME lost' = lost,
             \A c \in Calls : call'[c] = call[c] \/ ~At(c, "rotated")
      PROVE  \A l \in Logins :
               l \in lost \cup UnderWay(Calls) => l \in lost' \cup UnderWay(Calls)'
  BY <1>2 DEF UnderWay, At
<1>3. ASSUME NEW c \in Calls, Poll(c)
      PROVE  Drops
  BY <1>2, <1>3, PollType DEF Poll, Drops, server, At
<1>4. ASSUME NEW c \in Calls, Ends(c)
      PROVE  Drops
  <2>1. call[c] # None /\ Over(c) /\ ~At(c, "rotated")
    BY <1>4 DEF Ends, Show, DeniedAgain, NoTokens, Refused, Accepted, Denied, At
  <2>2. UNCHANGED <<storage, signin, server, lost, ended>>
    BY <1>4 DEF Ends, Show, DeniedAgain, NoTokens, Refused
  <2> QED
    BY <1>2, <2>1, <2>2, OverType DEF Drops, server
<1>5. ASSUME NEW c \in Calls, Break(c), UNCHANGED server
      PROVE  Drops
  <2>1. call[c] # None /\ Over(c) /\ lost' = lost \cup UnderWay({c})
    BY <1>5 DEF Break
  <2>2. \A l \in Logins :
          l \in lost \cup UnderWay(Calls) => l \in lost' \cup UnderWay(Calls)'
    BY <1>1, <2>1, OverType
  <2> QED
    BY <1>5, <2>1, <2>2, OverType DEF Break, Drops, server
<1>6. ASSUME NEW t \in Tabs, SignInBreaks(t)
      PROVE  Drops
  BY <1>2, <1>6 DEF SignInBreaks, Drops, server, TypeOK
<1>7. ASSUME NEW t \in Tabs, Reload(t)
      PROVE  Drops
  <2>1. PICK C : C = {c \in Calls : Tab(c) = t}
    OBVIOUS
  <2>2. \A c \in Calls \ C : call'[c] = call[c]
    BY <1>7, <2>1 DEF Reload
  <2>3. lost' = lost \cup UnderWay(C)
    BY <1>7, <2>1 DEF Reload
  <2>4. \A l \in Logins :
          l \in lost \cup UnderWay(Calls) => l \in lost' \cup UnderWay(Calls)'
    BY <1>1, <2>1, <2>2, <2>3
  <2> QED
    BY <1>7, <2>4, ReloadType DEF Reload, Drops, server, TypeOK
<1>8. ASSUME NEW l \in Logins, Expire(l) \/ Forget(l)
      PROVE  Drops
  BY <1>2, <1>8 DEF Expire, Forget, Drops, browser
<1>9. CASE UNCHANGED vars
  BY <1>2, <1>9 DEF vars, Drops
<1> QED
  BY <1>3, <1>4, <1>5, <1>6, <1>7, <1>8, <1>9 DEF Next, Advance, Ends

Safe == /\ Held
        /\ OneReceiver
        /\ Awaited
        /\ EndedUnheld
        /\ SessionNotLostInRaces
        /\ QuietLogoutIsFinal

-----------------------------------------------------------------------------
(* The invariant, kind of step by kind of step                              *)

LEMMA DropsStep ==
  ASSUME TypeOK, Safe, Drops
  PROVE  Safe'
<1>1. ASSUME NEW c \in Calls
      PROVE  /\ At(c, "rotated")' => At(c, "rotated") /\ call'[c] = call[c]
             /\ At(c, "refreshing")' => At(c, "refreshing") /\ call'[c] = call[c]
  BY DEF Drops, At
<1>2. Refreshing' \subseteq Refreshing
  BY <1>1 DEF Refreshing
<1>3. Held'
  BY <1>1 DEF Safe, Held, InRefresh, Drops, Issued, OneLogin
<1>4. OneReceiver'
  BY <1>1 DEF Safe, OneReceiver, Drops
<1>5. Awaited'
  <2>1. \A t \in Tabs, l \in Logins : signin'[t] = l => signin[t] = l
    BY NoneAssumption DEF Drops
  <2> QED
    BY <1>2, <2>1 DEF Safe, Awaited, Drops
<1>6. EndedUnheld'
  <2>1. \A t \in Tabs, l \in Logins : signin'[t] = l => signin[t] = l
    BY NoneAssumption DEF Drops
  <2> QED
    BY <1>2, <2>1 DEF Safe, EndedUnheld, Drops, TypeOK
<1>7. SessionNotLostInRaces'
  BY Records DEF Safe, SessionNotLostInRaces, Drops, TypeOK
<1>8. QuietLogoutIsFinal'
  BY DEF Safe, QuietLogoutIsFinal, Drops
<1> QED
  BY <1>3, <1>4, <1>5, <1>6, <1>7, <1>8 DEF Safe

LEMMA StartRefreshStep ==
  ASSUME TypeOK, Safe, NEW c \in Calls, StartRefresh(c)
  PROVE  Safe'
<1>1. PICK s \in Stored, l \in Logins, n \in Nat :
        storage = s /\ s.refresh.login = l /\ s.refresh.gen = n /\ s # None
  BY StartRefreshType, Records DEF TypeOK
<1>2. UNCHANGED <<storage, signin, gen, lost, ended>>
  BY DEF StartRefresh, server
<1>3. call'[c].old = s /\ call'[c] # None /\ call'[c].at = "refreshing"
  BY <1>1, StartRefreshType
<1>4. ASSUME NEW d \in Calls, d # c
      PROVE  /\ call'[d] = call[d]
             /\ At(d, "rotated")' <=> At(d, "rotated")
             /\ At(d, "refreshing")' <=> At(d, "refreshing")
  BY <1>4, StartRefreshType DEF At
<1>5. ~At(c, "rotated")' /\ At(c, "refreshing")' /\ ~At(c, "rotated")
  BY <1>3 DEF At, StartRefresh, Denied
<1>6. Refreshing' \subseteq Refreshing \cup {l}
  BY <1>1, <1>3, <1>4 DEF Refreshing
<1>7. UnderWay(Calls)' = UnderWay(Calls)
  BY <1>4, <1>5 DEF UnderWay
<1>8. Held'
  BY <1>1, <1>2, <1>3, <1>4, <1>5 DEF Safe, Held, InRefresh, Issued, OneLogin
<1>9. OneReceiver'
  BY <1>1, <1>2, <1>3, <1>4, <1>5 DEF Safe, OneReceiver
<1>10. Awaited'
  BY <1>1, <1>2, <1>6 DEF Safe, Awaited
<1>11. EndedUnheld'
  BY <1>1, <1>2, <1>6 DEF Safe, EndedUnheld, QuietLogoutIsFinal
<1>12. SessionNotLostInRaces'
  BY <1>2, <1>7 DEF Safe, SessionNotLostInRaces
<1>13. QuietLogoutIsFinal'
  BY <1>2 DEF Safe, QuietLogoutIsFinal
<1> QED
  BY <1>8, <1>9, <1>10, <1>11, <1>12, <1>13 DEF Safe

LEMMA RotateStep ==
  ASSUME TypeOK, Safe, NEW c \in Calls, Rotate(c)
  PROVE  Safe'
<1>1. PICK l \in Logins, n \in Nat :
        /\ call[c].old.refresh.login = l /\ call[c].old.refresh.gen = n
        /\ gen[l] = n
        /\ gen' = [gen EXCEPT ![l] = n + 1]
        /\ call'[c].new.login = l /\ call'[c].new.gen = n + 1
  BY RotateType DEF Safe
<1>2. UNCHANGED <<storage, signin, lost, ended>>
  BY DEF Rotate
<1>3. /\ call'[c].new # None /\ call'[c].old = call[c].old
      /\ call'[c] # None /\ call'[c].at = "rotated"
  BY RotateType DEF Safe
<1>4. ASSUME NEW d \in Calls, d # c
      PROVE  /\ call'[d] = call[d]
             /\ At(d, "rotated")' <=> At(d, "rotated")
             /\ At(d, "refreshing")' <=> At(d, "refreshing")
  BY <1>4, RotateType DEF At, Safe
<1>5. At(c, "rotated")' /\ ~At(c, "refreshing")' /\ At(c, "refreshing") /\ ~At(c, "rotated")
  BY <1>3 DEF At, Rotate
<1>6. \A m \in Logins : gen'[m] = IF m = l THEN n + 1 ELSE gen[m]
  BY <1>1 DEF TypeOK
<1>7. Refreshing' \subseteq Refreshing
  BY <1>3, <1>4, <1>5 DEF Refreshing
<1>8. UnderWay(Calls)' = UnderWay(Calls) \cup {l}
  BY <1>1, <1>4, <1>5 DEF UnderWay
(* Nobody else receives a pair of l: the pair of c would be spent.          *)
<1>9. \A d \in Calls : At(d, "rotated") => call[d].new.login # l
  BY <1>1, <1>5 DEF Safe, OneReceiver
<1>10. ASSUME NEW p \in Pair, Issued(p)
       PROVE  Issued(p)' /\ (p.login = l => p.gen # gen'[l])
  BY <1>1, <1>6, <1>10 DEF Issued, Pair, TypeOK
<1>11. Held'
  <2>1. storage # None => storage' = storage /\ OneLogin(storage)' /\ Issued(storage.refresh)'
    BY <1>2, <1>10, Records DEF Safe, Held, OneLogin, TypeOK
  <2>2. ASSUME NEW d \in Calls, InRefresh(d)'
        PROVE  call'[d].old # None /\ OneLogin(call'[d].old) /\ Issued(call[d].old.refresh)'
    <3>1. InRefresh(d) /\ call'[d].old = call[d].old
      BY <1>3, <1>4, <1>5, <2>2 DEF InRefresh
    <3> QED
      BY <1>10, <3>1, RefreshTypes DEF Safe, Held
  <2>3. ASSUME NEW d \in Calls, At(d, "rotated")'
        PROVE  /\ call'[d].new # None
               /\ call'[d].new.login = call'[d].old.refresh.login
               /\ call'[d].new.gen = gen'[call'[d].new.login]
    <3>1. CASE d = c
      BY <1>1, <1>3, <1>6, <3>1
    <3>2. CASE d # c
      <4>1. At(d, "rotated") /\ call'[d] = call[d]
        BY <1>4, <2>3, <3>2
      <4>2. call[d].new \in Pair
        BY <4>1, RefreshTypes DEF InRefresh, Safe
      <4> QED
        BY <1>6, <1>9, <4>1, <4>2 DEF Safe, Held, Pair
    <3> QED
      BY <3>1, <3>2
  <2> QED
    BY <1>2, <2>1, <2>2, <2>3 DEF Held, OneLogin, Issued
<1>12. OneReceiver'
  <2>1. storage # None /\ storage.refresh.login = l => storage.refresh.gen # gen'[l]
    BY <1>10, Records DEF Safe, Held, TypeOK
  <2>2. ASSUME NEW d \in Calls, At(d, "refreshing"), call[d].old.refresh.login = l
        PROVE  call[d].old.refresh.gen # gen'[l]
    BY <1>10, <2>2, RefreshTypes DEF Safe, Held, InRefresh
  <2>3. \A m \in Logins : m # l => gen'[m] = gen[m]
    BY <1>6
  <2> QED
    BY <1>1, <1>2, <1>4, <1>5, <1>9, <2>1, <2>2, <2>3 DEF Safe, OneReceiver
<1>13. Awaited'
  <2>1. l \in Refreshing
    BY <1>1, <1>5 DEF Refreshing
  <2> QED
    BY <1>2, <1>6, <1>7, <2>1 DEF Safe, Awaited
<1>14. EndedUnheld'
  BY <1>2, <1>6, <1>7 DEF Safe, EndedUnheld, TypeOK
<1>15. SessionNotLostInRaces'
  BY <1>2, <1>6, <1>8, Records DEF Safe, SessionNotLostInRaces, TypeOK
<1>16. QuietLogoutIsFinal'
  BY <1>2 DEF Safe, QuietLogoutIsFinal
<1> QED
  BY <1>11, <1>12, <1>13, <1>14, <1>15, <1>16 DEF Safe

LEMMA StoreStep ==
  ASSUME TypeOK, Safe, NEW c \in Calls, StoreTokens(c)
  PROVE  Safe'
<1>1. At(c, "rotated") /\ InRefresh(c)
  BY DEF StoreTokens, InRefresh
<1>2. PICK p \in Pair, l \in Logins, n \in Nat :
        call[c].new = p /\ p.login = l /\ p.gen = n
  BY <1>1, RefreshTypes DEF Safe, Pair
<1>3. /\ storage' # None /\ storage'.refresh = p /\ storage'.access = p
      /\ storage'.who = call[c].old.who
  BY <1>2, StoreType, Records DEF Safe
<1>4. gen[l] = n /\ call[c].old.refresh.login = l /\ call[c].old.who = OwnerOf[l]
  BY <1>1, <1>2 DEF Safe, Held, OneLogin
<1>5. n # 0
  <2>1. call[c].old.refresh.gen \in Nat
    BY <1>1, RefreshTypes DEF Pair, Safe
  <2>2. call[c].old.refresh.gen # 0 /\ call[c].old.refresh.gen <= gen[l]
    BY <1>1, <1>4 DEF Safe, Held, Issued
  <2> QED
    BY <1>4, <2>1, <2>2
<1>6. UNCHANGED <<signin, gen, lost, ended>>
  BY DEF StoreTokens, server
<1>7. call'[c] # None /\ call'[c].at = "sent"
  BY StoreType DEF Safe
<1>8. ASSUME NEW d \in Calls, d # c
      PROVE  /\ call'[d] = call[d]
             /\ At(d, "rotated")' <=> At(d, "rotated")
             /\ At(d, "refreshing")' <=> At(d, "refreshing")
  BY <1>8, StoreType DEF At, Safe
<1>9. ~At(c, "rotated")' /\ ~At(c, "refreshing")'
  BY <1>7 DEF At
<1>10. Refreshing' \subseteq Refreshing
  BY <1>8, <1>9 DEF Refreshing
<1>11. l \in Refreshing
  BY <1>1, <1>4 DEF Refreshing
<1>12. Held'
  BY <1>2, <1>3, <1>4, <1>5, <1>6, <1>8, <1>9 DEF Safe, Held, InRefresh, OneLogin, Issued
<1>13. OneReceiver'
  <2>1. \A d \in Calls : At(d, "rotated")' => d # c /\ call[d].new.login # l
    BY <1>1, <1>2, <1>8, <1>9 DEF Safe, OneReceiver
  <2> QED
    BY <1>2, <1>3, <1>6, <1>8, <1>9, <2>1 DEF Safe, OneReceiver
<1>14. Awaited'
  <2>1. \A t \in Tabs : signin[t] # l
    BY <1>11 DEF Safe, Awaited
  <2> QED
    BY <1>2, <1>3, <1>6, <1>10, <2>1 DEF Safe, Awaited
<1>15. EndedUnheld'
  BY <1>6, <1>10 DEF Safe, EndedUnheld
<1>16. SessionNotLostInRaces'
  BY <1>2, <1>3, <1>4, <1>6 DEF SessionNotLostInRaces
<1>17. QuietLogoutIsFinal'
  BY <1>2, <1>3, <1>6, <1>11 DEF Safe, EndedUnheld, QuietLogoutIsFinal
<1> QED
  BY <1>12, <1>13, <1>14, <1>15, <1>16, <1>17 DEF Safe

LEMMA SignInStep ==
  ASSUME TypeOK, Safe, NEW t \in Tabs, NEW l \in Logins, SignIn(t, l)
  PROVE  Safe'
<1>1. /\ UNCHANGED <<storage, call, lost, ended>>
      /\ gen[l] = 0 /\ gen' = [gen EXCEPT ![l] = 1]
      /\ signin' = [signin EXCEPT ![t] = l]
  BY DEF SignIn
<1>2. \A m \in Logins : gen'[m] = IF m = l THEN 1 ELSE gen[m]
  BY <1>1 DEF TypeOK
<1>3. \A u \in Tabs : signin'[u] = IF u = t THEN l ELSE signin[u]
  BY <1>1 DEF TypeOK
(* Nobody holds a pair of a login that did not exist.                       *)
<1>4. \A p \in Pair : Issued(p) => p.login # l
  BY <1>1 DEF Issued, Pair, TypeOK
<1>5. storage # None => storage.refresh.login # l
  BY <1>4, Records DEF Safe, Held, TypeOK
<1>6. \A c \in Calls : InRefresh(c) => call[c].old.refresh.login # l
  BY <1>4, RefreshTypes DEF Safe, Held
<1>7. \A u \in Tabs : signin[u] # l
  BY <1>1 DEF Safe, Awaited
<1>8. \A c \in Calls : At(c, "rotated") => call[c].new.login # l
  BY <1>6 DEF Safe, Held, InRefresh
<1>9. l \notin Refreshing /\ Refreshing' = Refreshing
  BY <1>1, <1>6 DEF Refreshing, InRefresh, At
<1>10. Held'
  <2>1. ASSUME NEW p \in Pair, Issued(p)
        PROVE  Issued(p)'
    BY <1>2, <1>4, <2>1 DEF Issued, Pair
  <2>2. storage # None => Issued(storage.refresh)'
    BY <1>1, <2>1, Records DEF Safe, Held, TypeOK
  <2>3. ASSUME NEW c \in Calls, InRefresh(c)
        PROVE  Issued(call[c].old.refresh)'
    <3>1. PICK p \in Pair : p = call[c].old.refresh /\ Issued(p)
      BY <2>3, RefreshTypes DEF Safe, Held
    <3> QED
      BY <1>1, <2>1, <3>1
  <2>4. ASSUME NEW c \in Calls, At(c, "rotated")
        PROVE  call[c].new.gen = gen'[call[c].new.login]
    <3>1. call[c].new \in Pair
      BY <2>4, RefreshTypes DEF InRefresh, Safe
    <3> QED
      BY <1>2, <1>8, <2>4, <3>1 DEF Safe, Held, Pair
  <2> QED
    BY <1>1, <2>2, <2>3, <2>4 DEF Safe, Held, InRefresh, At, OneLogin
<1>11. OneReceiver'
  BY <1>1, <1>2, <1>8 DEF Safe, OneReceiver, At
<1>12. Awaited'
  BY <1>1, <1>2, <1>3, <1>5, <1>7, <1>9 DEF Safe, Awaited
<1>13. EndedUnheld'
  BY <1>1, <1>2, <1>3, <1>9 DEF Safe, EndedUnheld, TypeOK
<1>14. SessionNotLostInRaces'
  BY <1>1, <1>2, <1>5, Records DEF Safe, SessionNotLostInRaces, UnderWay, At, TypeOK
<1>15. QuietLogoutIsFinal'
  BY <1>1 DEF Safe, QuietLogoutIsFinal
<1> QED
  BY <1>10, <1>11, <1>12, <1>13, <1>14, <1>15 DEF Safe

LEMMA SignedInStep ==
  ASSUME TypeOK, Safe, NEW t \in Tabs, NEW c \in Calls, SignedIn(t, c)
  PROVE  Safe'
<1>1. PICK l \in Logins : signin[t] = l
  BY SignedInType
<1>2. PICK s \in Stored : /\ s = OfLogin(l) /\ s # None
                          /\ s.refresh = First(l) /\ s.access = First(l)
                          /\ s.who = OwnerOf[l]
                          /\ s.refresh.login = l /\ s.refresh.gen = 1
  BY FirstType, Records
<1>3. storage' = s /\ UNCHANGED <<gen, lost, ended>>
      /\ signin' = [signin EXCEPT ![t] = None]
  BY <1>1, <1>2 DEF SignedIn, server
<1>4. \A u \in Tabs, m \in Logins : signin'[u] = m => signin[u] = m /\ u # t
  BY <1>3, NoneAssumption DEF TypeOK
<1>5. call'[c].at = "sent" /\ call[c] = None
  BY SignedInType DEF SignedIn
<1>6. ASSUME NEW d \in Calls
      PROVE  /\ At(d, "rotated")' => At(d, "rotated") /\ call'[d] = call[d]
             /\ At(d, "refreshing")' => At(d, "refreshing") /\ call'[d] = call[d]
  BY <1>5, SignedInType DEF At
<1>7. gen[l] = 1 /\ l \notin Refreshing /\ (\A u \in Tabs : signin[u] = l => u = t)
  BY <1>1 DEF Safe, Awaited
<1>8. \A d \in Calls : InRefresh(d) => call[d].old.refresh.login # l
  BY <1>7 DEF Refreshing, InRefresh
<1>9. \A d \in Calls : At(d, "rotated") => call[d].new.login # l
  BY <1>8 DEF Safe, Held, InRefresh
<1>10. Refreshing' \subseteq Refreshing
  BY <1>6 DEF Refreshing
<1>11. Held'
  BY <1>2, <1>3, <1>6, <1>7 DEF Safe, Held, InRefresh, OneLogin, Issued
<1>12. OneReceiver'
  BY <1>2, <1>3, <1>6, <1>9 DEF Safe, OneReceiver
<1>13. Awaited'
  BY <1>2, <1>3, <1>4, <1>7, <1>10 DEF Safe, Awaited
<1>14. EndedUnheld'
  BY <1>3, <1>4, <1>10 DEF Safe, EndedUnheld, TypeOK
<1>15. SessionNotLostInRaces'
  BY <1>2, <1>3, <1>7 DEF SessionNotLostInRaces
<1>16. QuietLogoutIsFinal'
  BY <1>1, <1>2, <1>3 DEF Safe, EndedUnheld, QuietLogoutIsFinal
<1> QED
  BY <1>11, <1>12, <1>13, <1>14, <1>15, <1>16 DEF Safe

LEMMA LogoutStep ==
  ASSUME TypeOK, Safe, NEW t \in Tabs, Logout(t)
  PROVE  Safe'
<1>1. /\ storage' = None
      /\ UNCHANGED <<signin, call, gen, lost>>
      /\ ended' = ended \cup (IF storage = None THEN {}
                              ELSE {storage.refresh.login} \ Refreshing)
  BY DEF Logout, server
<1>2. Refreshing' = Refreshing
  BY <1>1 DEF Refreshing, At
<1>3. Held'
  BY <1>1 DEF Safe, Held, InRefresh, At, OneLogin, Issued
<1>4. OneReceiver'
  BY <1>1 DEF Safe, OneReceiver, At
<1>5. Awaited'
  BY <1>1, <1>2 DEF Safe, Awaited
<1>6. EndedUnheld'
  <2>1. ASSUME storage # None
        PROVE  LET l == storage.refresh.login IN
                 /\ gen[l] # 0
                 /\ \A u \in Tabs : signin[u] # l
    <3>1. storage.refresh \in Pair
      BY <2>1, Records DEF TypeOK
    <3>2. gen[storage.refresh.login] # 0
      BY <2>1, <3>1 DEF Safe, Held, Issued, Pair, TypeOK
    <3>3. \A u \in Tabs : signin[u] # storage.refresh.login
      BY <2>1, <3>1 DEF Safe, Awaited, Pair
    <3> QED
      BY <3>2, <3>3
  <2> QED
    BY <1>1, <1>2, <2>1 DEF Safe, EndedUnheld
<1>7. SessionNotLostInRaces' /\ QuietLogoutIsFinal'
  BY <1>1 DEF SessionNotLostInRaces, QuietLogoutIsFinal
<1> QED
  BY <1>3, <1>4, <1>5, <1>6, <1>7 DEF Safe

-----------------------------------------------------------------------------
THEOREM Inductive == Spec => []IInv
<1>1. Init => IInv
  <2>1. Init => TypeOK
    BY BoundAssumption DEF Init, TypeOK
  <2>2. Init => Safe
    BY NoneAssumption
       DEF Init, Safe, Held, OneReceiver, Awaited, EndedUnheld, SessionNotLostInRaces,
           QuietLogoutIsFinal, InRefresh, At
  <2> QED
    BY <2>1, <2>2 DEF IInv, Safe
<1>2. IInv /\ [Next]_vars => IInv'
  <2> SUFFICES ASSUME TypeOK, Safe, [Next]_vars
               PROVE  TypeOK' /\ Safe'
    BY DEF IInv, Safe
  <2>1. TypeOK'
    BY TypeStep DEF Safe
  <2>2. Safe'
    BY StepKinds, DropsStep, StartRefreshStep, RotateStep, StoreStep, SignInStep,
       SignedInStep, LogoutStep
       DEF Safe
  <2> QED
    BY <2>1, <2>2
<1> QED
  BY <1>1, <1>2, PTL DEF Spec

(* Every reachable state is well typed.                                     *)
THEOREM TypeCorrect == Spec => []TypeOK
<1>1. IInv => TypeOK
  BY DEF IInv
<1> QED
  BY <1>1, Inductive, PTL

(* The stored account and both stored tokens are of one login, whoever       *)
(* signed in or refreshed meanwhile (refreshTokens).                        *)
THEOREM OneLoginStored == Spec => []StoredIsOneLogin
<1>1. IInv => StoredIsOneLogin
  BY DEF IInv, Held, OneLogin, StoredIsOneLogin
<1> QED
  BY <1>1, Inductive, PTL

(* No race of calls and tabs leaves a spent refresh token in the storage.    *)
THEOREM RacesKeepSession == Spec => []SessionNotLostInRaces
<1>1. IInv => SessionNotLostInRaces
  BY DEF IInv
<1> QED
  BY <1>1, Inductive, PTL

(* Tokens of a login that was logged out while nobody refreshed them are     *)
(* never stored again (logout, refreshTokens).                              *)
THEOREM LogoutIsFinal == Spec => []QuietLogoutIsFinal
<1>1. IInv => QuietLogoutIsFinal
  BY DEF IInv
<1> QED
  BY <1>1, Inductive, PTL
=============================================================================
