----------------------------- MODULE WebSession -----------------------------
(***************************************************************************)
(* The session of the web client (frontend/static/index.html): tabs of one  *)
(* browser that share localStorage, each with calls of the API under way,   *)
(* and the server that rotates their refresh token (AuthService; here no    *)
(* more of it than a client meets).                                        *)
(*                                                                         *)
(* JavaScript runs a tab's code from one await to the next without          *)
(* interruption, so the code between two awaits is one action; while a tab  *)
(* waits anything may happen: the user logs out and in as somebody else,    *)
(* other calls end, other tabs write the storage.                          *)
(*                                                                         *)
(* The nth pair of tokens of a login is [login |-> l, gen |-> n]: a rotation *)
(* spends the refresh token of the nth pair and makes the next pair.        *)
(***************************************************************************)
EXTENDS Naturals

CONSTANTS
  Owners,     \* accounts of the wallet, each on a chain
  Logins,     \* supply of logins: bounds how often somebody signs in
  OwnerOf,    \* the account each login is of, if it comes to be
  Tabs,
  Calls,      \* places for calls under way
  TabOf,      \* the tab each place belongs to
  MaxExpiries, \* bound on the times access tokens expire
  MaxFaults,  \* bound on lost messages, reloads and forgotten sessions
  None

Pair == [login : Logins, gen : Nat]
Stored == [who : Owners, access : Pair, refresh : Pair]
(* loadContacts and the first loadReceived after a sign-in or a reload, in   *)
(* this order; any later loadReceived.                                      *)
Kinds == {"contacts", "first", "poll"}
(* sent: the request or its answer is under way; refreshing: in              *)
(* refreshTokens; rotated: the new pair is under way to it.                 *)
Stages == {"sent", "refreshing", "rotated"}
(* awaited: siweLogin waits for the call, and with it the login button.      *)
Call == [kind : Kinds, at : Stages, again : BOOLEAN, awaited : BOOLEAN,
         with : Pair \cup {None}, old : Stored \cup {None}, new : Pair \cup {None}]

ASSUME TabAssumption == TabOf \in [Calls -> Tabs]
ASSUME OwnerAssumption == OwnerOf \in [Logins -> Owners]
ASSUME BoundAssumption == MaxExpiries \in Nat /\ MaxFaults \in Nat
ASSUME NoneAssumption == /\ None \notin Owners
                         /\ None \notin Logins
                         /\ None \notin Pair
                         /\ None \notin Stored
                         /\ None \notin Call

VARIABLES
  storage,   \* localStorage.tokens
  screen,    \* per tab, the account it shows in the app; None: the login page
  received,  \* per tab, whose documents are listed; None: nobody's
  timer,     \* per tab, nftPollTimer
  signin,    \* per tab, a login whose answer is under way to siweLogin
  call,      \* per place, the call under way
  (* The server.                                                           *)
  gen,       \* per login, its latest pair, 0 before the login
  stale,     \* per login, how many of its pairs have an expired access token
  gone,      \* logins whose session the server does not have any more
  expiries,
  faults,
  (* History.                                                              *)
  lost,      \* logins whose latest pair got lost on its way
  ended      \* logins that were logged out while nobody refreshed them

browser == <<storage, screen, received, timer, signin, call>>
server == <<gen, stale, gone, expiries>>
vars == <<storage, screen, received, timer, signin, call,
          gen, stale, gone, expiries, faults, lost, ended>>

TypeOK ==
  /\ storage \in Stored \cup {None}
  /\ screen \in [Tabs -> Owners \cup {None}]
  /\ received \in [Tabs -> Owners \cup {None}]
  /\ timer \in [Tabs -> BOOLEAN]
  /\ signin \in [Tabs -> Logins \cup {None}]
  /\ call \in [Calls -> Call \cup {None}]
  /\ gen \in [Logins -> Nat]
  /\ stale \in [Logins -> Nat]
  /\ gone \in SUBSET Logins
  /\ expiries \in 0 .. MaxExpiries
  /\ faults \in 0 .. MaxFaults
  /\ lost \in SUBSET Logins
  /\ ended \in SUBSET Logins

Init ==
  /\ storage = None
  /\ screen = [t \in Tabs |-> None]
  /\ received = [t \in Tabs |-> None]
  /\ timer = [t \in Tabs |-> FALSE]
  /\ signin = [t \in Tabs |-> None]
  /\ call = [c \in Calls |-> None]
  /\ gen = [l \in Logins |-> 0]
  /\ stale = [l \in Logins |-> 0]
  /\ gone = {}
  /\ expiries = 0
  /\ faults = 0
  /\ lost = {}
  /\ ended = {}

-----------------------------------------------------------------------------
At(c, stage) == call[c] # None /\ call[c].at = stage

Tab(c) == TabOf[c]

(* apiFetch: the header has the token that is stored when the call is made.  *)
Sent(kind, again, awaited, s) ==
  [kind |-> kind, at |-> "sent", again |-> again, awaited |-> awaited,
   with |-> IF s = None THEN None ELSE s.access, old |-> None, new |-> None]

(* The call of c is over, with or without an exception: loadReceived follows *)
(* loadContacts, polling starts after the first loadReceived.               *)
Over(c) ==
  /\ call' = [call EXCEPT ![c] = IF call[c].kind = "contacts"
                                 THEN Sent("first", FALSE, call[c].awaited, storage)
                                 ELSE None]
  /\ timer' = [timer EXCEPT ![Tab(c)] = @ \/ call[c].kind = "first"]

Fault == faults < MaxFaults /\ faults' = faults + 1

-----------------------------------------------------------------------------
(* Calls                                                                    *)

(* The timer fires, or the tab becomes visible, whose handler asks for       *)
(* tokens and not for the page it is on.                                    *)
Poll(c) ==
  /\ call[c] = None
  /\ timer[Tab(c)] \/ storage # None
  /\ call' = [call EXCEPT ![c] = Sent("poll", FALSE, FALSE, storage)]
  /\ UNCHANGED <<storage, screen, received, timer, signin, server, faults, lost, ended>>

(* A token or a pair that is refused once is refused for ever: when the       *)
(* answer was made makes no difference to who receives it.                  *)
Valid(p) == p # None /\ p.gen > stale[p.login]

Accepted(c) == At(c, "sent") /\ Valid(call[c].with)
Denied(c) == At(c, "sent") /\ ~Valid(call[c].with)

Listed(c, whose) ==
  received' = IF call[c].kind = "contacts" THEN received
              ELSE [received EXCEPT ![Tab(c)] = whose]

Show(c) ==
  /\ Accepted(c)
  /\ Listed(c, OwnerOf[call[c].with.login])
  /\ Over(c)
  /\ UNCHANGED <<storage, screen, signin, server, faults, lost, ended>>

(* The second 401 is shown as an error in place of the list.                 *)
DeniedAgain(c) ==
  /\ Denied(c)
  /\ call[c].again
  /\ Listed(c, None)
  /\ Over(c)
  /\ UNCHANGED <<storage, screen, signin, server, faults, lost, ended>>

NoTokens(c) ==
  /\ Denied(c)
  /\ ~call[c].again
  /\ storage = None
  /\ Over(c)
  /\ UNCHANGED <<storage, screen, received, signin, server, faults, lost, ended>>

SnapshotOfCall(c) ==                 \* fault: refreshes the pair the call was sent with
  IF call[c].with = None THEN storage
  ELSE [who |-> OwnerOf[call[c].with.login], access |-> call[c].with,
        refresh |-> call[c].with]

Snapshot(c) == storage

StartRefresh(c) ==
  /\ Denied(c)
  /\ ~call[c].again
  /\ Snapshot(c) # None
  /\ call' = [call EXCEPT ![c].at = "refreshing", ![c].old = Snapshot(c)]
  /\ UNCHANGED <<storage, screen, received, timer, signin, server, faults, lost, ended>>

Refreshable(p) == p.login \notin gone /\ p.gen = gen[p.login]

Rotate(c) ==
  /\ At(c, "refreshing")
  /\ LET p == call[c].old.refresh IN
       /\ Refreshable(p)
       /\ gen' = [gen EXCEPT ![p.login] = @ + 1]
       /\ call' = [call EXCEPT ![c].at = "rotated",
                               ![c].new = [login |-> p.login, gen |-> p.gen + 1]]
  /\ UNCHANGED <<storage, screen, received, timer, signin, stale, gone,
                 expiries, faults, lost, ended>>

Refused(c) ==
  /\ At(c, "refreshing")
  /\ ~Refreshable(call[c].old.refresh)
  /\ Over(c)
  /\ UNCHANGED <<storage, screen, received, signin, server, faults, lost, ended>>

MergedIntoStorage(s, p) ==                  \* fault: merges with what is stored by now
  IF storage = None THEN [s EXCEPT !.access = p, !.refresh = p]
  ELSE [storage EXCEPT !.access = p, !.refresh = p]
MergedBelow(s, p) == s                      \* fault: Object.assign({}, body, t)

Merged(s, p) == [s EXCEPT !.access = p, !.refresh = p]

(* The answer is merged into the tokens read before, stored, and the call    *)
(* made again with the token that is stored now.                            *)
StoreTokens(c) ==
  /\ At(c, "rotated")
  /\ storage' = Merged(call[c].old, call[c].new)
  /\ call' = [call EXCEPT ![c] =
                Sent(call[c].kind, TRUE, call[c].awaited,
                     Merged(call[c].old, call[c].new))]
  /\ UNCHANGED <<screen, received, timer, signin, server, faults, lost, ended>>

(* Logins whose latest pair is under way to one of the calls C.              *)
UnderWay(C) == {l \in Logins : \E c \in C : At(c, "rotated") /\ call[c].new.login = l}

(* fetch rejects: the request or its answer got lost.                       *)
Break(c) ==
  /\ call[c] # None
  /\ Fault
  /\ lost' = lost \cup UnderWay({c})
  /\ Over(c)
  /\ UNCHANGED <<storage, screen, received, signin, server, ended>>

-----------------------------------------------------------------------------
(* Signing in and out, and the boot of the page                             *)

(* btnLogin stays disabled until siweLogin is over, with the first loading   *)
(* that it awaits; logging out meanwhile does not enable it, and the loading *)
(* of the boot does not disable it.                                         *)
LoginDisabled(t) == \/ signin[t] # None
                    \/ \E c \in Calls : Tab(c) = t /\ call[c] # None /\ call[c].awaited

(* siweLogin up to the answer of /auth/siwe/verify; the wallet may have      *)
(* changed its account since the last login.                                *)
SignIn(t, l) ==
  /\ screen[t] = None
  /\ ~LoginDisabled(t)
  /\ gen[l] = 0
  /\ gen' = [gen EXCEPT ![l] = 1]
  /\ signin' = [signin EXCEPT ![t] = l]
  /\ UNCHANGED <<storage, screen, received, timer, call, stale, gone, expiries,
                 faults, lost, ended>>

First(l) == [login |-> l, gen |-> 1]
OfLogin(l) == [who |-> OwnerOf[l], access |-> First(l), refresh |-> First(l)]

(* The rest of siweLogin, up to the await of loadContacts.                   *)
SignedIn(t, c) ==
  /\ signin[t] # None
  /\ call[c] = None
  /\ Tab(c) = t
  /\ storage' = OfLogin(signin[t])
  /\ screen' = [screen EXCEPT ![t] = OwnerOf[signin[t]]]
  /\ signin' = [signin EXCEPT ![t] = None]
  /\ call' = [call EXCEPT ![c] = Sent("contacts", FALSE, TRUE, OfLogin(signin[t]))]
  /\ UNCHANGED <<received, timer, server, faults, lost, ended>>

(* fetch rejects, and siweLogin with it.                                    *)
SignInBreaks(t) ==
  /\ signin[t] # None
  /\ Fault
  /\ signin' = [signin EXCEPT ![t] = None]
  /\ UNCHANGED <<storage, screen, received, timer, call, server, lost, ended>>

(* Logins that a refresh under way may still store.                         *)
Refreshing == {l \in Logins : \E c \in Calls : /\ At(c, "refreshing") \/ At(c, "rotated")
                                               /\ call[c].old.refresh.login = l}

(* The session of the server is not told.                                   *)
Logout(t) ==
  /\ screen[t] # None
  /\ timer' = [timer EXCEPT ![t] = FALSE]
  /\ storage' = None
  /\ screen' = [screen EXCEPT ![t] = None]
  /\ received' = [received EXCEPT ![t] = None]
  /\ ended' = ended \cup (IF storage = None THEN {} ELSE {storage.refresh.login} \ Refreshing)
  /\ UNCHANGED <<signin, call, server, faults, lost>>

(* The page is loaded again and boots; its calls are dropped.               *)
Reload(t) ==
  /\ Fault
  /\ lost' = lost \cup UnderWay({c \in Calls : Tab(c) = t})
  /\ signin' = [signin EXCEPT ![t] = None]
  /\ timer' = [timer EXCEPT ![t] = FALSE]
  /\ received' = [received EXCEPT ![t] = None]
  /\ screen' = [screen EXCEPT ![t] = IF storage = None THEN None ELSE storage.who]
  /\ \E b \in Calls :
       /\ Tab(b) = t
       /\ call' = [c \in Calls |-> IF Tab(c) # t THEN call[c]
                                   ELSE IF c = b /\ storage # None
                                        THEN Sent("contacts", FALSE, FALSE, storage)
                                        ELSE None]
  /\ UNCHANGED <<storage, server, ended>>

-----------------------------------------------------------------------------
(* The server                                                               *)

(* Access tokens live equally long: the older expires first.                *)
Expire(l) ==
  /\ expiries < MaxExpiries
  /\ expiries' = expiries + 1
  /\ stale[l] < gen[l]
  /\ stale' = [stale EXCEPT ![l] = gen[l]]
  /\ UNCHANGED <<browser, gen, gone, faults, lost, ended>>

(* A restart, the refresh token's own expiry, or a rotation that fails after *)
(* it has consumed the token.                                               *)
Forget(l) ==
  /\ Fault
  /\ gen[l] # 0
  /\ l \notin gone
  /\ gone' = gone \cup {l}
  /\ UNCHANGED <<browser, gen, stale, expiries, lost, ended>>

(* What happens to a call without anybody's doing.                          *)
Advance(c) == \/ Show(c) \/ DeniedAgain(c) \/ NoTokens(c)
              \/ StartRefresh(c) \/ Rotate(c) \/ Refused(c) \/ StoreTokens(c)

Next == \/ \E c \in Calls : Poll(c) \/ Advance(c)
        \/ \E c \in Calls : Break(c) /\ UNCHANGED server
        \/ \E t \in Tabs, l \in Logins : SignIn(t, l)
        \/ \E t \in Tabs, c \in Calls : SignedIn(t, c)
        \/ \E t \in Tabs : SignInBreaks(t) \/ Logout(t) \/ Reload(t)
        \/ \E l \in Logins : Expire(l) \/ Forget(l)

Spec == Init /\ [][Next]_vars

(* Requests are answered or fail, answers are handled, the timer of a tab    *)
(* fires for as long as it is set, in a tab that is visible and shows what   *)
(* was received.  Nothing makes users or faults happen.                     *)
FairSpec == /\ Spec
            /\ \A c \in Calls : WF_vars(Advance(c)) /\ WF_vars(Poll(c))

-----------------------------------------------------------------------------
(* Properties                                                               *)

(* What is stored is of one login: the account shown after a reload is the   *)
(* one both tokens are for (refreshTokens merges into the tokens it read     *)
(* before the call, whoever signed in since).                               *)
StoredIsOneLogin ==
  storage # None => /\ storage.access = storage.refresh
                    /\ storage.who = OwnerOf[storage.refresh.login]

(* However calls and tabs race to refresh one pair, the stored refresh token *)
(* is the one the server would accept, unless its successor is under way to  *)
(* a call that will store it, or got lost (refreshTokens, RotateRefresh).    *)
SessionNotLostInRaces ==
  storage # None =>
    LET p == storage.refresh IN
      p.gen = gen[p.login] \/ p.login \in lost \cup UnderWay(Calls)

(* A logout is final if no refresh of the login is under way: calls that are *)
(* under way find no tokens to refresh (logout, refreshTokens).             *)
QuietLogoutIsFinal ==
  storage # None => storage.refresh.login \notin ended

(* A tab that stays in the app, while the storage keeps a login that is       *)
(* neither lost nor forgotten, comes to list the documents of the account    *)
(* that is stored, though its access tokens expire and others refresh them.  *)
Usable == storage # None /\ storage.refresh.login \notin lost \cup gone

ComesToListOwn ==
  \A t \in Tabs :
    <>[](screen[t] # None /\ Usable) => <>[](storage # None /\ received[t] = storage.who)

(* Once siweLogin is over in a tab, the documents listed there are those of   *)
(* the account it shows: it calls them those "received by your account"      *)
(* (loadReceived).                                                          *)
ListedIsOwn ==
  \A t \in Tabs : screen[t] # None /\ received[t] # None /\ ~LoginDisabled(t) =>
                   received[t] = screen[t]

-----------------------------------------------------------------------------
(* The inductive invariant.  A pair is held by the storage, by a call that   *)
(* refreshes it, or by a sign-in whose answer is under way.                 *)
InRefresh(c) == At(c, "refreshing") \/ At(c, "rotated")
OneLogin(s) == s.access = s.refresh /\ s.who = OwnerOf[s.refresh.login]
Issued(p) == p.gen # 0 /\ p.gen <= gen[p.login]

Held ==
  /\ storage # None => OneLogin(storage) /\ Issued(storage.refresh)
  /\ \A c \in Calls : InRefresh(c) =>
       /\ call[c].old # None
       /\ OneLogin(call[c].old)
       /\ Issued(call[c].old.refresh)
  /\ \A c \in Calls : At(c, "rotated") =>
       /\ call[c].new # None
       /\ call[c].new.login = call[c].old.refresh.login
       /\ call[c].new.gen = gen[call[c].new.login]

(* A pair under way is the latest, nobody else receives it, and what the     *)
(* storage and other calls hold of its login is spent.                      *)
OneReceiver ==
  \A c \in Calls, l \in Logins : At(c, "rotated") /\ call[c].new.login = l =>
    /\ storage # None /\ storage.refresh.login = l => storage.refresh.gen # gen[l]
    /\ \A d \in Calls : At(d, "refreshing") /\ call[d].old.refresh.login = l =>
         call[d].old.refresh.gen # gen[l]
    /\ \A d \in Calls : At(d, "rotated") /\ call[d].new.login = l => d = c

(* The first pair of a login is held by the sign-in alone.                  *)
Awaited ==
  \A t \in Tabs, l \in Logins : signin[t] = l =>
    /\ gen[l] = 1
    /\ storage # None => storage.refresh.login # l
    /\ l \notin Refreshing
    /\ \A u \in Tabs : signin[u] = l => u = t

EndedUnheld ==
  \A l \in ended : /\ gen[l] # 0
                   /\ l \notin Refreshing
                   /\ \A t \in Tabs : signin[t] # l

IInv == /\ TypeOK
        /\ Held
        /\ OneReceiver
        /\ Awaited
        /\ EndedUnheld
        /\ SessionNotLostInRaces
        /\ QuietLogoutIsFinal
=============================================================================
