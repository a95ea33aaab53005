---------------------------- MODULE LoginSessions ----------------------------
(***************************************************************************)
(* What the authentication service promises about logins, seen from        *)
(* outside: a login is opened at most once, for one owner; it serves that   *)
(* owner and nobody else until it is closed; it never comes back.          *)
(* Rotation of refresh tokens is invisible at this level.                  *)
(* AuthService is shown to implement this module.                          *)
(***************************************************************************)

CONSTANTS Logins,  \* identities of logins
          Owners   \* an account on a chain

VARIABLES opened,  \* logins that were opened at some time
          who      \* who[l]: the owners that login l serves now

vars == <<opened, who>>

TypeOK == /\ opened \in SUBSET Logins
          /\ who \in [Logins -> SUBSET Owners]

Init == /\ opened = {}
        /\ who = [l \in Logins |-> {}]

(* A verified SIWE message opens a login that was never opened before.     *)
Open(l, o) == /\ l \notin opened
              /\ opened' = opened \cup {l}
              /\ who' = [who EXCEPT ![l] = {o}]

(* Logout, expiry or a failed rotation closes a login.                     *)
Close(l) == /\ who[l] # {}
            /\ who' = [who EXCEPT ![l] = {}]
            /\ UNCHANGED opened

(* The service keeps sessions in memory only: a restart closes them all.   *)
Crash == /\ who' = [l \in Logins |-> {}]
         /\ UNCHANGED opened

Next == \/ \E l \in Logins, o \in Owners : Open(l, o)
        \/ \E l \in Logins : Close(l)
        \/ Crash

Spec == Init /\ [][Next]_vars
=============================================================================
