---------------------------- MODULE WebViewsProofs ----------------------------
(***************************************************************************)
(* What is displayed is what is selected, and an answer that is handled is    *)
(* shown, for any contacts, documents and number of loads under way.         *)
(*                                                                         *)
(* First what the helpers do to load, then the kinds of steps there are for   *)
(* the selection and the view, then the invariant conjunct by conjunct.      *)
(***************************************************************************)
EXTENDS WebViews, TLAPS

Kinds == {"contacts", "first", "later"}
Views == Contacts \cup {Received}

-----------------------------------------------------------------------------
(* What the helpers do to load.                                             *)

LEMMA AskedIs ==
  ASSUME NEW p \in Loads, NEW kind \in Kinds, NEW of \in Views, NEW token \in BOOLEAN,
         NEW awaited \in BOOLEAN
  PROVE  LET a == Asked(p, kind, of, token, awaited)
         IN /\ a \in Load
            /\ a.kind = kind /\ a.of = of /\ a.answer = Nothing
            /\ a.alone => ~early /\ \A q \in Loads \ {p} : load[q] = Nothing
  BY DEF Asked, Load, Kinds, Views

LEMMA JoinedIs ==
  ASSUME ViewsTypeOK, NEW q \in Loads
  PROVE  /\ load[q] = Nothing => Joined(q) = Nothing
         /\ load[q] # Nothing => /\ Joined(q) \in Load
                                 /\ Joined(q).kind = load[q].kind
                                 /\ Joined(q).of = load[q].of
                                 /\ ~Joined(q).alone
<1>1. ASSUME load[q] # Nothing
      PROVE  /\ Joined(q) \in Load /\ Joined(q).kind = load[q].kind
             /\ Joined(q).of = load[q].of /\ ~Joined(q).alone
  <2>1. PICK r \in Load : r = load[q]
    BY <1>1 DEF ViewsTypeOK
  <2>2. /\ [r EXCEPT !.alone = FALSE] \in Load
        /\ [r EXCEPT !.alone = FALSE].kind = r.kind
        /\ [r EXCEPT !.alone = FALSE].of = r.of
        /\ ~[r EXCEPT !.alone = FALSE].alone
    BY DEF Load
  <2> QED
    BY <1>1, <2>1, <2>2 DEF Joined
<1> QED
  BY <1>1 DEF Joined

(* A new load takes its place and leaves no other load alone.               *)
LEMMA Asking ==
  ASSUME ViewsTypeOK, NEW p \in Loads, NEW kind \in Kinds, NEW of \in Views,
         NEW token \in BOOLEAN, NEW awaited \in BOOLEAN, Ask(p, kind, of, token, awaited)
  PROVE  /\ load' \in [Loads -> Load \cup {Nothing}]
         /\ load'[p] # Nothing /\ load'[p].kind = kind /\ load'[p].of = of
         /\ load'[p].alone => ~early /\ \A q \in Loads \ {p} : load[q] = Nothing
         /\ \A q \in Loads \ {p} :
              /\ load[q] = Nothing <=> load'[q] = Nothing
              /\ load[q] # Nothing => /\ load'[q].kind = load[q].kind
                                      /\ ~load'[q].alone
<1> DEFINE a == Asked(p, kind, of, token, awaited)
<1>1. /\ a \in Load /\ a.kind = kind /\ a.of = of
      /\ a.alone => ~early /\ \A q \in Loads \ {p} : load[q] = Nothing
  BY AskedIs
<1>2. load' = [q \in Loads |-> IF q = p THEN a ELSE Joined(q)]
  BY DEF Ask
<1> HIDE DEF a
<1>3. load'[p] = a /\ \A q \in Loads \ {p} : load'[q] = Joined(q)
  BY <1>2
<1>4. \A q \in Loads : Joined(q) \in Load \cup {Nothing}
  BY JoinedIs
<1>5. load' \in [Loads -> Load \cup {Nothing}]
  BY <1>1, <1>2, <1>4
<1>6. \A q \in Loads \ {p} : /\ load[q] = Nothing <=> load'[q] = Nothing
                             /\ load[q] # Nothing => /\ load'[q].kind = load[q].kind
                                                     /\ ~load'[q].alone
  BY <1>3, JoinedIs, ViewsAssumption
<1> QED
  BY <1>1, <1>3, <1>5, <1>6, ViewsAssumption

LEMMA AskingLater ==
  ASSUME ViewsTypeOK, NEW p \in Loads, NEW kind \in {"first", "later"}, NEW of \in Views,
         NEW token \in BOOLEAN, NEW awaited \in BOOLEAN, Ask(p, kind, of, token, awaited)
  PROVE  Pending' => Pending
  BY Asking DEF Pending, Kinds

(* An answer changes nothing of a load but the answer.                       *)
LEMMA Answering ==
  ASSUME ViewsTypeOK, NEW p \in Loads, NEW a \in {Failed} \cup Cards,
         load[p] # Nothing, load' = [load EXCEPT ![p].answer = a]
  PROVE  /\ load' \in [Loads -> Load \cup {Nothing}]
         /\ \A q \in Loads : /\ load[q] = Nothing <=> load'[q] = Nothing
                             /\ load[q] # Nothing => /\ load'[q].kind = load[q].kind
                                                     /\ load'[q].of = load[q].of
                                                     /\ load'[q].alone = load[q].alone
<1>1. PICK r \in Load : r = load[p]
  BY DEF ViewsTypeOK
<1>2. /\ [r EXCEPT !.answer = a] \in Load
      /\ [r EXCEPT !.answer = a].kind = r.kind
      /\ [r EXCEPT !.answer = a].of = r.of
      /\ [r EXCEPT !.answer = a].alone = r.alone
  BY DEF Load
<1>3. load' = [load EXCEPT ![p] = [r EXCEPT !.answer = a]]
  BY <1>1
<1> QED
  BY <1>1, <1>2, <1>3, ViewsAssumption DEF ViewsTypeOK

-----------------------------------------------------------------------------
(* The kinds of steps there are for the selection, the view and the loads.    *)

Stays ==
  /\ UNCHANGED <<inApp, selected, view, early>>
  /\ load' \in [Loads -> Load \cup {Nothing}]
  /\ \A q \in Loads : load'[q] # Nothing => /\ load[q] # Nothing
                                           /\ load'[q].kind = load[q].kind
                                           /\ load'[q].of = load[q].of
                                           /\ load'[q].alone = load[q].alone
  /\ Pending => Pending'

LogsIn(p) ==
  /\ inApp' = TRUE /\ selected' = Nothing /\ view' = view
  /\ Ask(p, "contacts", Received, TRUE, TRUE)

LogsOut ==
  /\ inApp' = FALSE /\ selected' = Nothing /\ view' = view
  /\ load' = load

Boots ==
  /\ selected' = Nothing /\ view' = Received
  /\ load' \in [Loads -> Load \cup {Nothing}]
  /\ \A q, r \in Loads : load'[q] # Nothing /\ load'[r] # Nothing => q = r
  /\ \A q \in Loads : load'[q] # Nothing => load'[q].kind = "contacts"

Follows(p) ==      \* loadReceived after loadContacts
  /\ Pending
  /\ UNCHANGED <<inApp, selected, early>>
  /\ view' = Received
  /\ \E awaited \in BOOLEAN : Ask(p, "first", Received, inApp, awaited)

Turns(p) ==        \* loadReceived with nothing selected
  /\ inApp' = inApp /\ selected' = Nothing /\ view' = Received
  /\ Ask(p, "later", Received, inApp, FALSE)

Selects(p, k) ==
  /\ inApp
  /\ inApp' = inApp /\ selected' = k /\ view' = k /\ early' = Pending
  /\ Ask(p, "later", k, inApp, FALSE)

Refreshes(p) ==    \* showSentForSelectedContact after a transfer
  /\ selected # Nothing
  /\ UNCHANGED <<inApp, selected, view, early>>
  /\ Ask(p, "later", selected, inApp, FALSE)

Steps == \/ Stays \/ LogsOut \/ Boots
         \/ \E p \in Loads : \/ LogsIn(p) \/ Follows(p) \/ Turns(p) \/ Refreshes(p)
                             \/ \E k \in Contacts : Selects(p, k)

LEMMA AnswersStay ==
  ASSUME ViewsTypeOK, NEW p \in Loads, NEW a \in {Failed} \cup Cards,
         load[p] # Nothing, load' = [load EXCEPT ![p].answer = a],
         UNCHANGED <<inApp, selected, view, early>>
  PROVE  Stays
<1>1. Pending => Pending'
  BY Answering DEF Pending
<1> QED
  BY <1>1, Answering DEF Stays

LEMMA OverStays ==
  ASSUME ViewsTypeOK, NEW p \in Loads, Over(p), load[p].kind # "contacts"
  PROVE  Stays
<1>1. load' = [load EXCEPT ![p] = Nothing]
  BY DEF Over
<1>2. /\ load' \in [Loads -> Load \cup {Nothing}]
      /\ \A q \in Loads : load'[q] # Nothing => q # p /\ load'[q] = load[q]
      /\ \A q \in Loads \ {p} : load'[q] = load[q]
  BY <1>1 DEF ViewsTypeOK
<1>3. Pending => Pending'
  BY <1>2 DEF Pending
<1> QED
  BY <1>2, <1>3 DEF Stays, Over

LEMMA SameStays ==
  ASSUME ViewsTypeOK, UNCHANGED <<inApp, selected, view, load, early>>
  PROVE  Stays
  BY DEF Stays, Pending, ViewsTypeOK

LEMMA ListTaken ==
  ASSUME ViewsTypeOK, NEW p \in Loads, load[p] # Nothing
  PROVE  /\ inbox \in {Failed} \cup Cards
         /\ load[p].of # Received => outbox[load[p].of] \in {Failed} \cup Cards
  BY DEF ViewsTypeOK, Load

LEMMA BootBoots ==
  ASSUME ViewsTypeOK, NEW p \in Loads, Boot(p)
  PROVE  Boots
<1> DEFINE a == [Asked(p, "contacts", Received, TRUE, FALSE) EXCEPT !.alone = TRUE]
<1>1. a \in Load /\ a.kind = "contacts"
  BY DEF Asked, Load
<1>2. load' = [q \in Loads |-> IF q = p /\ inApp THEN a ELSE Nothing]
  BY DEF Boot
<1> HIDE DEF a
<1>3. load' \in [Loads -> Load \cup {Nothing}]
  BY <1>1, <1>2
<1>4. \A q \in Loads : load'[q] # Nothing => q = p /\ load'[q] = a
  BY <1>2
<1> QED
  BY <1>1, <1>3, <1>4 DEF Boots, Boot

LEMMA StepKinds ==
  ASSUME ViewsTypeOK, [ViewsNext]_viewsVars
  PROVE  Steps
<1>1. CASE UNCHANGED viewsVars
  BY <1>1, SameStays DEF viewsVars, Steps
<1>2. CASE Logout
  BY <1>2 DEF Logout, LogsOut, Deselected, Steps
<1>3. CASE AddContact \/ \E d \in Inbound : Arrive(d)
  BY <1>3, SameStays DEF AddContact, Arrive, Steps
<1>4. ASSUME NEW p \in Loads, Advance(p) PROVE Steps
  <2>1. CASE Answer(p)
    BY <2>1, AnswersStay, ListTaken DEF Answer, Steps
  <2>2. CASE Shows(p) \/ Thrown(p)
    <3>1. Over(p) /\ load[p].kind # "contacts"
      BY <2>2 DEF Shows, ShowError, Skip, Redraw, Answered, Thrown
    <3> QED
      BY <3>1, OverStays DEF Steps
  <2>3. CASE ContactsListed(p) \/ ContactsThrown(p)
    <3>1. load[p] # Nothing /\ load[p].kind = "contacts" /\ FirstReceived(p)
      BY <2>3 DEF ContactsListed, ContactsThrown, Answered, Throws
    <3>2. load[p].awaited \in BOOLEAN
      BY <3>1 DEF ViewsTypeOK, Load
    <3>3. Follows(p)
      BY <3>1, <3>2 DEF FirstReceived, LoadReceived, Follows, Pending
    <3> QED
      BY <3>3 DEF Steps
  <2> QED
    BY <1>4, <2>1, <2>2, <2>3 DEF Advance
<1>5. ASSUME NEW p \in Loads, AnswerBroken(p) PROVE Steps
  <2>1. PICK a \in {Failed, {}} : load' = [load EXCEPT ![p].answer = a]
    BY <1>5 DEF AnswerBroken
  <2>2. a \in {Failed} \cup Cards
    BY DEF Cards
  <2> QED
    BY <1>5, <2>1, <2>2, AnswersStay DEF AnswerBroken, Steps
<1>6. ASSUME NEW p \in Loads, Acts(p) PROVE Steps
  <2>1. CASE Login(p)
    BY <2>1 DEF Login, LogsIn, Steps
  <2>2. CASE Boot(p)
    BY <2>2, BootBoots DEF Steps
  <2>3. CASE ClickReceived(p)
    BY <2>3 DEF ClickReceived, LoadReceived, Deselected, Turns, Steps
  <2>4. CASE Poll(p) \/ BecomesVisible(p)
    BY <2>4 DEF Poll, BecomesVisible, RefreshReceived, LoadReceived, Turns, Steps
  <2>5. CASE \E k \in Contacts : Click(p, k)
    BY <2>5 DEF Click, ShowSent, Selects, Steps
  <2>6. CASE \E k \in Contacts, d \in Outbound : SentSelected(p, k, d)
    BY <2>6 DEF SentSelected, ShowSent, Refreshes, Steps
  <2>7. CASE \E k \in Contacts, d \in Outbound : SentOther(p, k, d)
    BY <2>7 DEF SentOther, LoadReceived, Turns, Steps
  <2> QED
    BY <1>6, <2>1, <2>2, <2>3, <2>4, <2>5, <2>6, <2>7 DEF Acts
<1> QED
  BY <1>1, <1>2, <1>3, <1>4, <1>5, <1>6 DEF ViewsNext

-----------------------------------------------------------------------------
(* Types.                                                                   *)

LEMMA InitTypes == ViewsInit => ViewsTypeOK
<1> SUFFICES ASSUME ViewsInit PROVE ViewsTypeOK
  OBVIOUS
<1>1. {} \in Cards /\ 0 \in 0 .. MaxBreaks
  BY BreaksAssumption DEF Cards
<1>2. NoCards \in [Lists -> Cards] /\ NoSig \in [Lists -> {Nothing} \cup Cards]
  BY <1>1 DEF NoCards, NoSig
<1>3. load \in [Loads -> Load \cup {Nothing}]
  BY DEF ViewsInit
<1>4. outbox \in [Contacts -> Cards]
  BY <1>1 DEF ViewsInit
<1> QED
  BY <1>1, <1>2, <1>3, <1>4 DEF ViewsInit, ViewsTypeOK

(* What every kind of step leaves of the types.                              *)
LEMMA StepTypes ==
  ASSUME ViewsTypeOK, Steps
  PROVE  /\ selected' \in Contacts \cup {Nothing}
         /\ view' \in Views
         /\ load' \in [Loads -> Load \cup {Nothing}]
<1>1. CASE Stays
  BY <1>1 DEF Stays, ViewsTypeOK, Views
<1>2. CASE LogsOut
  BY <1>2 DEF LogsOut, ViewsTypeOK, Views
<1>3. CASE Boots
  BY <1>3 DEF Boots, ViewsTypeOK, Views
<1>4. ASSUME NEW p \in Loads, LogsIn(p) \/ Follows(p) \/ Turns(p)
      PROVE  /\ selected' \in Contacts \cup {Nothing} /\ view' \in Views
             /\ load' \in [Loads -> Load \cup {Nothing}]
  <2>1. /\ inApp \in BOOLEAN /\ selected \in Contacts \cup {Nothing} /\ view \in Views
        /\ Received \in Views
    BY DEF ViewsTypeOK, Views
  <2>2. load' \in [Loads -> Load \cup {Nothing}]
    BY <1>4, <2>1, Asking DEF LogsIn, Follows, Turns, Kinds
  <2> QED
    BY <1>4, <2>1, <2>2 DEF LogsIn, Follows, Turns
<1>5. ASSUME NEW p \in Loads, Refreshes(p)
      PROVE  /\ selected' \in Contacts \cup {Nothing} /\ view' \in Views
             /\ load' \in [Loads -> Load \cup {Nothing}]
  <2>1. inApp \in BOOLEAN /\ selected \in Views /\ view \in Views
    BY <1>5 DEF ViewsTypeOK, Views, Refreshes
  <2> QED
    BY <1>5, <2>1, Asking DEF Refreshes, Kinds, ViewsTypeOK
<1>6. ASSUME NEW p \in Loads, NEW k \in Contacts, Selects(p, k)
      PROVE  /\ selected' \in Contacts \cup {Nothing} /\ view' \in Views
             /\ load' \in [Loads -> Load \cup {Nothing}]
  BY <1>6, Asking DEF Selects, Kinds, ViewsTypeOK, Views
<1> QED
  BY <1>1, <1>2, <1>3, <1>4, <1>5, <1>6 DEF Steps

(* The rest: what is displayed, and the server.                              *)
LEMMA ShownTypes ==
  ASSUME ViewsTypeOK, [ViewsNext]_viewsVars
  PROVE  /\ inApp' \in BOOLEAN /\ sidebar' \in BOOLEAN
         /\ timer' \in BOOLEAN /\ early' \in BOOLEAN
         /\ cards' \in [Lists -> Cards]
         /\ sig' \in [Lists -> {Nothing} \cup Cards]
         /\ text' \in {"start", "loading", "empty", "error", "hidden"}
         /\ inbox' \in Cards /\ outbox' \in [Contacts -> Cards]
         /\ breaks' \in 0 .. MaxBreaks
<1> DEFINE Shown == /\ inApp' \in BOOLEAN /\ sidebar' \in BOOLEAN
                    /\ timer' \in BOOLEAN /\ early' \in BOOLEAN
                    /\ cards' \in [Lists -> Cards]
                    /\ sig' \in [Lists -> {Nothing} \cup Cards]
                    /\ text' \in {"start", "loading", "empty", "error", "hidden"}
                    /\ inbox' \in Cards /\ outbox' \in [Contacts -> Cards]
                    /\ breaks' \in 0 .. MaxBreaks
<1>0. /\ inApp \in BOOLEAN /\ sidebar \in BOOLEAN /\ timer \in BOOLEAN /\ early \in BOOLEAN
      /\ cards \in [Lists -> Cards] /\ sig \in [Lists -> {Nothing} \cup Cards]
      /\ text \in {"start", "loading", "empty", "error", "hidden"}
      /\ inbox \in Cards /\ outbox \in [Contacts -> Cards]
      /\ breaks \in 0 .. MaxBreaks
  BY DEF ViewsTypeOK
<1>b. Break => breaks' \in 0 .. MaxBreaks
  BY <1>0, BreaksAssumption DEF Break
<1>n. NoCards \in [Lists -> Cards] /\ NoSig \in [Lists -> {Nothing} \cup Cards]
  BY DEF NoCards, NoSig, Cards
<1>1. CASE UNCHANGED viewsVars
  BY <1>0, <1>1 DEF viewsVars, lists, server
<1>2. CASE Logout \/ AddContact
  BY <1>0, <1>2, <1>n DEF Logout, AddContact, lists, server
<1>3. ASSUME NEW d \in Inbound, Arrive(d) PROVE Shown
  <2>1. inbox \cup {d} \in Cards
    BY <1>0 DEF Cards
  <2> QED
    BY <1>0, <1>3, <2>1 DEF Arrive, lists
<1>4. ASSUME NEW p \in Loads, Answer(p) \/ AnswerBroken(p) PROVE Shown
  BY <1>0, <1>4, <1>b DEF Answer, AnswerBroken, lists, server
<1>5. ASSUME NEW p \in Loads, Shows(p) \/ Thrown(p) PROVE Shown
  <2>1. /\ load[p] # Nothing => load[p].answer \in {Failed, Nothing} \cup Cards
        /\ ListOf(p) \in Lists
        /\ {} \in Cards
    BY DEF ViewsTypeOK, Load, ListOf, Lists, Cards
  <2>2. Over(p) => timer' \in BOOLEAN
    BY <1>0 DEF Over, TimerAfter
  <2>3. CASE ShowError(p)
    <3>1. cards' \in [Lists -> Cards]
      BY <1>0, <2>1, <2>3 DEF ShowError
    <3> QED
      BY <1>0, <2>2, <2>3, <3>1 DEF ShowError, Over, server
  <2>4. CASE Skip(p)
    BY <1>0, <2>2, <2>4 DEF Skip, Over, lists, server
  <2>5. CASE Redraw(p)
    <3>1. load[p].answer \in Cards
      BY <2>1, <2>5 DEF Redraw, Answered
    <3>2. cards' \in [Lists -> Cards] /\ sig' \in [Lists -> {Nothing} \cup Cards]
      BY <1>0, <2>1, <2>5, <3>1 DEF Redraw
    <3> QED
      BY <1>0, <2>2, <2>5, <3>2 DEF Redraw, Over, server
  <2>6. CASE Thrown(p)
    BY <1>0, <1>b, <2>2, <2>6 DEF Thrown, Throws, Over, lists, server
  <2> QED
    BY <1>5, <2>3, <2>4, <2>5, <2>6 DEF Shows
<1>6. ASSUME NEW p \in Loads, ContactsListed(p) \/ ContactsThrown(p) PROVE Shown
  BY <1>0, <1>b, <1>6
  DEF ContactsListed, ContactsThrown, Throws, FirstReceived, lists, server
<1>7. ASSUME NEW p \in Loads, Login(p) \/ Boot(p) PROVE Shown
  BY <1>0, <1>b, <1>n, <1>7 DEF Login, Boot, server
<1>8. ASSUME NEW p \in Loads, ClickReceived(p) PROVE Shown
  <2>1. [sig EXCEPT !["sent"] = Nothing] \in [Lists -> {Nothing} \cup Cards]
    BY <1>0
  <2> QED
    BY <1>0, <1>8, <2>1 DEF ClickReceived, server
<1>9. ASSUME NEW p \in Loads, Poll(p) \/ BecomesVisible(p) PROVE Shown
  BY <1>0, <1>9 DEF Poll, BecomesVisible, RefreshReceived, lists, server
<1>10. ASSUME NEW p \in Loads, NEW k \in Contacts, Click(p, k) PROVE Shown
  <2>1. Pending \in BOOLEAN
    BY DEF Pending
  <2> QED
    BY <1>0, <1>10, <1>n, <2>1 DEF Click, ShowSent, server
<1>11. ASSUME NEW p \in Loads, NEW k \in Contacts, NEW d \in Outbound,
              SentSelected(p, k, d) \/ SentOther(p, k, d)
       PROVE  Shown
  <2>1. outbox[k] \cup {d} \in Cards /\ {} \in Cards
    BY <1>0 DEF Cards
  <2>2. [outbox EXCEPT ![k] = @ \cup {d}] \in [Contacts -> Cards]
    BY <1>0, <2>1
  <2>3. [cards EXCEPT !["sent"] = {}] \in [Lists -> Cards]
    BY <1>0, <2>1
  <2> QED
    BY <1>0, <1>11, <2>2, <2>3 DEF SentSelected, SentOther, Sent, ShowSent, lists
<1> QED
  BY <1>1, <1>2, <1>3, <1>4, <1>5, <1>6, <1>7, <1>8, <1>9, <1>10, <1>11
  DEF ViewsNext, Advance, Acts

LEMMA NextTypes ==
  ASSUME ViewsTypeOK, [ViewsNext]_viewsVars
  PROVE  ViewsTypeOK'
  BY StepKinds, StepTypes, ShownTypes DEF ViewsTypeOK, Views

(* The types of what a tab displays, of its loads and of the server.          *)
THEOREM TypeCorrect == ViewsSpec => []ViewsTypeOK
  BY InitTypes, NextTypes, PTL DEF ViewsSpec

-----------------------------------------------------------------------------
(* The conjuncts of the invariant.                                          *)

LEMMA NextSigIsList ==
  ASSUME ViewsTypeOK, SigIsList, [ViewsNext]_viewsVars
  PROVE  SigIsList'
<1>1. CASE UNCHANGED viewsVars
  BY <1>1 DEF viewsVars, lists, SigIsList
<1>2. CASE Logout
  BY <1>2 DEF Logout, NoCards, SigIsList
<1>3. ASSUME NEW p \in Loads, ShowError(p) PROVE SigIsList'
  BY <1>3 DEF ShowError, SigIsList, ViewsTypeOK
<1>4. ASSUME NEW p \in Loads, Redraw(p) PROVE SigIsList'
  BY <1>4 DEF Redraw, SigIsList, ViewsTypeOK
<1>5. ASSUME NEW p \in Loads, Login(p) \/ Boot(p) PROVE SigIsList'
  BY <1>5 DEF Login, Boot, NoSig, SigIsList
<1>6. ASSUME NEW p \in Loads, ClickReceived(p) PROVE SigIsList'
  BY <1>6 DEF ClickReceived, SigIsList, ViewsTypeOK
<1>7. ASSUME NEW p \in Loads, NEW k \in Contacts, Click(p, k) PROVE SigIsList'
  BY <1>7 DEF Click, NoCards, SigIsList
<1>8. ASSUME NEW p \in Loads, NEW k \in Contacts, NEW d \in Outbound,
             SentSelected(p, k, d) \/ SentOther(p, k, d)
      PROVE  SigIsList'
  BY <1>8 DEF SentSelected, SentOther, lists, SigIsList, ViewsTypeOK
<1>9. CASE UNCHANGED lists
  BY <1>9 DEF lists, SigIsList
<1> QED
  BY <1>1, <1>2, <1>3, <1>4, <1>5, <1>6, <1>7, <1>8, <1>9
  DEF ViewsNext, Advance, Answer, AnswerBroken, Shows, Skip, ContactsListed, ContactsThrown,
      FirstReceived, Thrown, Acts, Poll, BecomesVisible, RefreshReceived, AddContact, Arrive

(* loadReceived after loadContacts is the step to look at: it replaces the    *)
(* view of a contact only if that was selected early, as Pending holds.      *)
LEMMA NextSelected ==
  ASSUME ViewsTypeOK, SelectedAfter, ViewIsSelected, Steps
  PROVE  SelectedAfter' /\ ViewIsSelected'
<1>0. inApp \in BOOLEAN /\ view \in Views /\ Received \in Views
  BY DEF ViewsTypeOK, Views
<1>1. CASE Stays
  <2>1. Pending' => Pending
    BY <1>1 DEF Stays, Pending
  <2> QED
    BY <1>1, <2>1 DEF Stays, SelectedAfter, ViewIsSelected
<1>2. CASE LogsOut
  BY <1>2 DEF LogsOut, SelectedAfter, ViewIsSelected
<1>3. CASE Boots
  BY <1>3 DEF Boots, SelectedAfter, ViewIsSelected
<1>4. ASSUME NEW p \in Loads, LogsIn(p) PROVE SelectedAfter' /\ ViewIsSelected'
  <2>1. Pending'
    BY <1>0, <1>4, Asking DEF LogsIn, Kinds, Pending
  <2> QED
    BY <1>4, <2>1 DEF LogsIn, SelectedAfter, ViewIsSelected
<1>5. ASSUME NEW p \in Loads, Follows(p) PROVE SelectedAfter' /\ ViewIsSelected'
  BY <1>5 DEF Follows, SelectedAfter, ViewIsSelected
<1>6. ASSUME NEW p \in Loads, Turns(p) PROVE SelectedAfter' /\ ViewIsSelected'
  BY <1>6 DEF Turns, SelectedAfter, ViewIsSelected
<1>7. ASSUME NEW p \in Loads, NEW k \in Contacts, Selects(p, k)
      PROVE  SelectedAfter' /\ ViewIsSelected'
  <2>1. Pending' => Pending
    BY <1>0, <1>7, AskingLater DEF Selects, Views
  <2>2. k # Nothing
    BY ViewsAssumption
  <2> QED
    BY <1>7, <2>1, <2>2 DEF Selects, SelectedAfter, ViewIsSelected
<1>8. ASSUME NEW p \in Loads, Refreshes(p) PROVE SelectedAfter' /\ ViewIsSelected'
  <2>1. selected \in Views
    BY <1>8 DEF Refreshes, ViewsTypeOK, Views
  <2>2. Pending' => Pending
    BY <1>0, <1>8, <2>1, AskingLater DEF Refreshes
  <2> QED
    BY <1>8, <2>2 DEF Refreshes, SelectedAfter, ViewIsSelected
<1> QED
  BY <1>1, <1>2, <1>3, <1>4, <1>5, <1>6, <1>7, <1>8 DEF Steps

LEMMA NextAlone ==
  ASSUME ViewsTypeOK, SelectedAfter, ViewIsSelected, AloneDisplayed, Steps
  PROVE  AloneDisplayed'
<1>0. inApp \in BOOLEAN /\ view \in Views /\ Received \in Views
  BY DEF ViewsTypeOK, Views
<1>1. CASE Stays
  BY <1>1 DEF Stays, AloneDisplayed
<1>2. CASE LogsOut
  BY <1>2 DEF LogsOut, AloneDisplayed
<1>3. CASE Boots
  BY <1>3 DEF Boots, AloneDisplayed
<1>4. ASSUME NEW p \in Loads, NEW kind \in Kinds, NEW of \in Views, NEW token \in BOOLEAN,
             NEW awaited \in BOOLEAN, Ask(p, kind, of, token, awaited), kind # "contacts" /\ ~early => view' = of
      PROVE  AloneDisplayed'
  <2>1. ASSUME NEW q \in Loads, load'[q] # Nothing, load'[q].alone
        PROVE  /\ \A r \in Loads \ {q} : load'[r] = Nothing
               /\ load'[q].kind # "contacts" => view' = load'[q].of
    <3>1. q = p
      BY <1>4, <2>1, Asking
    <3> QED
      BY <1>4, <2>1, <3>1, Asking
  <2> QED
    BY <2>1 DEF AloneDisplayed
<1>5. ASSUME NEW p \in Loads, LogsIn(p) \/ Follows(p) \/ Turns(p) PROVE AloneDisplayed'
  BY <1>0, <1>4, <1>5 DEF LogsIn, Follows, Turns, Kinds
<1>6. ASSUME NEW p \in Loads, NEW k \in Contacts, Selects(p, k) PROVE AloneDisplayed'
  BY <1>0, <1>4, <1>6 DEF Selects, Kinds, Views
<1>7. ASSUME NEW p \in Loads, Refreshes(p) PROVE AloneDisplayed'
  <2>1. selected \in Views
    BY <1>7 DEF Refreshes, ViewsTypeOK, Views
  <2>2. ~early => view' = selected
    BY <1>7 DEF Refreshes, SelectedAfter, ViewIsSelected
  <2> QED
    BY <1>0, <1>4, <1>7, <2>1, <2>2 DEF Refreshes, Kinds
<1> QED
  BY <1>1, <1>2, <1>3, <1>5, <1>6, <1>7 DEF Steps

LEMMA InitInv == ViewsInit => ViewsInv
  BY InitTypes DEF ViewsInit, ViewsInv, SigIsList, NoCards, NoSig, Lists, SelectedAfter,
     AloneDisplayed, ViewIsSelected

LEMMA NextInv ==
  ASSUME ViewsInv, [ViewsNext]_viewsVars
  PROVE  ViewsInv'
  BY NextTypes, StepKinds, NextSigIsList, NextSelected, NextAlone DEF ViewsInv

(* The invariant of the views is inductive.                                  *)
THEOREM ViewsInductive == ViewsSpec => []ViewsInv
  BY InitInv, NextInv, PTL DEF ViewsSpec

-----------------------------------------------------------------------------
(* Results.                                                                 *)

(* The title is that of the selected contact, or of the documents received,   *)
(* but for the time that contacts are being loaded.                          *)
THEOREM TitleIsSelected == ViewsSpec => []ViewIsSelected
<1>1. ViewsInv => ViewIsSelected
  BY DEF ViewsInv
<1> QED
  BY <1>1, ViewsInductive, PTL

(* Handling an answer shows what it says; alone, under its own title.          *)
LEMMA Handling ==
  ASSUME ViewsInv, [ViewsNext]_viewsVars, NEW p \in Loads, Shows(p)
  PROVE  HandledWell(p)
<1> DEFINE a == load[p].answer
           list == ListOf(p)
<1>0. /\ load[p] # Nothing /\ a # Nothing /\ load[p].kind \in {"first", "later"}
      /\ load[p] \in Load
      /\ list \in Lists /\ cards \in [Lists -> Cards] /\ sig \in [Lists -> {Nothing} \cup Cards]
  BY DEF Shows, ShowError, Skip, Redraw, Answered, ViewsInv, ViewsTypeOK, ListOf, Lists
<1>1. a \in {Failed} \cup Cards /\ a # Nothing
  BY <1>0 DEF Load
<1>2. Failed # {} /\ {} \in Cards
  BY ViewsAssumption DEF Cards
<1>3. load[p].alone => view' = load[p].of
  <2>1. view' = view
    BY DEF Shows, ShowError, Skip, Redraw, Over
  <2> QED
    BY <1>0, <2>1 DEF ViewsInv, AloneDisplayed
<1>4. CASE ShowError(p)
  BY <1>0, <1>2, <1>3, <1>4 DEF ShowError, HandledWell
<1>5. CASE Skip(p)
  <2>1. cards[list] = a /\ a # {} /\ a # Failed /\ cards' = cards
    BY <1>0, <1>1, <1>5 DEF Skip, Same, lists, ViewsInv, SigIsList
  <2> QED
    BY <1>3, <2>1 DEF HandledWell
<1>6. CASE Redraw(p)
  BY <1>0, <1>2, <1>3, <1>6 DEF Redraw, HandledWell
<1> QED
  BY <1>4, <1>5, <1>6 DEF Shows

(* Every answer that is handled is shown, whatever came before it.           *)
THEOREM AnswersShown == ViewsSpec => AnswerShown
<1>1. ASSUME ViewsInv, [ViewsNext]_viewsVars
      PROVE  [\A p \in Loads : Shows(p) => HandledWell(p)]_viewsVars
  BY <1>1, Handling
<1> QED
  BY <1>1, ViewsInductive, PTL DEF ViewsSpec, AnswerShown
=============================================================================
