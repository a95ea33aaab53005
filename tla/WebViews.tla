------------------------------ MODULE WebViews ------------------------------
(***************************************************************************)
(* What a tab of the web client shows (frontend/static/index.html): two      *)
(* lists of cards, the documents received and those sent to a contact, of    *)
(* which one is displayed under its title, and one text that both share.    *)
(*                                                                         *)
(* As in WebSession, the code between two awaits is one action.  Accounts    *)
(* and the refresh of tokens are left to that module: here is one account,   *)
(* whose tokens are stored for as long as the tab is in the app.            *)
(***************************************************************************)
EXTENDS Naturals

CONSTANTS
  Contacts,   \* the account's contacts
  Inbound,    \* documents that may be sent to the account
  Outbound,   \* documents that the account may send
  Loads,      \* places for loads under way
  MaxBreaks,  \* bound on errors, lost messages and reloads
  Received,   \* the view of the documents received
  Failed,     \* the answer that is an error
  Nothing

Lists == {"received", "sent"}
Cards == SUBSET (Inbound \cup Outbound)
(* first: the loadReceived that follows the loadContacts of a sign-in or a    *)
(* boot.  of: the view the answer is for.  awaited: siweLogin waits for it,   *)
(* and with it the login button.  alone: history, whether no other load was   *)
(* under way since this one was asked, nor the selection early then.         *)
Load == [kind : {"contacts", "first", "later"}, of : Contacts \cup {Received},
         token : BOOLEAN, awaited : BOOLEAN, answer : {Failed, Nothing} \cup Cards,
         alone : BOOLEAN]

ASSUME BreaksAssumption == MaxBreaks \in Nat
ASSUME ViewsAssumption == /\ Received \notin Contacts
                          /\ Nothing \notin Contacts \cup {Failed}
                          /\ Nothing \notin Load
                          /\ \A s \in Cards : s # Nothing /\ s # Failed

VARIABLES
  inApp,     \* the app is shown and tokens are stored
  sidebar,   \* the contacts are listed
  selected,  \* selectedContact
  view,      \* what the title says, and whose list is displayed
  cards,     \* per list, receivedCards and sentCards
  sig,       \* lastReceivedSig and lastSentSig
  text,      \* messagesEmpty
  timer,     \* nftPollTimer
  load,      \* per place, the load under way
  inbox, outbox, \* the server: documents received, and sent to each contact
  breaks,
  early      \* history: the contact was selected while a loadContacts was under way

server == <<inbox, outbox>>
lists == <<cards, sig>>
viewsVars == <<inApp, sidebar, selected, view, lists, text, timer, load, server, breaks, early>>

ViewsTypeOK ==
  /\ inApp \in BOOLEAN /\ sidebar \in BOOLEAN /\ timer \in BOOLEAN
  /\ early \in BOOLEAN
  /\ selected \in Contacts \cup {Nothing}
  /\ view \in Contacts \cup {Received}
  /\ cards \in [Lists -> Cards]
  /\ sig \in [Lists -> {Nothing} \cup Cards]
  /\ text \in {"start", "loading", "empty", "error", "hidden"}
  /\ load \in [Loads -> Load \cup {Nothing}]
  /\ inbox \in Cards
  /\ outbox \in [Contacts -> Cards]
  /\ breaks \in 0 .. MaxBreaks

NoCards == [l \in Lists |-> {}]
NoSig == [l \in Lists |-> Nothing]

ViewsInit ==
  /\ inApp = FALSE /\ sidebar = FALSE /\ timer = FALSE /\ early = FALSE
  /\ selected = Nothing
  /\ view = Received
  /\ cards = NoCards
  /\ sig = NoSig
  /\ text = "start"
  /\ load = [p \in Loads |-> Nothing]
  /\ inbox = {}
  /\ outbox = [k \in Contacts |-> {}]
  /\ breaks = 0

-----------------------------------------------------------------------------
(* Loads                                                                    *)

Pending == \E p \in Loads : load[p] # Nothing /\ load[p].kind = "contacts"

Asked(p, kind, of, token, awaited) ==
  [kind |-> kind, of |-> of, token |-> token, awaited |-> awaited, answer |-> Nothing,
   alone |-> ~early /\ \A q \in Loads \ {p} : load[q] = Nothing]

Joined(q) == IF load[q] = Nothing THEN Nothing ELSE [load[q] EXCEPT !.alone = FALSE]

Ask(p, kind, of, token, awaited) ==
  load' = [q \in Loads |-> IF q = p THEN Asked(p, kind, of, token, awaited) ELSE Joined(q)]

(* loadReceived up to its await.                                            *)
LoadReceived(p, kind, awaited) ==
  view' = Received /\ Ask(p, kind, Received, inApp, awaited)

(* showSentForSelectedContact up to its await.                              *)
ShowSent(p, k) ==
  /\ text' = "loading"
  /\ Ask(p, "later", k, inApp, FALSE)

Break == breaks < MaxBreaks /\ breaks' = breaks + 1

(* A call without tokens is refused, and made again if there are some by     *)
(* then.                                                                    *)
Answer(p) ==
  /\ load[p] # Nothing
  /\ load[p].answer = Nothing
  /\ load[p].token \/ inApp
  /\ load' = [load EXCEPT ![p].answer = IF load[p].of = Received THEN inbox
                                        ELSE outbox[load[p].of]]
  /\ UNCHANGED <<inApp, sidebar, selected, view, lists, text, timer, server, breaks, early>>

(* A body that cannot be read counts as an empty object, hence as an error   *)
(* without a text or as a list without items.                               *)
AnswerBroken(p) ==
  /\ load[p] # Nothing
  /\ load[p].answer = Nothing
  /\ Break
  /\ \E a \in {Failed, {}} : load' = [load EXCEPT ![p].answer = a]
  /\ UNCHANGED <<inApp, sidebar, selected, view, lists, text, timer, server, early>>

Answered(p, kinds) ==
  load[p] # Nothing /\ load[p].answer # Nothing /\ load[p].kind \in kinds

TimerAfterShown(p) ==   \* fault: an exception of the first load skips startNftPolling
  load[p].kind = "first" /\ load[p].answer # Nothing
TimerAfter(p) == load[p].kind = "first"

(* loadReceived or showSentForSelectedContact returns or throws; polling      *)
(* starts after the first load.                                             *)
Over(p) ==
  /\ load' = [load EXCEPT ![p] = Nothing]
  /\ timer' = (timer \/ TimerAfter(p))
  /\ UNCHANGED <<inApp, sidebar, selected, view, server, early>>

-----------------------------------------------------------------------------
(* renderMessageCards                                                       *)

ListOf(p) == IF load[p].of = Received THEN "received" ELSE "sent"

ShowError(p) ==
  /\ Answered(p, {"first", "later"})
  /\ load[p].answer = Failed
  /\ cards' = [cards EXCEPT ![ListOf(p)] = {}]
  /\ text' = "error"
  /\ Over(p)
  /\ UNCHANGED <<sig, breaks>>

SameSig(l, items) == sig[l] = items       \* fault: no look at childElementCount

Same(l, items) == sig[l] = items /\ cards[l] # {}

Skip(p) ==
  /\ Answered(p, {"first", "later"})
  /\ load[p].answer # Failed
  /\ Same(ListOf(p), load[p].answer)
  /\ Over(p)
  /\ UNCHANGED <<lists, text, breaks>>

Redraw(p) ==
  /\ Answered(p, {"first", "later"})
  /\ load[p].answer # Failed
  /\ ~Same(ListOf(p), load[p].answer)
  /\ sig' = [sig EXCEPT ![ListOf(p)] = load[p].answer]
  /\ cards' = [cards EXCEPT ![ListOf(p)] = load[p].answer]
  /\ text' = IF load[p].answer = {} THEN "empty" ELSE "hidden"
  /\ Over(p)
  /\ UNCHANGED breaks

Shows(p) == ShowError(p) \/ Skip(p) \/ Redraw(p)

(* The call was refused and there are no tokens to refresh, or it is lost.    *)
Throws(p) ==
  /\ load[p] # Nothing
  /\ load[p].answer = Nothing
  /\ \/ ~load[p].token /\ ~inApp /\ UNCHANGED breaks
     \/ Break

Thrown(p) ==
  /\ Throws(p)
  /\ load[p].kind # "contacts"
  /\ Over(p)
  /\ UNCHANGED <<lists, text>>

(* loadContacts returns or throws; loadReceived follows in either case.      *)
FirstReceived(p) ==
  /\ LoadReceived(p, "first", load[p].awaited)
  /\ text' = "loading"
  /\ UNCHANGED <<inApp, selected, lists, timer, server, early>>

ContactsListed(p) ==
  /\ Answered(p, {"contacts"})
  /\ sidebar' = (sidebar \/ load[p].answer # Failed)
  /\ FirstReceived(p)
  /\ UNCHANGED breaks

ContactsThrown(p) ==
  /\ Throws(p)
  /\ load[p].kind = "contacts"
  /\ FirstReceived(p)
  /\ UNCHANGED sidebar

-----------------------------------------------------------------------------
(* Signing in and out, and the boot of the page                             *)

Idle(p) == load[p] = Nothing

(* btnLogin is disabled until siweLogin is over, with the first loads that it *)
(* awaits; those of the boot do not disable it.                             *)
LoginDisabled == \E q \in Loads : load[q] # Nothing /\ load[q].awaited

(* siweLogin from its last answer to the await of loadContacts: the lists,   *)
(* the title and the text stay as they were.                                *)
Login(p) ==
  /\ ~inApp
  /\ ~LoginDisabled
  /\ Idle(p)
  /\ inApp' = TRUE
  /\ selected' = Nothing /\ early' = FALSE
  /\ sig' = NoSig
  /\ Ask(p, "contacts", Received, TRUE, TRUE)
  /\ UNCHANGED <<sidebar, view, cards, text, timer, server, breaks>>

KeptSelected == selected                 \* fault: the selection outlives its view
Deselected == Nothing

Logout ==
  /\ inApp
  /\ inApp' = FALSE
  /\ timer' = FALSE
  /\ selected' = Deselected /\ early' = FALSE
  /\ sig' = NoSig
  /\ cards' = NoCards
  /\ UNCHANGED <<sidebar, view, text, load, server, breaks>>

Boot(p) ==
  /\ Break
  /\ sidebar' = FALSE /\ timer' = FALSE
  /\ selected' = Nothing /\ early' = FALSE
  /\ view' = Received
  /\ cards' = NoCards
  /\ sig' = NoSig
  /\ text' = "start"
  /\ load' = [q \in Loads |->
               IF q = p /\ inApp
               THEN [Asked(p, "contacts", Received, TRUE, FALSE) EXCEPT !.alone = TRUE]
               ELSE Nothing]
  /\ UNCHANGED <<inApp, server>>

-----------------------------------------------------------------------------
(* What the user and the timer do                                           *)

Click(p, k) ==
  /\ inApp /\ sidebar
  /\ Idle(p)
  /\ selected' = k /\ early' = Pending
  /\ view' = k
  /\ cards' = NoCards
  /\ ShowSent(p, k)
  /\ UNCHANGED <<inApp, sidebar, sig, timer, server, breaks>>

ClickReceived(p) ==
  /\ inApp
  /\ Idle(p)
  /\ selected' = Deselected /\ early' = FALSE
  /\ sig' = [sig EXCEPT !["sent"] = Nothing]
  /\ LoadReceived(p, "later", FALSE)
  /\ text' = "loading"
  /\ UNCHANGED <<inApp, sidebar, cards, timer, server, breaks>>

RefreshReceived(p) ==
  /\ Idle(p)
  /\ selected = Nothing
  /\ LoadReceived(p, "later", FALSE)
  /\ UNCHANGED <<inApp, sidebar, selected, lists, text, timer, server, breaks, early>>

Poll(p) == timer /\ RefreshReceived(p)

BecomesVisible(p) == inApp /\ RefreshReceived(p)

(* A transfer is final, and doSendFlow refreshes whatever is viewed by then:  *)
(* it began in the app, where the page has been or is.                       *)
Sent(k, d) ==
  /\ inApp \/ sidebar
  /\ \A c \in Contacts : d \notin outbox[c]
  /\ outbox' = [outbox EXCEPT ![k] = @ \cup {d}]
  /\ UNCHANGED inbox

SentSelected(p, k, d) ==
  /\ Idle(p)
  /\ Sent(k, d)
  /\ selected # Nothing
  /\ cards' = [cards EXCEPT !["sent"] = {}]
  /\ ShowSent(p, selected)
  /\ UNCHANGED <<inApp, sidebar, selected, view, sig, timer, breaks, early>>

SentOther(p, k, d) ==
  /\ Idle(p)
  /\ Sent(k, d)
  /\ selected = Nothing
  /\ LoadReceived(p, "later", FALSE)
  /\ UNCHANGED <<inApp, sidebar, selected, lists, text, timer, breaks, early>>

(* addContact, whose calls change nothing until loadContacts, which nothing   *)
(* follows here, has listed the contacts.                                   *)
AddContact ==
  /\ inApp
  /\ sidebar' = TRUE
  /\ UNCHANGED <<inApp, selected, view, lists, text, timer, load, server, breaks, early>>

Arrive(d) ==
  /\ d \notin inbox
  /\ inbox' = inbox \cup {d}
  /\ UNCHANGED <<inApp, sidebar, selected, view, lists, text, timer, load,
                 outbox, breaks, early>>

-----------------------------------------------------------------------------
(* What happens to a load without anybody's doing.                          *)
Advance(p) == \/ Answer(p) \/ Shows(p) \/ ContactsListed(p)
              \/ Thrown(p) \/ ContactsThrown(p)

Acts(p) == \/ Login(p) \/ Boot(p) \/ ClickReceived(p) \/ Poll(p) \/ BecomesVisible(p)
           \/ \E k \in Contacts : Click(p, k)
           \/ \E k \in Contacts, d \in Outbound : SentSelected(p, k, d) \/ SentOther(p, k, d)

ViewsNext == \/ \E p \in Loads : Advance(p) \/ AnswerBroken(p) \/ Acts(p)
             \/ Logout \/ AddContact
             \/ \E d \in Inbound : Arrive(d)

ViewsSpec == ViewsInit /\ [][ViewsNext]_viewsVars

(* Calls end and their answers are handled; the timer of a visible tab fires *)
(* for as long as it is set.                                                *)
FairViews == /\ ViewsSpec
             /\ \A p \in Loads : WF_viewsVars(Advance(p)) /\ WF_viewsVars(Poll(p))

-----------------------------------------------------------------------------
(* Properties                                                               *)

(* When an answer is handled, its list holds what it says, whatever the      *)
(* comparison of signatures skips and whoever emptied the list meanwhile; an  *)
(* error is told, and so is an empty list; and "loading" stays only over a    *)
(* list that did not change.  If no other load was under way meanwhile, the   *)
(* list is displayed, under its own title (renderMessageCards,               *)
(* loadReceived, showSentForSelectedContact).                               *)
HandledWell(p) ==
  LET a == load[p].answer
      list == ListOf(p)
  IN /\ cards'[list] = IF a = Failed THEN {} ELSE a
     /\ a = Failed => text' = "error"
     /\ a = {} => text' = "empty"
     /\ text' \in {"start", "loading"} => cards[list] = a
     /\ load[p].alone => view' = load[p].of

AnswerShown == [][\A p \in Loads : Shows(p) => HandledWell(p)]_viewsVars

(* In the app the title is that of the selected contact, or of the documents *)
(* received if none is selected, as soon as no contacts are being loaded; a   *)
(* contact that was selected while they were is the exception: its selection *)
(* stays, and the list of received documents replaces its list              *)
(* (siweLogin and the boot do not ask what is selected when loadContacts     *)
(* is over).                                                                *)
ViewIsSelected ==
  inApp => IF selected = Nothing THEN Pending \/ view = Received
           ELSE view \in {selected, Received} /\ (~early => view = selected)

(* While nothing is selected the list of received documents comes to be      *)
(* displayed and to hold what the server has, whatever was answered late,    *)
(* failed or got lost before (startNftPolling, loadReceived).               *)
ComesToShowReceived ==
  <>[](inApp /\ selected = Nothing)
    => <>[](view = Received /\ cards["received"] = inbox)

-----------------------------------------------------------------------------
(* What a signature stands for is what its list holds, unless it is empty.   *)
SigIsList == \A l \in Lists : sig[l] # Nothing /\ cards[l] # {} => cards[l] = sig[l]

(* A contact is selected in the app only, and, unless it was selected early,  *)
(* no loadContacts is under way that could replace its view.                *)
SelectedAfter == selected # Nothing => inApp /\ (~early => ~Pending)

(* A load that no other joined is the only one, and its view is displayed.   *)
AloneDisplayed ==
  \A p \in Loads : load[p] # Nothing /\ load[p].alone =>
    /\ \A q \in Loads \ {p} : load[q] = Nothing
    /\ load[p].kind # "contacts" => view = load[p].of

ViewsInv == /\ ViewsTypeOK
            /\ SigIsList
            /\ SelectedAfter
            /\ AloneDisplayed
            /\ ViewIsSelected
=============================================================================
