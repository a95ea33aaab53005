----------------------------- MODULE MCReading -----------------------------
(* RpcClients, WebViews and Documents on small instances.  The three share    *)
(* nothing: which of them moves is chosen in the beginning, so that the       *)
(* states are those of each, one after the other.                           *)
EXTENDS RpcClients, WebViews, Documents

VARIABLE part

Init3 == /\ part \in {"rpc clients", "views", "documents"}
         /\ Init
         /\ ViewsInit
         /\ DocsInit

Next3 == \/ part = "rpc clients" /\ Next /\ UNCHANGED <<part, viewsVars, docsVars>>
         \/ part = "views" /\ ViewsNext /\ UNCHANGED <<part, vars, docsVars>>
         \/ part = "documents" /\ DocsNext /\ UNCHANGED <<part, vars, viewsVars>>

(* A part that does not move enables none of the steps that fairness names.   *)
Spec3 == /\ Init3 /\ [][Next3]_<<part, vars, viewsVars, docsVars>>
         /\ \A r \in Requests : SF_vars(Step(r))
         /\ \A p \in Loads : WF_viewsVars(Advance(p)) /\ WF_viewsVars(Poll(p))

CONSTANTS r1, r2, r3, n1, n2, k1, k2, d1, d2, p1, p2

-----------------------------------------------------------------------------
(* Documents: nets with two spellings, windows that fit and that do not fit   *)
(* uint64 (which counts to 8), files whose names hold every kind of escape.   *)
U(form, cid, name) == [form |-> form, cid |-> cid, name |-> name]
Plain == [bridge |-> "b1", sender |-> "me", signer |-> "me", direct |-> TRUE,
          recipient |-> "k1", nft |-> "ours", uri |-> U("ipfs", 9, <<"z">>), token |-> Empty]
MCNorm == [sepolia |-> "sepolia"] @@ ("Sepolia " :> "sepolia") @@ [goerli |-> "goerli"] @@ (" " :> "")
Env == [dsn |-> "dsn", secret |-> "s", rpcUrls |-> << <<1, "u1">>, <<1, "u2">> >>,
        bridges |-> << <<"sepolia", "b1">>, <<"goerli", "b2">> >>,
        rpcs |-> [sepolia |-> "u1", goerli |-> "u2"], window |-> NoValue]
MCWindows == {[Env EXCEPT !.window = w] : w \in {NoValue, 10}}
MCEnvironments == MCWindows
  \cup {[Env EXCEPT !.window = 8], [Env EXCEPT !.window = 0-1],
        [Env EXCEPT !.dsn = NoValue], [Env EXCEPT !.secret = NoValue],
        [Env EXCEPT !.rpcUrls = <<>>], [Env EXCEPT !.rpcUrls = << <<1, NoValue>> >>],
        [Env EXCEPT !.rpcs = NoValue], [Env EXCEPT !.rpcs = [goerli |-> NoValue]],
        [Env EXCEPT !.rpcs = ("Sepolia " :> "u1") @@ [sepolia |-> "u2"]],
        [Env EXCEPT !.bridges = << <<"Sepolia ", "b2">> >>],
        [Env EXCEPT !.bridges = << <<"Sepolia ", "b2">>, <<"sepolia", "b1">> >>],
        [Env EXCEPT !.bridges = << <<"sepolia", "b1">>, <<"Sepolia ", "b2">> >>],
        [Env EXCEPT !.bridges = << <<" ", "b1">> >>],
        [Env EXCEPT !.bridges = << <<"goerli", NoValue>> >>],
        [Env EXCEPT !.bridges = <<>>]}
MCLength == [e \in MCEnvironments |-> IF e \in MCWindows THEN 2
                                       ELSE IF e.window # NoValue THEN 1 ELSE 0]
MCFilesIn ==
  << { <<>>, <<"z">>, <<" ", "z">>, <<" ">>, <<"z", "+">>,
       <<"%">>, <<"%", "2", "z">>, <<"%", "2", "5">>, <<"%", "2", "B">>,
       <<"%", "5", "5", "z">>, <<"%", "%", "2", "5">>, <<"%", "+">>, <<"&", "z">> },
     { <<"z">> } >>
MCOthersIn ==
  LET Foreign == [Plain EXCEPT !.sender = "you", !.signer = "you"]
  IN << {Plain, Foreign, [Plain EXCEPT !.signer = "you"], [Plain EXCEPT !.sender = "you"],
         [Plain EXCEPT !.direct = FALSE], [Plain EXCEPT !.bridge = "b2"],
         [Plain EXCEPT !.recipient = "k2"], [Plain EXCEPT !.nft = "theirs"],
         [Plain EXCEPT !.uri = Empty], [Plain EXCEPT !.uri = Empty, !.token = Plain.uri],
         [Plain EXCEPT !.uri = U("json", 9, <<"%", "2", "5">>)],
         [Plain EXCEPT !.uri = U("pairs", 9, <<"%", "2", "5">>)],
         [Plain EXCEPT !.uri = U("slash", 9, <<"z">>)],
         [Plain EXCEPT !.uri = U("http", 0, <<"%">>)]},
        {Plain, [Plain EXCEPT !.recipient = "k2"]} >>
MCQuestions ==
  LET Q == [recipient |-> "k1", network |-> "sepolia", from |-> 0, to |-> 0, nft |-> NoValue]
  IN {[Q EXCEPT !.from = f, !.to = t] : f \in {0, 1, 3}, t \in {0, 1, 7}}
     \cup {[Q EXCEPT !.network = s] : s \in Spellings}
     \cup {[Q EXCEPT !.recipient = Zero], [Q EXCEPT !.nft = "ours"]}
=============================================================================
