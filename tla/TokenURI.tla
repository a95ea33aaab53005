------------------------------ MODULE TokenURI ------------------------------
(***************************************************************************)
(* The token URI that POST /files/send writes, ipfs://<cid>?name=<name>, and *)
(* what its two readers make of it and of others: the transaction scanner    *)
(* for the sender (scan/tx_scanner.go), the NFT watcher for the recipient    *)
(* (nftscan/parser.go).                                                     *)
(*                                                                         *)
(* Names are sequences of characters: those that have a meaning in a query,  *)
(* hexadecimal digits, "z" for the rest, "?" for what no name has here, and  *)
(* ".enc" and "document" as one character each.  A URI is its parts:         *)
(*   ipfs   ipfs://cid?name=name       slash  ipfs:/cid?name=name            *)
(*   json   {"name":name,"cid":cid}    pairs  name=name;cid=cid              *)
(*   http   http://host/path?name=name empty                                 *)
(***************************************************************************)
EXTENDS Naturals, SequencesExt

NoCid == 0

URI == [form : {"ipfs", "slash", "json", "pairs", "http", "empty"},
        cid : Nat, name : Seq(STRING)]

Empty == [form |-> "empty", cid |-> NoCid, name |-> <<>>]

-----------------------------------------------------------------------------
(* net/url and strings                                                      *)

Quoted == [c \in {" ", "+", "%", "&"} |->
             CASE c = " " -> <<"+">> [] c = "+" -> <<"%", "2", "B">>
               [] c = "%" -> <<"%", "2", "5">> [] c = "&" -> <<"%", "2", "6">>]
HexDigits == {"2", "5", "6", "B"}

Escaped(c) == IF c \in DOMAIN Quoted THEN Quoted[c] ELSE <<c>>

QueryEscape(s) == FlattenSeq([i \in DOMAIN s |-> Escaped(s[i])])

(* QueryUnescape has no error.                                              *)
WellFormed(s) ==
  \A i \in DOMAIN s : s[i] = "%" => i + 2 <= Len(s) /\ {s[i+1], s[i+2]} \subseteq HexDigits

Coded(h, l) ==
  LET C == {c \in DOMAIN Quoted : Quoted[c] = <<"%", h, l>>}
  IN IF C = {} THEN "?" ELSE CHOOSE c \in C : TRUE

QueryUnescape(s) ==
  LET from[i \in 1 .. Len(s) + 3] ==
        IF i > Len(s) THEN <<>>
        ELSE IF s[i] = "%" THEN <<Coded(s[i+1], s[i+2])>> \o from[i+3]
        ELSE <<IF s[i] = "+" THEN " " ELSE s[i]>> \o from[i+1]
  IN from[1]

UnescapedOrRaw(s) == IF WellFormed(s) THEN QueryUnescape(s) ELSE s

(* URL.Query drops what cannot be unescaped.                                *)
QueryGet(s) == IF WellFormed(s) THEN QueryUnescape(s) ELSE <<>>

TrimSpace(s) ==
  LET I == {i \in DOMAIN s : s[i] # " "}
  IN IF I = {} THEN <<>> ELSE SubSeq(s, Min(I), Max(I))

-----------------------------------------------------------------------------
(* SendFile                                                                 *)

NameEnc(filename) ==
  (IF filename = <<>> THEN <<"document">> ELSE filename) \o <<".enc">>

Unquoted(cid, filename) ==                    \* fault: the name is not escaped
  [form |-> "ipfs", cid |-> cid, name |-> NameEnc(filename)]

TokenURIOf(cid, filename) ==
  [form |-> "ipfs", cid |-> cid, name |-> QueryEscape(NameEnc(filename))]

-----------------------------------------------------------------------------
(* The readers.  A name is text, or the URI itself; a link goes to the        *)
(* gateway, or is the URI itself.                                           *)

NameOr(text, u) == IF TrimSpace(text) = <<>> THEN [uri |-> u] ELSE [text |-> text]
LinkOr(cid, u) == IF cid = NoCid THEN [uri |-> u] ELSE [gateway |-> cid]

(* parseNameCid, extractCID and what ScanTransfers does without a name.      *)
ParseNameCid(u) ==
  [name |-> IF u.form = "json" THEN TrimSpace(u.name)
            ELSE IF u.form \in {"ipfs", "pairs"} THEN TrimSpace(UnescapedOrRaw(u.name))
            ELSE <<>>,
   cid |-> IF u.form \in {"ipfs", "json", "pairs"} THEN u.cid ELSE NoCid]

(* tokenURIToHTTP.                                                          *)
TokenURIToHTTP(u) == IF u.form = "ipfs" THEN [gateway |-> u.cid] ELSE [uri |-> u]

ReadBySender(u) ==
  [name |-> IF u = Empty THEN [text |-> <<"document">>] ELSE NameOr(ParseNameCid(u).name, u),
   cid |-> ParseNameCid(u).cid,
   link |-> TokenURIToHTTP(u)]

(* parseTokenURI: url.Parse rejects json; to it pairs are a path.            *)
ParseTokenURI(u) ==
  [name |-> IF u.form \in {"ipfs", "slash", "http"}
            THEN UnescapedOrRaw(TrimSpace(QueryGet(u.name))) ELSE <<>>,
   cid |-> IF u.form \in {"ipfs", "slash"} THEN u.cid ELSE NoCid]

(* ListByOwner, with ipfsCIDToHTTP.                                         *)
ReadByRecipient(u) ==
  [name |-> NameOr(ParseTokenURI(u).name, u),
   cid |-> ParseTokenURI(u).cid,
   link |-> LinkOr(ParseTokenURI(u).cid, u)]
=============================================================================
