---------------------------- MODULE DocumentsProofs ----------------------------
(*****************************************************************************)
(* What requests about documents are answered, for any modulus of the        *)
(* arithmetic, any window, any chain, any names of files and any environment: *)
(* a scan lists what it was asked about, sorted (ScansAnswer); a document is *)
(* read as it was sent (ReadAsSent); a network leads to one bridge           *)
(* (NetworksFound).                                                          *)
(*                                                                           *)
(* The invariant of the state is small (DocsInv: what the configuration, the *)
(* chain and an answer are made from).  The rest is about data: what         *)
(* unescaping does to what was escaped, the map that pairs make, and that a  *)
(* sorted list of items exists.  Induction is on sets of numbers: a property *)
(* of numbers is the set of those that have it, and a nonempty set of numbers *)
(* has a least element.                                                      *)
(*****************************************************************************)
EXTENDS Documents, FiniteSetTheorems, SequenceTheorems, TLAPS

-----------------------------------------------------------------------------
(* Numbers and sequences                                                     *)

(* Induction.  The principle for an operator is out of the provers' reach;   *)
(* that a set of natural numbers has a least element is not, and gives       *)
(* induction for a property that is the set of numbers that have it.         *)
LEMMA LeastOf ==
  ASSUME NEW T, T \subseteq Nat, T # {}
  PROVE  \E x \in T : \A y \in T : x <= y
<1> DEFINE R == {ss \in Nat \X Nat : ss[1] < ss[2]}
<1>1. IsWellFoundedOn(R, Nat)
  BY NatLessThanWellFounded DEF OpToRel
<1>2. \A x, y \in Nat : <<y, x>> \notin R => x <= y
  OBVIOUS
<1> HIDE DEF R
<1>3. PICK x \in T : \A y \in T : <<y, x>> \notin R
  BY <1>1, WFMin
<1> QED
  BY <1>2, <1>3

LEMMA Induct ==
  ASSUME NEW P, 0 \in P, \A n \in Nat : n \in P => n + 1 \in P
  PROVE  \A n \in Nat : n \in P
<1> SUFFICES ASSUME NEW m \in Nat, m \notin P PROVE FALSE
  OBVIOUS
<1> DEFINE T == Nat \ P
<1>1. PICK x \in T : \A y \in T : x <= y
  <2>1. T \subseteq Nat /\ T # {}
    OBVIOUS
  <2> HIDE DEF T
  <2> QED
    BY <2>1, LeastOf
<1>2. x \in Nat /\ x # 0 /\ x \notin P
  OBVIOUS
<1>3. x - 1 \in Nat /\ x - 1 \in P
  BY <1>1, <1>2
<1>4. (x - 1) + 1 \in P
  BY <1>3
<1> QED
  BY <1>2, <1>4

(* What Min and Max choose.                                                  *)
LEMMA MinOf ==
  ASSUME NEW s, s \subseteq Nat, s # {}
  PROVE  Min(s) \in s /\ \A y \in s : Min(s) <= y
<1>1. \E x \in s : \A y \in s : x =< y
  BY LeastOf
<1> QED
  BY <1>1 DEF Min

LEMMA MaxOf ==
  ASSUME NEW n \in Nat, NEW s, s \subseteq 0 .. n, s # {}
  PROVE  Max(s) \in s /\ \A y \in s : Max(s) >= y
<1> DEFINE T == {n - x : x \in s}
<1>1. T \subseteq Nat /\ T # {}
  <2>1. \A x \in s : n - x \in Nat
    OBVIOUS
  <2> QED
    BY <2>1
<1>2. PICK t \in T : \A u \in T : t <= u
  <2> HIDE DEF T
  <2> QED
    BY <1>1, LeastOf
<1>3. PICK x \in s : t = n - x
  OBVIOUS
<1>4. \A y \in s : n - x <= n - y
  BY <1>2, <1>3
<1>5. \A y \in s : x >= y
  BY <1>4
<1> QED
  BY <1>5 DEF Max

LEMMA MaxIs ==
  ASSUME NEW n \in Nat, NEW s, s \subseteq 1 .. n, s # {}, NEW x \in s, \A y \in s : y <= x
  PROVE  Max(s) = x
<1>1. s \subseteq 0 .. n
  OBVIOUS
<1>2. Max(s) \in s /\ \A y \in s : Max(s) >= y
  BY <1>1, MaxOf
<1> DEFINE m == Max(s)
<1> HIDE DEF m
<1>3. m \in 1 .. n /\ x \in 1 .. n /\ m <= x /\ m >= x
  BY <1>2 DEF m
<1>4. m = x
  BY <1>3
<1> QED
  BY <1>4 DEF m

(* From the end of a sequence to its beginning.                              *)
LEMMA InductDown ==
  ASSUME NEW n \in Nat, NEW P, \A i \in 1 .. n : (\A j \in i + 1 .. n : j \in P) => i \in P
  PROVE  \A i \in 1 .. n : i \in P
<1> DEFINE T == {i \in 1 .. n : i \notin P}
<1> SUFFICES ASSUME T # {} PROVE FALSE
  OBVIOUS
<1>1. Max(T) \in T /\ \A j \in T : Max(T) >= j
  <2>1. T \subseteq 0 .. n
    OBVIOUS
  <2> HIDE DEF T
  <2> QED
    BY <2>1, MaxOf
<1> DEFINE m == Max(T)
<1> HIDE DEF m
<1>2. m \in 1 .. n /\ m \notin P /\ \A j \in T : m >= j
  BY <1>1 DEF m
<1>3. \A j \in m + 1 .. n : j \in P
  BY <1>2
<1> QED
  BY <1>2, <1>3

(* FlattenSeq, prefix by prefix.                                             *)
LEMMA Flattening ==
  ASSUME NEW S, NEW seqs \in Seq(Seq(S))
  PROVE  \E flat \in [0 .. Len(seqs) -> Seq(S)] :
           /\ flat[0] = <<>>
           /\ \A k \in 1 .. Len(seqs) : flat[k] = flat[k-1] \o seqs[k]
           /\ FlattenSeq(seqs) = flat[Len(seqs)]
<1> DEFINE n == Len(seqs)
           D == 1 .. n
           Step(g, i) == IF i = 1 THEN seqs[i] ELSE g[i-1] \o seqs[i]
<1>1. n \in Nat /\ \A i \in D : seqs[i] \in Seq(S)
  OBVIOUS
<1>2. CASE n = 0
  <2>1. seqs = <<>> /\ FlattenSeq(seqs) = seqs
    BY <1>2 DEF FlattenSeq
  <2> DEFINE flat == [k \in 0 .. n |-> <<>>]
  <2>2. flat \in [0 .. n -> Seq(S)] /\ flat[0] = <<>> /\ flat[n] = FlattenSeq(seqs)
    BY <1>2, <2>1
  <2>3. 1 .. n = {}
    BY <1>2
  <2> HIDE DEF flat
  <2> QED
    BY <2>2, <2>3
<1>3. CASE n # 0
  <2> DEFINE flatten == CHOOSE g : g = [i \in D |-> Step(g, i)]
             Good(g, k) == \A i \in 1 .. k : g[i] = Step(g, i)
             P == {k \in Nat : k <= n => \E g \in [D -> Seq(S)] : Good(g, k)}
  <2>1. FlattenSeq(seqs) = flatten[n]
    BY <1>3 DEF FlattenSeq
  <2>2. \A i \in D, a \in Seq(S) : a \o seqs[i] \in Seq(S)
    BY <1>1
  <2> HIDE DEF n
  <2>3. 0 \in P
    <3>1. [i \in D |-> <<>>] \in [D -> Seq(S)]
      OBVIOUS
    <3>2. \A g : Good(g, 0)
      OBVIOUS
    <3> QED
      BY <3>1, <3>2
  <2>4. ASSUME NEW k \in Nat, k \in P PROVE k + 1 \in P
    <3> SUFFICES ASSUME k + 1 <= n PROVE \E g \in [D -> Seq(S)] : Good(g, k + 1)
      OBVIOUS
    <3>1. PICK g \in [D -> Seq(S)] : Good(g, k)
      BY <1>1, <2>4
    <3> DEFINE new == Step(g, k + 1)
               h == [g EXCEPT ![k+1] = new]
    <3>2. k + 1 \in D /\ (k + 1 # 1 => k \in D)
      BY <1>1
    <3>3. new \in Seq(S)
      <4>1. CASE k + 1 = 1
        BY <1>1, <3>2, <4>1
      <4>2. CASE k + 1 # 1
        BY <2>2, <3>2, <4>2
      <4> QED
        BY <4>1, <4>2
    <3>4. Good(h, k + 1)
      <4> SUFFICES ASSUME NEW i \in 1 .. k + 1 PROVE h[i] = Step(h, i)
        OBVIOUS
      <4>1. i - 1 # k + 1 /\ h[i-1] = g[i-1]
        OBVIOUS
      <4>2. Step(h, i) = Step(g, i)
        BY <4>1
      <4>3. CASE i = k + 1
        BY <3>2, <4>2, <4>3
      <4>4. CASE i # k + 1
        BY <3>1, <4>2, <4>4
      <4> QED
        BY <4>3, <4>4
    <3>5. h \in [D -> Seq(S)]
      <4> HIDE DEF new
      <4> QED
        BY <3>3
    <3> HIDE DEF h, Good
    <3> QED
      BY <3>4, <3>5
  <2>5. n \in P
    <3> HIDE DEF P
    <3> QED
      BY <1>1, <2>3, <2>4, Induct, Zenon
  <2>6. flatten = [i \in D |-> Step(flatten, i)]
    <3>0. \E g \in [D -> Seq(S)] : Good(g, n)
      <4> HIDE DEF Good
      <4> QED
        BY <1>1, <2>5
    <3>1. PICK g \in [D -> Seq(S)] : \A i \in D : g[i] = Step(g, i)
      BY <3>0
    <3>2. g = [i \in D |-> Step(g, i)]
      BY <3>1
    <3> QED
      BY <3>2, Zenon
  <2> HIDE DEF flatten
  <2>7. \A i \in D : flatten[i] = Step(flatten, i)
    BY <2>6
  <2> DEFINE Q == {k \in Nat : k \in D => flatten[k] \in Seq(S)}
  <2>8. 0 \in Q
    OBVIOUS
  <2>9. ASSUME NEW k \in Nat, k \in Q PROVE k + 1 \in Q
    <3> SUFFICES ASSUME k + 1 \in D PROVE flatten[k+1] \in Seq(S)
      OBVIOUS
    <3>1. CASE k = 0
      BY <1>1, <2>7, <3>1
    <3>2. CASE k # 0
      <4>1. k \in D /\ flatten[k] \in Seq(S)
        BY <1>1, <2>9, <3>2
      <4>2. flatten[k+1] = flatten[k] \o seqs[k+1]
        <5>1. (k + 1) - 1 = k /\ k + 1 # 1
          BY <3>2
        <5>2. flatten[k+1] = flatten[(k+1)-1] \o seqs[k+1]
          BY <2>7, <5>1
        <5> QED
          BY <5>1, <5>2
      <4> QED
        BY <2>2, <4>1, <4>2
    <3> QED
      BY <3>1, <3>2
  <2>10. \A k \in Nat : k \in Q
    <3> HIDE DEF Q
    <3> QED
      BY <2>8, <2>9, Induct
  <2> DEFINE flat == [k \in 0 .. n |-> IF k = 0 THEN <<>> ELSE flatten[k]]
  <2>11. flat \in [0 .. n -> Seq(S)]
    BY <2>10
  <2>12. ASSUME NEW k \in 1 .. n PROVE flat[k] = flat[k-1] \o seqs[k]
    <3>1. k - 1 \in 0 .. n
      BY <1>1
    <3>2. CASE k = 1
      <4>1. flat[k-1] = <<>> /\ flat[k] = seqs[k]
        BY <1>1, <2>7, <3>1, <3>2
      <4>2. <<>> \o seqs[k] = seqs[k]
        BY <1>1, ConcatEmptySeq
      <4> QED
        BY <4>1, <4>2
    <3>3. CASE k # 1
      <4>1. flat[k-1] = flatten[k-1] /\ flat[k] = flatten[k]
        BY <1>1, <3>1, <3>3
      <4>2. flatten[k] = flatten[k-1] \o seqs[k]
        BY <2>7, <3>3
      <4> QED
        BY <4>1, <4>2
    <3> QED
      BY <3>2, <3>3
  <2>13. flat[0] = <<>> /\ flat[n] = FlattenSeq(seqs)
    BY <1>1, <1>3, <2>1
  <2> HIDE DEF flat
  <2> QED
    BY <2>11, <2>12, <2>13 DEF n
<1> QED
  BY <1>2, <1>3

LEMMA FlattenAppend ==
  ASSUME NEW S, NEW ss \in Seq(Seq(S)), NEW x \in Seq(S)
  PROVE  /\ FlattenSeq(ss) \in Seq(S)
         /\ FlattenSeq(Append(ss, x)) = FlattenSeq(ss) \o x
<1> DEFINE n == Len(ss)
           tt == Append(ss, x)
<1>1. /\ n \in Nat /\ Len(tt) = n + 1 /\ tt[n+1] = x
      /\ tt \in Seq(Seq(S)) /\ \A k \in 1 .. n : tt[k] = ss[k]
  OBVIOUS
<1>2. PICK f \in [0 .. n -> Seq(S)] :
        /\ f[0] = <<>>
        /\ \A k \in 1 .. n : f[k] = f[k-1] \o ss[k]
        /\ FlattenSeq(ss) = f[n]
  BY Flattening
<1> HIDE DEF tt, n
<1>3. PICK g \in [0 .. n + 1 -> Seq(S)] :
        /\ g[0] = <<>>
        /\ \A k \in 1 .. n + 1 : g[k] = g[k-1] \o tt[k]
        /\ FlattenSeq(tt) = g[n+1]
  <2>1. \E g \in [0 .. Len(tt) -> Seq(S)] :
          /\ g[0] = <<>>
          /\ \A k \in 1 .. Len(tt) : g[k] = g[k-1] \o tt[k]
          /\ FlattenSeq(tt) = g[Len(tt)]
    BY <1>1, Flattening
  <2> QED
    BY <1>1, <2>1
<1> DEFINE P == {k \in Nat : k <= n => g[k] = f[k]}
<1>4. 0 \in P
  BY <1>2, <1>3
<1>5. ASSUME NEW k \in Nat, k \in P PROVE k + 1 \in P
  <2> SUFFICES ASSUME k + 1 <= n PROVE g[k+1] = f[k+1]
    OBVIOUS
  <2>1. k + 1 \in 1 .. n /\ k + 1 \in 1 .. n + 1 /\ (k + 1) - 1 = k /\ k <= n
    BY <1>1
  <2>2. g[k] = f[k]
    BY <1>5, <2>1
  <2>3. g[k+1] = g[(k+1)-1] \o tt[k+1] /\ f[k+1] = f[(k+1)-1] \o ss[k+1]
    BY <1>2, <1>3, <2>1
  <2> QED
    BY <1>1, <2>1, <2>2, <2>3
<1>6. n \in P
  <2> HIDE DEF P
  <2> QED
    BY <1>1, <1>4, <1>5, Induct
<1>7. g[n] = f[n] /\ f[n] \in Seq(S)
  BY <1>1, <1>2, <1>6
<1>8. g[n+1] = g[n] \o x
  <2>1. n + 1 \in 1 .. n + 1 /\ (n + 1) - 1 = n
    BY <1>1
  <2>2. g[n+1] = g[(n+1)-1] \o tt[n+1]
    BY <1>3, <2>1
  <2> QED
    BY <1>1, <2>1, <2>2
<1> QED
  BY <1>2, <1>3, <1>7, <1>8 DEF tt

-----------------------------------------------------------------------------
(* Escaping and unescaping                                                   *)

(* The characters that are told apart.                                       *)
Special == {" ", "+", "%", "&", "2", "5", "6", "B", "?"}

(* What becomes of a character, over any alphabet that has the special ones. *)
LEMMA EscapedIs ==
  ASSUME NEW A, Special \subseteq A, NEW c \in A
  PROVE  /\ Escaped(c) \in Seq(A)
         /\ c = " " => Escaped(c) = <<"+">>
         /\ c = "+" => Escaped(c) = <<"%", "2", "B">>
         /\ c = "%" => Escaped(c) = <<"%", "2", "5">>
         /\ c = "&" => Escaped(c) = <<"%", "2", "6">>
         /\ c \notin {" ", "+", "%", "&"} => Escaped(c) = <<c>>
<1>1. /\ c = " " => Escaped(c) = <<"+">>
      /\ c = "+" => Escaped(c) = <<"%", "2", "B">>
      /\ c = "%" => Escaped(c) = <<"%", "2", "5">>
      /\ c = "&" => Escaped(c) = <<"%", "2", "6">>
      /\ c \notin {" ", "+", "%", "&"} => Escaped(c) = <<c>>
  BY DEF Escaped, Quoted
<1>2. \A a \in A : <<a>> \in Seq(A)
  OBVIOUS
<1>3. \A x, y, z \in A : <<x, y, z>> \in Seq(A)
  OBVIOUS
<1>4. "+" \in A /\ "%" \in A /\ "2" \in A /\ "B" \in A /\ "5" \in A /\ "6" \in A
  BY DEF Special
<1> QED
  BY <1>1, <1>2, <1>3, <1>4

(* QueryEscape, a character at a time.                                       *)
LEMMA EscapeAppend ==
  ASSUME NEW A, Special \subseteq A, NEW s \in Seq(A), NEW c \in A
  PROVE  /\ QueryEscape(s) \in Seq(A)
         /\ QueryEscape(<<>>) = <<>>
         /\ QueryEscape(Append(s, c)) = QueryEscape(s) \o Escaped(c)
<1> DEFINE ss == [i \in DOMAIN s |-> Escaped(s[i])]
           tt == [i \in DOMAIN Append(s, c) |-> Escaped(Append(s, c)[i])]
<1>1. ss \in Seq(Seq(A)) /\ Len(ss) = Len(s)
  <2>1. ASSUME NEW i \in 1 .. Len(s) PROVE Escaped(s[i]) \in Seq(A)
    <3>1. s[i] \in A
      OBVIOUS
    <3> QED
      BY <3>1, EscapedIs
  <2>2. Len(s) \in Nat /\ DOMAIN s = 1 .. Len(s)
    OBVIOUS
  <2> QED
    BY <2>1, <2>2
<1>2. Escaped(c) \in Seq(A)
  BY EscapedIs
<1>3. tt = Append(ss, Escaped(c))
  <2>1. Append(s, c) \in Seq(A) /\ Len(Append(s, c)) = Len(s) + 1
    OBVIOUS
  <2>2. Append(s, c)[Len(s) + 1] = c /\ \A i \in 1 .. Len(s) : Append(s, c)[i] = s[i]
    OBVIOUS
  <2>3. Len(s) \in Nat /\ DOMAIN s = 1 .. Len(s) /\ DOMAIN Append(s, c) = 1 .. Len(s) + 1
    OBVIOUS
  <2> QED
    BY <1>1, <1>2, <2>2, <2>3
<1>4. FlattenSeq(ss) \in Seq(A) /\ FlattenSeq(tt) = FlattenSeq(ss) \o Escaped(c)
  <2> HIDE DEF ss, tt
  <2> QED
    BY <1>1, <1>2, <1>3, FlattenAppend
<1>5. QueryEscape(<<>>) = <<>>
  <2>1. [i \in DOMAIN <<>> |-> Escaped((<<>>)[i])] = <<>>
    OBVIOUS
  <2> QED
    BY <2>1 DEF QueryEscape, FlattenSeq
<1> QED
  BY <1>4, <1>5 DEF QueryEscape

(* QueryUnescape, a step of its recursion at a time: the entry of f at i is the *)
(* text from there on.                                                       *)
Spaced(c) == IF c = "+" THEN " " ELSE c

Before(c, t) == <<c>> \o t

Unescaped(s, g, i) ==
  IF i > Len(s) THEN <<>>
  ELSE IF s[i] = "%" THEN Before(Coded(s[i+1], s[i+2]), g[i+3])
  ELSE Before(Spaced(s[i]), g[i+1])

Unescapes(s, f) ==
  /\ \A i \in Len(s) + 1 .. Len(s) + 3 : f[i] = <<>>
  /\ \A i \in 1 .. Len(s) : s[i] = "%" => f[i] = Before(Coded(s[i+1], s[i+2]), f[i+3])
  /\ \A i \in 1 .. Len(s) : s[i] # "%" => f[i] = Before(Spaced(s[i]), f[i+1])

LEMMA UnescapingIs ==
  ASSUME NEW s, NEW f, Len(s) \in Nat, \A i \in 1 .. Len(s) + 3 : f[i] = Unescaped(s, f, i)
  PROVE  Unescapes(s, f)
<1> DEFINE n == Len(s)
<1>1. n \in Nat /\ \A i \in 1 .. n + 3 : f[i] = Unescaped(s, f, i)
  OBVIOUS
<1>2. Len(s) = n
  OBVIOUS
<1> HIDE DEF n
<1>3. /\ \A i \in n + 1 .. n + 3 : f[i] = <<>>
      /\ \A i \in 1 .. n : s[i] = "%" => f[i] = Before(Coded(s[i+1], s[i+2]), f[i+3])
      /\ \A i \in 1 .. n : s[i] # "%" => f[i] = Before(Spaced(s[i]), f[i+1])
  BY <1>1, <1>2 DEF Unescaped
<1> QED
  BY <1>2, <1>3 DEF Unescapes

LEMMA BeforeIs ==
  ASSUME NEW A, NEW c \in A, NEW t \in Seq(A)
  PROVE  /\ Before(c, t) \in Seq(A)
         /\ Len(Before(c, t)) = 1 + Len(t)
         /\ Before(c, t)[1] = c
         /\ \A i \in 1 .. Len(t) : Before(c, t)[i+1] = t[i]
  BY DEF Before

LEMMA BeforeConcat ==
  ASSUME NEW A
  PROVE  \A c \in A, t, u \in Seq(A) : Before(c, t) \o u = Before(c, t \o u)
<1>1. \A c \in A : <<c>> \in Seq(A)
  OBVIOUS
<1> QED
  BY <1>1, ConcatAssociative DEF Before

LEMMA CodedIs ==
  /\ \A h, l : Coded(h, l) \in Special
  /\ Coded("2", "B") = "+" /\ Coded("2", "5") = "%" /\ Coded("2", "6") = "&"
<1> DEFINE C(h, l) == {c \in DOMAIN Quoted : Quoted[c] = <<"%", h, l>>}
<1>1. ASSUME NEW h, NEW l PROVE Coded(h, l) \in Special
  <2>1. C(h, l) \subseteq Special
    BY DEF Quoted, Special
  <2>2. "?" \in Special
    BY DEF Special
  <2> QED
    BY <2>1, <2>2 DEF Coded
<1>2. C("2", "B") = {"+"}
  BY DEF Quoted
<1>3. C("2", "5") = {"%"}
  BY DEF Quoted
<1>4. C("2", "6") = {"&"}
  BY DEF Quoted
<1> QED
  BY <1>1, <1>2, <1>3, <1>4 DEF Coded

(* Each entry is a text, if the later ones are.                              *)
LEMMA UnescapedIn ==
  ASSUME NEW A, Special \subseteq A, NEW s \in Seq(A), NEW i \in 1 .. Len(s) + 3, NEW g,
         \A j \in i + 1 .. Len(s) + 3 : g[j] \in Seq(A)
  PROVE  Unescaped(s, g, i) \in Seq(A)
<1>1. CASE i > Len(s)
  BY <1>1 DEF Unescaped
<1>2. CASE ~(i > Len(s))
  <2>0. i \in 1 .. Len(s) /\ Len(s) \in Nat
    BY <1>2
  <2>1. Spaced(s[i]) \in A /\ Coded(s[i+1], s[i+2]) \in A
    <3>1. s[i] \in A
      BY <2>0
    <3>2. " " \in A
      BY DEF Special
    <3> QED
      BY <3>1, <3>2, CodedIs DEF Spaced
  <2>2. g[i+1] \in Seq(A) /\ g[i+3] \in Seq(A)
    BY <2>0
  <2>3. /\ Before(Spaced(s[i]), g[i+1]) \in Seq(A)
        /\ Before(Coded(s[i+1], s[i+2]), g[i+3]) \in Seq(A)
    BY <2>1, <2>2, BeforeIs
  <2> QED
    BY <1>2, <2>3 DEF Unescaped
<1> QED
  BY <1>1, <1>2

(* The recursion of QueryUnescape has a solution, and this is what it says.  *)
LEMMA Unescaping ==
  ASSUME NEW A, Special \subseteq A, NEW s \in Seq(A)
  PROVE  \E from \in [1 .. Len(s) + 3 -> Seq(A)] :
           Unescapes(s, from) /\ QueryUnescape(s) = from[1]
<1> DEFINE n == Len(s) + 3
           D == 1 .. n
           from == CHOOSE g : g = [i \in D |-> Unescaped(s, g, i)]
           Good(g, i) == \A j \in i .. n : g[j] = Unescaped(s, g, j)
           P == {i \in D : \E g \in [D -> Seq(A)] : Good(g, i)}
<1>1. QueryUnescape(s) = from[1]
  BY Zenon DEF QueryUnescape, Unescaped, Before, Spaced
<1>2. n \in Nat /\ n > 2 /\ n > Len(s) /\ Len(s) \in Nat
  OBVIOUS
<1> HIDE DEF n
<1>3. \A g, i : i \in D /\ i > Len(s) => Unescaped(s, g, i) = <<>>
  BY DEF Unescaped
<1>4. ASSUME NEW i \in D, \A j \in i + 1 .. n : j \in P PROVE i \in P
  <2>1. CASE i = n
    <3> DEFINE g == [j \in D |-> <<>>]
    <3>1. g \in [D -> Seq(A)]
      OBVIOUS
    <3>2. Good(g, i)
      BY <1>2, <1>3, <2>1
    <3> QED
      BY <3>1, <3>2
  <2>2. CASE i # n
    <3>0. i + 1 \in P
      <4>1. i + 1 \in i + 1 .. n
        BY <1>2, <2>2
      <4> HIDE DEF P
      <4> QED
        BY <1>4, <4>1
    <3>1. PICK g \in [D -> Seq(A)] : Good(g, i + 1)
      BY <3>0
    <3> DEFINE new == Unescaped(s, g, i)
               h == [g EXCEPT ![i] = new]
    <3>2. new \in Seq(A)
      <4>1. \A j \in i + 1 .. n : g[j] \in Seq(A)
        BY <1>2
      <4> QED
        BY <4>1, UnescapedIn DEF n
    <3>3. h \in [D -> Seq(A)]
      <4> HIDE DEF new
      <4> QED
        BY <3>2
    <3>4. Good(h, i)
      <4> SUFFICES ASSUME NEW j \in i .. n PROVE h[j] = Unescaped(s, h, j)
        OBVIOUS
      <4>1. CASE j > Len(s)
        <5>1. j \in D
          OBVIOUS
        <5>2. CASE j = i
          BY <1>3, <4>1, <5>1, <5>2
        <5>3. CASE j # i
          BY <1>3, <3>1, <4>1, <5>1, <5>3
        <5> QED
          BY <5>2, <5>3
      <4>2. CASE j <= Len(s)
        <5>1. h[j+1] = g[j+1] /\ h[j+3] = g[j+3]
          BY <1>2, <4>2
        <5>2. Unescaped(s, h, j) = Unescaped(s, g, j)
          BY <5>1 DEF Unescaped
        <5>3. CASE j = i
          BY <5>2, <5>3
        <5>4. CASE j # i
          BY <3>1, <5>2, <5>4
        <5> QED
          BY <5>3, <5>4
      <4> QED
        BY <1>2, <4>1, <4>2
    <3> HIDE DEF h, Good
    <3> QED
      BY <3>3, <3>4
  <2> QED
    BY <2>1, <2>2
<1>5. \A i \in D : i \in P
  <2> HIDE DEF P
  <2> QED
    BY <1>2, <1>4, InductDown
<1>6. PICK g \in [D -> Seq(A)] : Good(g, 1)
  <2>1. 1 \in P
    BY <1>2, <1>5
  <2> HIDE DEF Good
  <2> QED
    BY <2>1
<1>7. from = [i \in D |-> Unescaped(s, from, i)]
  <2>1. g = [i \in D |-> Unescaped(s, g, i)]
    BY <1>6
  <2> QED
    BY <2>1
<1> HIDE DEF from
<1>8. \A i \in D : from[i] = Unescaped(s, from, i)
  BY <1>7
<1>9. \A i \in D : from[i] \in Seq(A)
  <2> DEFINE Q == {i \in D : from[i] \in Seq(A)}
  <2>1. ASSUME NEW i \in 1 .. n, \A j \in i + 1 .. n : j \in Q PROVE i \in Q
    <3>1. \A j \in i + 1 .. n : from[j] \in Seq(A)
      BY <2>1
    <3>2. Unescaped(s, from, i) \in Seq(A)
      BY <3>1, UnescapedIn DEF n
    <3> QED
      BY <1>8, <3>2
  <2>2. \A i \in D : i \in Q
    <3> HIDE DEF Q
    <3> QED
      BY <1>2, <2>1, InductDown
  <2> QED
    BY <2>2
<1>10. from \in [D -> Seq(A)]
  BY <1>7, <1>9
<1>11. Unescapes(s, from)
  <2>1. \A i \in 1 .. Len(s) + 3 : from[i] = Unescaped(s, from, i)
    BY <1>8 DEF n
  <2> QED
    BY <1>2, <2>1, UnescapingIs
<1> QED
  BY <1>1, <1>10, <1>11 DEF n

LEMMA WellFormedIs ==
  ASSUME NEW A, NEW s \in Seq(A)
  PROVE  WellFormed(s) <=>
           \A i \in 1 .. Len(s) :
             s[i] = "%" => i + 2 <= Len(s) /\ s[i+1] \in HexDigits /\ s[i+2] \in HexDigits
<1>1. DOMAIN s = 1 .. Len(s)
  OBVIOUS
<1>2. ASSUME NEW i
      PROVE  {s[i+1], s[i+2]} \subseteq HexDigits
               <=> s[i+1] \in HexDigits /\ s[i+2] \in HexDigits
  BY Zenon
<1>3. WellFormed(s) <=>
        \A i \in 1 .. Len(s) :
          s[i] = "%" => i + 2 <= Len(s) /\ {s[i+1], s[i+2]} \subseteq HexDigits
  BY <1>1 DEF WellFormed
<1>4. ASSUME WellFormed(s), NEW i \in 1 .. Len(s), s[i] = "%"
      PROVE  i + 2 <= Len(s) /\ s[i+1] \in HexDigits /\ s[i+2] \in HexDigits
  BY <1>2, <1>3, <1>4, Zenon
<1>5. ASSUME \A i \in 1 .. Len(s) :
               s[i] = "%" => i + 2 <= Len(s) /\ s[i+1] \in HexDigits /\ s[i+2] \in HexDigits
      PROVE  WellFormed(s)
  <2>1. ASSUME NEW i \in 1 .. Len(s), s[i] = "%"
        PROVE  i + 2 <= Len(s) /\ {s[i+1], s[i+2]} \subseteq HexDigits
    BY <1>2, <1>5, <2>1, Zenon
  <2> QED
    BY <1>3, <2>1
<1> QED
  BY <1>4, <1>5

LEMMA Concatenation ==
  ASSUME NEW A, NEW a \in Seq(A), NEW b \in Seq(A)
  PROVE  /\ a \o b \in Seq(A) /\ Len(a \o b) = Len(a) + Len(b)
         /\ \A i \in 1 .. Len(a) : (a \o b)[i] = a[i]
         /\ \A i \in 1 .. Len(b) : (a \o b)[Len(a) + i] = b[i]
  OBVIOUS

(* Texts without an error have none together, and are unescaped apart.       *)
LEMMA WellFormedConcat ==
  ASSUME NEW A, NEW a \in Seq(A), NEW b \in Seq(A), WellFormed(a), WellFormed(b)
  PROVE  WellFormed(a \o b)
<1> DEFINE n == Len(a)
           m == Len(b)
           ab == a \o b
<1>1. /\ n \in Nat /\ m \in Nat /\ DOMAIN ab = 1 .. n + m /\ Len(ab) = n + m
      /\ \A i \in 1 .. n : ab[i] = a[i]
      /\ \A i \in 1 .. m : ab[n+i] = b[i]
  BY Concatenation
<1>2. \A i \in 1 .. n : a[i] = "%" => i + 2 <= n /\ a[i+1] \in HexDigits /\ a[i+2] \in HexDigits
  BY WellFormedIs
<1>3. \A i \in 1 .. m : b[i] = "%" => i + 2 <= m /\ b[i+1] \in HexDigits /\ b[i+2] \in HexDigits
  BY WellFormedIs
<1>0. ab \in Seq(A)
  BY Concatenation
<1> HIDE DEF n, m, ab, HexDigits
<1>4. ASSUME NEW i \in 1 .. n + m, ab[i] = "%"
      PROVE  i + 2 <= n + m /\ ab[i+1] \in HexDigits /\ ab[i+2] \in HexDigits
  <2>1. CASE i <= n
    BY <1>1, <1>2, <1>4, <2>1
  <2>2. CASE i > n
    <3>1. PICK j \in 1 .. m : i = n + j
      <4>1. i - n \in 1 .. m /\ i = n + (i - n)
        BY <1>1, <2>2
      <4> QED
        BY <4>1
    <3>2. j + 2 <= m /\ b[j+1] \in HexDigits /\ b[j+2] \in HexDigits
      BY <1>1, <1>3, <1>4, <3>1
    <3>3. ab[n+(j+1)] = b[j+1] /\ ab[n+(j+2)] = b[j+2]
      BY <1>1, <3>2
    <3>4. n + (j + 1) = i + 1 /\ n + (j + 2) = i + 2
      BY <1>1, <3>1
    <3> QED
      BY <1>1, <3>1, <3>2, <3>3, <3>4
  <2> QED
    BY <1>1, <2>1, <2>2
<1>5. \A i \in 1 .. Len(ab) :
        ab[i] = "%" => i + 2 <= Len(ab) /\ ab[i+1] \in HexDigits /\ ab[i+2] \in HexDigits
  BY <1>1, <1>4
<1>6. WellFormed(ab)
  BY <1>5, <1>0, WellFormedIs
<1> QED
  BY <1>6 DEF ab

LEMMA UnescapeConcat ==
  ASSUME NEW A, Special \subseteq A, NEW a \in Seq(A), NEW b \in Seq(A),
         WellFormed(a), WellFormed(b)
  PROVE  QueryUnescape(a \o b) = QueryUnescape(a) \o QueryUnescape(b)
<1>0. \A c \in A, x, y \in Seq(A) : Before(c, x) \o y = Before(c, x \o y)
  BY BeforeConcat, SMTT(60)
<1> DEFINE n == Len(a)
           m == Len(b)
           ab == a \o b
<1>c. \A h, l : Coded(h, l) \in A
  <2> SUFFICES ASSUME NEW h, NEW l
               PROVE  Coded(h, l) \in A
    BY Zenon
  <2>1. Coded(h, l) \in Special
    BY CodedIs, Zenon
  <2> QED
    BY <2>1, Zenon
<1>1. /\ n \in Nat /\ m \in Nat /\ Len(ab) = n + m
      /\ \A i \in 1 .. n : ab[i] = a[i]
      /\ \A i \in 1 .. m : ab[n+i] = b[i]
  BY Concatenation
<1>2. PICK fa \in [1 .. n + 3 -> Seq(A)] :
        Unescapes(a, fa) /\ QueryUnescape(a) = fa[1]
  BY Unescaping
<1>3. PICK fb \in [1 .. m + 3 -> Seq(A)] :
        Unescapes(b, fb) /\ QueryUnescape(b) = fb[1]
  BY Unescaping
<1>4. PICK f \in [1 .. Len(ab) + 3 -> Seq(A)] :
        Unescapes(ab, f) /\ QueryUnescape(ab) = f[1]
  <2>1. ab \in Seq(A)
    BY Concatenation
  <2> HIDE DEF ab
  <2> QED
    BY <2>1, Unescaping
<1>5. \A i \in 1 .. n : a[i] = "%" => i + 2 <= n
  BY WellFormedIs
<1>6. \A i \in 1 .. m : b[i] = "%" => i + 2 <= m
  BY WellFormedIs
<1>7. Len(a) = n /\ Len(b) = m
  OBVIOUS
<1> HIDE DEF n, m, ab
<1>8. /\ \A i \in n + 1 .. n + 3 : fa[i] = <<>>
      /\ \A i \in 1 .. n : a[i] = "%" => fa[i] = Before(Coded(a[i+1], a[i+2]), fa[i+3])
      /\ \A i \in 1 .. n : a[i] # "%" => fa[i] = Before(Spaced(a[i]), fa[i+1])
  BY <1>2, <1>7 DEF Unescapes
<1>9. /\ \A i \in m + 1 .. m + 3 : fb[i] = <<>>
      /\ \A i \in 1 .. m : b[i] = "%" => fb[i] = Before(Coded(b[i+1], b[i+2]), fb[i+3])
      /\ \A i \in 1 .. m : b[i] # "%" => fb[i] = Before(Spaced(b[i]), fb[i+1])
  BY <1>3, <1>7 DEF Unescapes
<1>10. /\ \A i \in n + m + 1 .. n + m + 3 : f[i] = <<>>
       /\ \A i \in 1 .. n + m : ab[i] = "%" => f[i] = Before(Coded(ab[i+1], ab[i+2]), f[i+3])
       /\ \A i \in 1 .. n + m : ab[i] # "%" => f[i] = Before(Spaced(ab[i]), f[i+1])
  BY <1>1, <1>4 DEF Unescapes
<1> DEFINE P == {i \in Nat : f[n+i] = fb[i]}
           Q == {i \in Nat : f[i] = fa[i] \o fb[1]}
<1>11. ASSUME NEW i \in 1 .. m + 3, \A j \in i + 1 .. m + 3 : j \in P
       PROVE  i \in P
  <2> SUFFICES f[n+i] = fb[i]
    BY <1>1
  <2>0. \A j \in i + 1 .. m + 3 : f[n+j] = fb[j]
    BY <1>11
  <2>1. CASE i > m
    <3>1. n + i \in n + m + 1 .. n + m + 3 /\ i \in m + 1 .. m + 3
      BY <1>1, <2>1
    <3> QED
      BY <1>9, <1>10, <3>1
  <2>2. CASE i <= m /\ b[i] = "%"
    <3>1. i \in 1 .. m /\ i + 2 \in 1 .. m /\ i + 1 \in 1 .. m /\ n + i \in 1 .. n + m
      BY <1>1, <1>6, <2>2
    <3>2. n + (i + 1) = (n + i) + 1 /\ n + (i + 2) = (n + i) + 2 /\ n + (i + 3) = (n + i) + 3
      BY <1>1
    <3>3. ab[n+i] = b[i] /\ ab[(n+i)+1] = b[i+1] /\ ab[(n+i)+2] = b[i+2]
      <4>1. ab[n+i] = b[i] /\ ab[n+(i+1)] = b[i+1] /\ ab[n+(i+2)] = b[i+2]
        BY <1>1, <3>1
      <4> QED
        BY <3>2, <4>1
    <3>4. f[n+i] = Before(Coded(b[i+1], b[i+2]), f[(n+i)+3])
      BY <1>10, <2>2, <3>1, <3>3
    <3>5. f[(n+i)+3] = fb[i+3]
      <4>1. f[n+(i+3)] = fb[i+3]
        <5>1. i + 3 \in i + 1 .. m + 3
          BY <1>1, <3>1
        <5> QED
          BY <2>0, <5>1
      <4> QED
        BY <3>2, <4>1
    <3>6. fb[i] = Before(Coded(b[i+1], b[i+2]), fb[i+3])
      BY <1>9, <2>2, <3>1
    <3> QED
      BY <3>4, <3>5, <3>6
  <2>3. CASE i <= m /\ b[i] # "%"
    <3>1. i \in 1 .. m /\ n + i \in 1 .. n + m /\ n + (i + 1) = (n + i) + 1
      BY <1>1, <2>3
    <3>2. ab[n+i] = b[i]
      BY <1>1, <3>1
    <3>3. f[n+i] = Before(Spaced(b[i]), f[(n+i)+1])
      BY <1>10, <2>3, <3>1, <3>2
    <3>4. f[n+(i+1)] = fb[i+1]
      <4>1. i + 1 \in i + 1 .. m + 3
        BY <1>1, <3>1
      <4> QED
        BY <2>0, <4>1
    <3>5. fb[i] = Before(Spaced(b[i]), fb[i+1])
      BY <1>9, <2>3, <3>1
    <3> QED
      BY <3>1, <3>3, <3>4, <3>5
  <2> QED
    BY <1>1, <2>1, <2>2, <2>3
<1>12. f[n+1] = fb[1]
  <2>1. \A i \in 1 .. m + 3 : i \in P
    <3> HIDE DEF P
    <3>1. m + 3 \in Nat
      BY <1>1
    <3> QED
      BY <1>11, <3>1, InductDown
  <2> QED
    BY <1>1, <2>1
<1>13. fb[1] \in Seq(A) /\ \A i \in 1 .. n + 3 : fa[i] \in Seq(A)
  BY <1>1, <1>2, <1>3
<1>14. ASSUME NEW i \in 1 .. n + 1, \A j \in i + 1 .. n + 1 : j \in Q
       PROVE  i \in Q
  <2>5. i \in Nat
    BY <1>1
  <2> SUFFICES f[i] = fa[i] \o fb[1]
    BY <2>5
  <2>0. \A j \in i + 1 .. n + 1 : f[j] = fa[j] \o fb[1]
    BY <1>14
  <2>1. CASE i = n + 1
    <3>1. fa[i] = <<>>
      BY <1>1, <1>8, <2>1
    <3>2. <<>> \o fb[1] = fb[1]
      BY <1>13, ConcatEmptySeq
    <3> QED
      BY <1>12, <2>1, <3>1, <3>2, Zenon
  <2>2. CASE i <= n /\ a[i] = "%"
    <3>1. i \in 1 .. n /\ i + 2 \in 1 .. n /\ i + 1 \in 1 .. n /\ i \in 1 .. n + m
      BY <1>1, <1>5, <2>2
    <3>2. ab[i] = a[i] /\ ab[i+1] = a[i+1] /\ ab[i+2] = a[i+2]
      BY <1>1, <3>1
    <3>3. f[i] = Before(Coded(a[i+1], a[i+2]), f[i+3])
      BY <1>10, <2>2, <3>1, <3>2
    <3>4. f[i+3] = fa[i+3] \o fb[1]
      <4>1. i + 3 \in i + 1 .. n + 1
        BY <1>1, <3>1
      <4> QED
        BY <2>0, <4>1
    <3>5. fa[i] = Before(Coded(a[i+1], a[i+2]), fa[i+3])
      BY <1>8, <2>2, <3>1
    <3>6. Coded(a[i+1], a[i+2]) \in A /\ fa[i+3] \in Seq(A)
      <4>1. Coded(a[i+1], a[i+2]) \in A
        BY <1>c, Zenon
      <4>2. i + 3 \in 1 .. n + 3
        BY <1>1, <3>1
      <4>3. fa[i+3] \in Seq(A)
        BY <1>13, <4>2, Zenon
      <4> QED
        BY <4>1, <4>3
    <3>7. (Before(Coded(a[i+1], a[i+2]), fa[i+3])) \o fb[1]
            = Before(Coded(a[i+1], a[i+2]), fa[i+3] \o fb[1])
      BY <1>13, <3>6, <1>0, Zenon
    <3> QED
      BY <3>3, <3>4, <3>5, <3>7
  <2>3. CASE i <= n /\ a[i] # "%"
    <3>1. i \in 1 .. n /\ i \in 1 .. n + m /\ i + 1 \in i + 1 .. n + 1 /\ i + 1 \in 1 .. n + 3
      BY <1>1, <2>3
    <3>2. ab[i] = a[i]
      BY <1>1, <3>1
    <3>3. f[i] = Before(Spaced(a[i]), f[i+1])
      BY <1>10, <2>3, <3>1, <3>2
    <3>4. f[i+1] = fa[i+1] \o fb[1]
      BY <2>0, <3>1
    <3>5. fa[i] = Before(Spaced(a[i]), fa[i+1])
      BY <1>8, <2>3, <3>1
    <3>6. Spaced(a[i]) \in A /\ fa[i+1] \in Seq(A)
      <4>1. a[i] \in A
        BY <1>7, <3>1
      <4>2. Spaced(a[i]) \in A
        BY <4>1 DEF Spaced, Special
      <4>3. fa[i+1] \in Seq(A)
        BY <1>13, <3>1, Zenon
      <4> QED
        BY <4>2, <4>3
    <3>7. (Before(Spaced(a[i]), fa[i+1])) \o fb[1] = Before(Spaced(a[i]), fa[i+1] \o fb[1])
      BY <1>13, <3>6, <1>0, Zenon
    <3> QED
      BY <3>3, <3>4, <3>5, <3>7
  <2>4. i = n + 1 \/ (i <= n /\ a[i] = "%") \/ (i <= n /\ a[i] # "%")
    BY <1>1
  <2> QED
    BY <2>1, <2>2, <2>3, <2>4, Zenon
<1>15. f[1] = fa[1] \o fb[1]
  <2>0. 1 \in 1 .. n + 1
    BY <1>1
  <2>2. \A i \in Q : f[i] = fa[i] \o fb[1]
    BY Zenon
  <2>1. \A i \in 1 .. n + 1 : i \in Q
    <3> HIDE DEF Q
    <3>1. n + 1 \in Nat
      BY <1>1
    <3> QED
      BY <1>14, <3>1, InductDown
  <2> HIDE DEF Q
  <2> QED
    BY <2>0, <2>1, <2>2, Zenon
<1> QED
  BY <1>2, <1>3, <1>4, <1>15, Zenon DEF ab

LEMMA BeforeNone ==
  ASSUME NEW A, NEW c \in A
  PROVE  Before(c, <<>>) = <<c>>
  BY DEF Before

LEMMA OneRead ==
  ASSUME NEW A, Special \subseteq A, NEW d \in A, d # "%"
  PROVE  WellFormed(<<d>>) /\ QueryUnescape(<<d>>) = <<Spaced(d)>>
<1> DEFINE s == <<d>>
<1>1. s \in Seq(A) /\ Len(s) = 1 /\ s[1] = d
  OBVIOUS
<1>2. Spaced(d) \in A
  BY DEF Spaced, Special
<1> HIDE DEF s
<1>3. WellFormed(s)
  BY <1>1, WellFormedIs
<1>4. PICK f \in [1 .. Len(s) + 3 -> Seq(A)] : Unescapes(s, f) /\ QueryUnescape(s) = f[1]
  BY <1>1, Unescaping
<1>5. f[1] = Before(Spaced(d), f[2]) /\ f[2] = <<>>
  BY <1>1, <1>4 DEF Unescapes
<1> QED
  BY <1>2, <1>3, <1>4, <1>5, BeforeNone DEF s

LEMMA ThreeRead ==
  ASSUME NEW A, Special \subseteq A, NEW h \in HexDigits, NEW l \in HexDigits
  PROVE  WellFormed(<<"%", h, l>>) /\ QueryUnescape(<<"%", h, l>>) = <<Coded(h, l)>>
<1> DEFINE s == <<"%", h, l>>
<1>1. s \in Seq(A) /\ Len(s) = 3 /\ s[1] = "%" /\ s[2] = h /\ s[3] = l /\ h # "%" /\ l # "%"
  <2>1. "%" \in A /\ h \in A /\ l \in A
    BY DEF Special, HexDigits
  <2> QED
    BY <2>1 DEF HexDigits
<1>2. Coded(h, l) \in A
  BY CodedIs
<1> HIDE DEF s
<1>3. WellFormed(s)
  BY <1>1, WellFormedIs
<1>4. PICK f \in [1 .. Len(s) + 3 -> Seq(A)] : Unescapes(s, f) /\ QueryUnescape(s) = f[1]
  BY <1>1, Unescaping
<1>5. f[1] = Before(Coded(h, l), f[4]) /\ f[4] = <<>>
  BY <1>1, <1>4 DEF Unescapes
<1> QED
  BY <1>2, <1>3, <1>4, <1>5, BeforeNone DEF s

(* A character that is escaped is read as itself.                            *)
LEMMA EscapedReads ==
  ASSUME NEW A, Special \subseteq A, NEW c \in A
  PROVE  WellFormed(Escaped(c)) /\ QueryUnescape(Escaped(c)) = <<c>>
<1>1. CASE c = " "
  <2>1. Escaped(c) = <<"+">> /\ "+" \in A /\ "+" # "%" /\ Spaced("+") = " "
    BY <1>1, EscapedIs DEF Special, Spaced
  <2> QED
    BY <1>1, <2>1, OneRead
<1>2. CASE c = "+"
  <2>1. Escaped(c) = <<"%", "2", "B">> /\ "2" \in HexDigits /\ "B" \in HexDigits
    BY <1>2, EscapedIs DEF HexDigits
  <2> QED
    BY <1>2, <2>1, ThreeRead, CodedIs
<1>3. CASE c = "%"
  <2>1. Escaped(c) = <<"%", "2", "5">> /\ "2" \in HexDigits /\ "5" \in HexDigits
    BY <1>3, EscapedIs DEF HexDigits
  <2> QED
    BY <1>3, <2>1, ThreeRead, CodedIs
<1>4. CASE c = "&"
  <2>1. Escaped(c) = <<"%", "2", "6">> /\ "2" \in HexDigits /\ "6" \in HexDigits
    BY <1>4, EscapedIs DEF HexDigits
  <2> QED
    BY <1>4, <2>1, ThreeRead, CodedIs
<1>5. CASE c \notin {" ", "+", "%", "&"}
  <2>1. Escaped(c) = <<c>> /\ c # "%" /\ Spaced(c) = c
    BY <1>5, EscapedIs DEF Spaced
  <2> QED
    BY <2>1, OneRead
<1> QED
  BY <1>1, <1>2, <1>3, <1>4, <1>5

(* QueryUnescape undoes QueryEscape, whatever the name: no character of it is *)
(* lost or taken for an escape, and the URI is never malformed (SendFile).   *)
THEOREM RoundTrip ==
  ASSUME NEW A, Special \subseteq A, NEW s \in Seq(A)
  PROVE  /\ QueryEscape(s) \in Seq(A)
         /\ WellFormed(QueryEscape(s))
         /\ QueryUnescape(QueryEscape(s)) = s
<1> DEFINE OK(t) == /\ QueryEscape(t) \in Seq(A)
                    /\ WellFormed(QueryEscape(t))
                    /\ QueryUnescape(QueryEscape(t)) = t
           P == {k \in Nat : \A t \in Seq(A) : Len(t) = k => OK(t)}
<1>1. OK(<<>>)
  <2>1. <<>> \in Seq(A) /\ Len(<<>>) = 0
    OBVIOUS
  <2>2. QueryEscape(<<>>) = <<>>
    <3>1. " " \in A
      BY DEF Special
    <3> QED
      BY <2>1, <3>1, EscapeAppend
  <2>3. WellFormed(<<>>)
    BY DEF WellFormed
  <2>4. PICK f \in [1 .. Len(<<>>) + 3 -> Seq(A)] :
          Unescapes(<<>>, f) /\ QueryUnescape(<<>>) = f[1]
    BY <2>1, Unescaping
  <2>5. QueryUnescape(<<>>) = <<>>
    BY <2>1, <2>4 DEF Unescapes
  <2> QED
    BY <2>1, <2>2, <2>3, <2>5
<1>2. ASSUME NEW t \in Seq(A), NEW c \in A, OK(t) PROVE OK(Append(t, c))
  <2>1. QueryEscape(Append(t, c)) = QueryEscape(t) \o Escaped(c)
    BY EscapeAppend
  <2>2. Escaped(c) \in Seq(A)
    BY EscapedIs
  <2>3. WellFormed(Escaped(c)) /\ QueryUnescape(Escaped(c)) = <<c>>
    BY EscapedReads
  <2>4. QueryEscape(t) \o Escaped(c) \in Seq(A)
    BY <1>2, <2>2, Concatenation
  <2>5. WellFormed(QueryEscape(t) \o Escaped(c))
    BY <1>2, <2>2, <2>3, WellFormedConcat
  <2>6. QueryUnescape(QueryEscape(t) \o Escaped(c)) = t \o <<c>>
    BY <1>2, <2>2, <2>3, UnescapeConcat
  <2>7. t \o <<c>> = Append(t, c)
    BY AppendIsConcat
  <2> QED
    BY <2>1, <2>4, <2>5, <2>6, <2>7
<1> HIDE DEF OK
<1>3. 0 \in P
  <2>1. \A t \in Seq(A) : Len(t) = 0 => t = <<>>
    OBVIOUS
  <2> QED
    BY <1>1, <2>1
<1>4. ASSUME NEW k \in Nat, k \in P PROVE k + 1 \in P
  <2> SUFFICES ASSUME NEW t \in Seq(A), Len(t) = k + 1 PROVE OK(t)
    OBVIOUS
  <2>1. t # <<>>
    OBVIOUS
  <2>2. PICK u \in Seq(A), c \in A : t = Append(u, c)
    BY <2>1, SequenceEmptyOrAppend
  <2>3. Len(u) = k
    BY <2>2
  <2> QED
    BY <1>2, <1>4, <2>2, <2>3
<1>5. Len(s) \in P
  <2>1. Len(s) \in Nat
    OBVIOUS
  <2> HIDE DEF P
  <2> QED
    BY <1>3, <1>4, <2>1, Induct
<1> QED
  BY <1>5 DEF OK

(* What unescaping leaves as it is: a text without escapes.  From the end to *)
(* the beginning, what is left of a text is no longer than the text, and is  *)
(* the same only if no "+" and no "%" stand in it.                           *)
LEMMA UnescapeKeeps ==
  ASSUME NEW A, Special \subseteq A, NEW s \in Seq(A), WellFormed(s)
  PROVE  /\ QueryUnescape(s) \in Seq(A)
         /\ QueryUnescape(s) = s <=> \A i \in 1 .. Len(s) : s[i] \notin {"+", "%"}
<1> DEFINE n == Len(s)
<1>0. \A c \in A, t \in Seq(A) :
        /\ Len(Before(c, t)) = 1 + Len(t) /\ Before(c, t)[1] = c
        /\ \A i \in 1 .. Len(t) : Before(c, t)[i+1] = t[i]
  <2> SUFFICES ASSUME NEW c \in A, NEW t \in Seq(A)
               PROVE  /\ Len(Before(c, t)) = 1 + Len(t) /\ Before(c, t)[1] = c
                      /\ \A i \in 1 .. Len(t) : Before(c, t)[i+1] = t[i]
    BY Zenon
  <2> QED
    BY BeforeIs
<1>1. n \in Nat /\ \A i \in 1 .. n : s[i] \in A
  OBVIOUS
<1>2. \A i \in 1 .. n : s[i] = "%" => i + 2 <= n
  BY WellFormedIs
<1>3. PICK f \in [1 .. n + 3 -> Seq(A)] : Unescapes(s, f) /\ QueryUnescape(s) = f[1]
  BY Unescaping
<1>4. Len(s) = n
  OBVIOUS
<1> HIDE DEF n
<1>5. /\ \A i \in n + 1 .. n + 3 : f[i] = <<>>
      /\ \A i \in 1 .. n : s[i] = "%" => f[i] = Before(Coded(s[i+1], s[i+2]), f[i+3])
      /\ \A i \in 1 .. n : s[i] # "%" => f[i] = Before(Spaced(s[i]), f[i+1])
  BY <1>3, <1>4 DEF Unescapes
<1>6. \A i \in 1 .. n + 3 : f[i] \in Seq(A) /\ Len(f[i]) \in Nat
  BY <1>1, <1>3
<1> DEFINE Same(i) == Len(f[i]) = n + 1 - i /\ \A k \in 1 .. n + 1 - i : f[i][k] = s[i+k-1]
           Plain(i) == \A j \in i .. n : s[j] \notin {"+", "%"}
           P == {i \in Nat : Len(f[i]) <= n + 1 - i /\ (Same(i) <=> Plain(i))}
<1>7. ASSUME NEW i \in 1 .. n + 1, \A j \in i + 1 .. n + 1 : j \in P PROVE i \in P
  <2> SUFFICES Len(f[i]) <= n + 1 - i /\ (Same(i) <=> Plain(i))
    BY <1>1
  <2>1. CASE i = n + 1
    <3>1. f[i] = <<>> /\ Len(f[i]) = 0
      BY <1>1, <1>5, <2>1
    <3> QED
      BY <1>1, <2>1, <3>1
  <2>2. CASE i <= n /\ s[i] = "%"
    <3>1. i \in 1 .. n /\ i + 3 \in i + 1 .. n + 1
      BY <1>1, <1>2, <2>2
    <3>2. Len(f[i+3]) <= n + 1 - (i + 3)
      BY <1>7, <3>1
    <3>3. Len(f[i]) = 1 + Len(f[i+3])
      <4>1. Coded(s[i+1], s[i+2]) \in A /\ f[i+3] \in Seq(A)
        BY <1>1, <1>6, <3>1, CodedIs
      <4>2. f[i] = Before(Coded(s[i+1], s[i+2]), f[i+3])
        BY <1>5, <2>2, <3>1
      <4> QED
        BY <1>0, <4>1, <4>2
    <3>4. Len(f[i]) < n + 1 - i
      BY <1>1, <1>6, <3>1, <3>2, <3>3
    <3>5. ~Plain(i)
      BY <2>2, <3>1
    <3> QED
      BY <1>1, <1>6, <3>1, <3>4, <3>5
  <2>3. CASE i <= n /\ s[i] # "%"
    <3>1. i \in 1 .. n /\ i + 1 \in i + 1 .. n + 1 /\ i + 1 \in 1 .. n + 3
      BY <1>1, <2>3
    <3>2. Len(f[i+1]) <= n + 1 - (i + 1) /\ (Same(i + 1) <=> Plain(i + 1))
      BY <1>7, <3>1
    <3>3. /\ Len(f[i]) = 1 + Len(f[i+1]) /\ f[i][1] = Spaced(s[i])
          /\ \A k \in 1 .. Len(f[i+1]) : f[i][k+1] = f[i+1][k]
      <4>1. Spaced(s[i]) \in A /\ f[i+1] \in Seq(A)
        <5>1. s[i] \in A
          BY <1>1, <3>1
        <5> QED
          BY <1>6, <3>1, <5>1 DEF Spaced, Special
      <4>2. f[i] = Before(Spaced(s[i]), f[i+1])
        BY <1>5, <2>3, <3>1
      <4> QED
        BY <1>0, <4>1, <4>2
    <3>4. Len(f[i]) <= n + 1 - i
      BY <1>1, <1>6, <3>1, <3>2, <3>3
    <3>5. CASE s[i] = "+"
      <4>1. ~Plain(i)
        BY <3>1, <3>5
      <4>2. f[i][1] # s[i]
        BY <3>3, <3>5 DEF Spaced
      <4>3. ~Same(i)
        <5>1. 1 \in 1 .. n + 1 - i /\ i + 1 - 1 = i
          BY <1>1, <3>1
        <5> QED
          BY <4>2, <5>1
      <4> QED
        BY <3>4, <4>1, <4>3
    <3>6. CASE s[i] # "+"
      <4>1. Plain(i) <=> Plain(i + 1)
        <5>1. \A j \in i .. n : j = i \/ j \in i + 1 .. n
          BY <1>1, <3>1
        <5>2. \A j \in i + 1 .. n : j \in i .. n
          BY <1>1, <3>1
        <5> QED
          BY <2>3, <3>6, <5>1, <5>2
      <4>2. f[i][1] = s[i]
        BY <3>3, <3>6 DEF Spaced
      <4>3. ASSUME Same(i) PROVE Same(i + 1)
        <5>1. Len(f[i+1]) = n + 1 - (i + 1)
          BY <1>1, <1>6, <3>1, <3>3, <4>3
        <5>2. ASSUME NEW k \in 1 .. n + 1 - (i + 1) PROVE f[i+1][k] = s[(i+1)+k-1]
          <6>1. /\ k + 1 \in 1 .. n + 1 - i /\ k \in 1 .. Len(f[i+1])
                /\ i + (k + 1) - 1 = (i + 1) + k - 1
            BY <1>1, <3>1, <5>1
          <6>2. f[i][k+1] = s[i + (k + 1) - 1]
            BY <4>3, <6>1
          <6> QED
            BY <3>3, <6>1, <6>2
        <5> QED
          BY <5>1, <5>2
      <4>4. ASSUME Same(i + 1) PROVE Same(i)
        <5>1. Len(f[i]) = n + 1 - i
          BY <1>1, <1>6, <3>1, <3>3, <4>4
        <5>2. ASSUME NEW k \in 1 .. n + 1 - i PROVE f[i][k] = s[i+k-1]
          <6>1. CASE k = 1
            <7>1. i + k - 1 = i
              BY <3>1, <6>1
            <7> QED
              BY <4>2, <6>1, <7>1
          <6>2. CASE k # 1
            <7>1. /\ k - 1 \in 1 .. n + 1 - (i + 1) /\ k - 1 \in 1 .. Len(f[i+1])
                  /\ (i + 1) + (k - 1) - 1 = i + k - 1 /\ (k - 1) + 1 = k
              BY <1>1, <3>1, <4>4, <6>2
            <7>2. f[i+1][k-1] = s[(i+1) + (k-1) - 1]
              BY <4>4, <7>1
            <7>3. f[i][(k-1)+1] = f[i+1][k-1]
              BY <3>3, <7>1
            <7> QED
              BY <7>1, <7>2, <7>3
          <6> QED
            BY <6>1, <6>2
        <5> QED
          BY <5>1, <5>2
      <4> HIDE DEF Same, Plain
      <4> QED
        BY <3>2, <3>4, <4>1, <4>3, <4>4
    <3> QED
      BY <3>5, <3>6
  <2>4. i = n + 1 \/ (i <= n /\ s[i] = "%") \/ (i <= n /\ s[i] # "%")
    BY <1>1
  <2> HIDE DEF Same, Plain
  <2> QED
    BY <2>1, <2>2, <2>3, <2>4
<1>8. 1 \in P
  <2>1. n + 1 \in Nat /\ 1 \in 1 .. n + 1
    BY <1>1
  <2>2. \A i \in 1 .. n + 1 : i \in P
    <3> HIDE DEF P
    <3> QED
      BY <1>7, <2>1, InductDown
  <2> HIDE DEF P
  <2> QED
    BY <2>1, <2>2
<1>9. Same(1) <=> Plain(1)
  <2> HIDE DEF Same, Plain
  <2> QED
    BY <1>8
<1>10. Same(1) <=> f[1] = s
  <2>1. f[1] \in Seq(A) /\ n + 1 - 1 = n /\ \A k \in 1 .. n : 1 + k - 1 = k
    BY <1>1, <1>6
  <2>2. ASSUME Same(1) PROVE f[1] = s
    <3>1. Len(f[1]) = Len(s)
      BY <1>4, <2>1, <2>2
    <3>2. \A k \in 1 .. Len(f[1]) : f[1][k] = s[k]
      BY <1>4, <2>1, <2>2, <3>1
    <3> QED
      BY <2>1, <3>1, <3>2, SeqEqual
  <2>3. ASSUME f[1] = s PROVE Same(1)
    BY <1>4, <2>1, <2>3
  <2> QED
    BY <2>2, <2>3
<1>11. f[1] \in Seq(A)
  BY <1>1, <1>6
<1> QED
  BY <1>3, <1>4, <1>9, <1>10, <1>11

-----------------------------------------------------------------------------
(* The readers of a token URI                                                *)

(* What TrimSpace keeps lies between two of these.                           *)
NonSpace(s) == {i \in DOMAIN s : s[i] # " "}

(* A text that is not all spaces is trimmed to one that is not.              *)
LEMMA TrimIs ==
  ASSUME NEW A, NEW s \in Seq(A), NonSpace(s) # {}
  PROVE  TrimSpace(s) \in Seq(A) /\ NonSpace(TrimSpace(s)) # {}
<1> DEFINE I == NonSpace(s)
           n == Len(s)
           t == TrimSpace(s)
<1>1. n \in Nat /\ DOMAIN s = 1 .. n /\ \A i \in 1 .. n : s[i] \in A
  OBVIOUS
<1>2. I \subseteq 1 .. n /\ I # {}
  BY <1>1 DEF NonSpace
<1>3. t = SubSeq(s, Min(I), Max(I))
  BY <1>2 DEF TrimSpace, NonSpace
<1> HIDE DEF I, n
<1>4. Min(I) \in I /\ \A i \in I : Min(I) <= i
  <2>1. I \subseteq Nat /\ I # {}
    BY <1>1, <1>2
  <2> QED
    BY <1>2, <2>1, MinOf
<1>5. Max(I) \in I
  <2>1. I \subseteq 0 .. n /\ I # {}
    BY <1>1, <1>2
  <2> QED
    BY <1>1, <2>1, MaxOf
<1> DEFINE a == Min(I)
           z == Max(I)
<1> HIDE DEF a, z, t
<1>6. a \in 1 .. n /\ z \in 1 .. n /\ a <= z /\ a \in I /\ t = SubSeq(s, a, z)
  BY <1>1, <1>2, <1>3, <1>4, <1>5 DEF a, z
<1>7. /\ SubSeq(s, a, z) \in Seq(A) /\ Len(SubSeq(s, a, z)) = z - a + 1
      /\ SubSeq(s, a, z)[1] = s[a]
  <2>1. \A i \in a .. z : s[i] \in A
    BY <1>1, <1>6
  <2>2. 1 \in 1 .. z - a + 1 /\ a + 1 - 1 = a
    BY <1>1, <1>6
  <2>3. /\ SubSeq(s, a, z) \in Seq(A)
        /\ Len(SubSeq(s, a, z)) = IF a <= z THEN z - a + 1 ELSE 0
        /\ \A i \in 1 .. z - a + 1 : SubSeq(s, a, z)[i] = s[a+i-1]
    BY <1>1, <1>6, <2>1, SubSeqProperties
  <2> QED
    BY <1>1, <1>6, <2>2, <2>3
<1>8. t \in Seq(A) /\ 1 \in DOMAIN t /\ t[1] = s[a]
  BY <1>1, <1>6, <1>7
<1>9. 1 \in NonSpace(t)
  BY <1>6, <1>8, Zenon DEF NonSpace, I
<1> QED
  BY <1>8, <1>9 DEF t

Letters == Special \cup {".enc", "document"}

(* NameEnc ends in .enc, so it is never all spaces.                          *)
LEMMA NameIs ==
  ASSUME NEW A, Letters \subseteq A, NEW filename \in Seq(A)
  PROVE  /\ NameEnc(filename) \in Seq(A)
         /\ NonSpace(NameEnc(filename)) # {}
<1> DEFINE name == IF filename = <<>> THEN <<"document">> ELSE filename
<1>1. name \in Seq(A)
  BY DEF Letters
<1>2. NameEnc(filename) = name \o <<".enc">>
  BY DEF NameEnc
<1> HIDE DEF name
<1>3. <<".enc">> \in Seq(A) /\ Len(<<".enc">>) = 1 /\ (<<".enc">>)[1] = ".enc"
  BY DEF Letters
<1>4. /\ name \o <<".enc">> \in Seq(A) /\ Len(name \o <<".enc">>) = Len(name) + 1
      /\ (name \o <<".enc">>)[Len(name) + 1] = ".enc"
  <2>1. <<".enc">> \in Seq(A)
    BY <1>3
  <2>2. 1 \in 1 .. Len(<<".enc">>)
    BY <1>3
  <2> QED
    BY <1>1, <1>3, <2>1, <2>2, Concatenation
<1>5. Len(name) + 1 \in DOMAIN (name \o <<".enc">>)
  BY <1>1, <1>4
<1>6. ".enc" # " "
  OBVIOUS
<1>7. Len(name) + 1 \in NonSpace(name \o <<".enc">>)
  BY <1>4, <1>5, <1>6, Zenon DEF NonSpace
<1> QED
  BY <1>2, <1>4, <1>7

(* What the two readers make of a token URI that SendFile wrote.             *)
LEMMA Readers ==
  ASSUME NEW A, Letters \subseteq A, NEW filename \in Seq(A), NEW cid \in Nat \ {NoCid}
  PROVE  LET u == TokenURIOf(cid, filename)
             sent == TrimSpace(NameEnc(filename))
             keeps == WellFormed(sent) => \A i \in DOMAIN sent : sent[i] \notin {"+", "%"}
         IN /\ ReadBySender(u) = [name |-> [text |-> sent], cid |-> cid, link |-> [gateway |-> cid]]
            /\ ReadByRecipient(u).cid = cid
            /\ ReadByRecipient(u).link = [gateway |-> cid]
            /\ ReadByRecipient(u).name = [text |-> sent] <=> keeps
<1> DEFINE u == TokenURIOf(cid, filename)
           N == NameEnc(filename)
           sent == TrimSpace(N)
           keeps == WellFormed(sent) => \A i \in DOMAIN sent : sent[i] \notin {"+", "%"}
<1>1. Special \subseteq A
  BY DEF Letters
<1>2. N \in Seq(A) /\ NonSpace(N) # {}
  BY NameIs
<1>3. u.form = "ipfs" /\ u.cid = cid /\ u.name = QueryEscape(N) /\ u # Empty
  BY DEF TokenURIOf, Empty
<1> HIDE DEF N, u
<1>4. WellFormed(QueryEscape(N)) /\ QueryUnescape(QueryEscape(N)) = N
  BY <1>1, <1>2, RoundTrip
<1>5. sent \in Seq(A) /\ NonSpace(sent) # {}
  BY <1>2, TrimIs
<1> HIDE DEF sent
<1>6. TrimSpace(sent) # <<>>
  <2>1. NonSpace(TrimSpace(sent)) # {}
    BY <1>5, TrimIs
  <2>2. NonSpace(<<>>) = {}
    BY DEF NonSpace
  <2> QED
    BY <2>1, <2>2
<1>7. ReadBySender(u) = [name |-> [text |-> sent], cid |-> cid, link |-> [gateway |-> cid]]
  <2>1. ParseNameCid(u) = [name |-> sent, cid |-> cid]
    BY <1>3, <1>4 DEF ParseNameCid, UnescapedOrRaw, sent
  <2>2. NameOr(sent, u) = [text |-> sent]
    BY <1>6 DEF NameOr
  <2>3. TokenURIToHTTP(u) = [gateway |-> cid]
    BY <1>3 DEF TokenURIToHTTP
  <2> QED
    BY <1>3, <2>1, <2>2, <2>3 DEF ReadBySender
<1>8. ParseTokenURI(u) = [name |-> UnescapedOrRaw(sent), cid |-> cid]
  BY <1>3, <1>4 DEF ParseTokenURI, QueryGet, sent
<1>9. ReadByRecipient(u).cid = cid /\ ReadByRecipient(u).link = [gateway |-> cid]
  BY <1>8 DEF ReadByRecipient, LinkOr
<1>10. ReadByRecipient(u).name = NameOr(UnescapedOrRaw(sent), u)
  BY <1>8 DEF ReadByRecipient
<1>11. NameOr(UnescapedOrRaw(sent), u) = [text |-> sent] <=> keeps
  <2>1. CASE ~WellFormed(sent)
    BY <1>6, <2>1 DEF UnescapedOrRaw, NameOr
  <2>2. CASE WellFormed(sent)
    <3> DEFINE text == QueryUnescape(sent)
    <3>1. text = sent <=> keeps
      <4>1. DOMAIN sent = 1 .. Len(sent)
        BY <1>5
      <4> QED
        BY <1>1, <1>5, <2>2, <4>1, UnescapeKeeps
    <3>2. UnescapedOrRaw(sent) = text
      BY <2>2 DEF UnescapedOrRaw
    <3> HIDE DEF text, keeps
    <3>3. NameOr(text, u) = [text |-> sent] <=> text = sent
      <4>1. \A x, y : [text |-> x] = [text |-> y] => x = y
        <5> SUFFICES ASSUME NEW x, NEW y, [text |-> x] = [text |-> y] PROVE x = y
          OBVIOUS
        <5>1. [text |-> x].text = [text |-> y].text
          OBVIOUS
        <5> QED
          BY <5>1
      <4>2. \A x, y : [uri |-> x] # [text |-> y]
        <5> SUFFICES ASSUME NEW x, NEW y, [uri |-> x] = [text |-> y] PROVE FALSE
          OBVIOUS
        <5>1. "uri" \in DOMAIN [uri |-> x] /\ "uri" \notin DOMAIN [text |-> y]
          OBVIOUS
        <5> QED
          BY <5>1
      <4> QED
        BY <1>6, <4>1, <4>2 DEF NameOr
    <3> QED
      BY <3>1, <3>2, <3>3
  <2> QED
    BY <2>1, <2>2
<1> QED
  BY <1>7, <1>9, <1>10, <1>11 DEF u, sent, N

-----------------------------------------------------------------------------
(* The maps of the configuration                                             *)

(* MapOf without its recursion, for the pairs with index in s.               *)
Keyed(pairs, s, k) == {i \in s : pairs[i][1] = k}
LastOf(pairs, s) ==
  [k \in {pairs[i][1] : i \in s} |-> pairs[Max(Keyed(pairs, s, k))][2]]

(* One Put on the map of all pairs but the last is the map of all.           *)
LEMMA LastOfStep ==
  ASSUME NEW n \in Nat, NEW pairs, NEW s, s \subseteq 1 .. n, s # {}
  PROVE  LastOf(pairs, s) = Put(LastOf(pairs, s \ {Max(s)}), pairs[Max(s)])
<1> DEFINE x == Max(s)
           r == s \ {x}
           m == LastOf(pairs, r)
<1>1. x \in s /\ \A y \in s : y <= x
  <2>1. s \subseteq 0 .. n
    OBVIOUS
  <2> QED
    BY <2>1, MaxOf
<1> HIDE DEF x
<1>2. DOMAIN m = {pairs[i][1] : i \in r}
  BY DEF LastOf
<1>3. {pairs[i][1] : i \in s} = DOMAIN m \cup {pairs[x][1]}
  BY <1>1, <1>2
<1>4. ASSUME NEW k \in {pairs[i][1] : i \in s}
      PROVE  pairs[Max(Keyed(pairs, s, k))][2] = IF k = pairs[x][1] THEN pairs[x][2] ELSE m[k]
  <2>1. CASE k = pairs[x][1]
    <3>1. /\ Keyed(pairs, s, k) \subseteq 1 .. n /\ x \in Keyed(pairs, s, k)
          /\ \A y \in Keyed(pairs, s, k) : y <= x
      BY <1>1, <2>1 DEF Keyed
    <3>2. Max(Keyed(pairs, s, k)) = x
      BY <3>1, MaxIs
    <3> QED
      BY <2>1, <3>2
  <2>2. CASE k # pairs[x][1]
    <3>1. Keyed(pairs, s, k) = Keyed(pairs, r, k)
      BY <2>2 DEF Keyed
    <3>2. k \in {pairs[i][1] : i \in r}
      BY <1>2, <1>3, <2>2
    <3>3. m[k] = pairs[Max(Keyed(pairs, r, k))][2]
      BY <3>2 DEF LastOf
    <3> QED
      BY <2>2, <3>1, <3>3
  <2> QED
    BY <2>1, <2>2
<1>5. LastOf(pairs, s) = [k \in DOMAIN m \cup {pairs[x][1]} |->
                           IF k = pairs[x][1] THEN pairs[x][2] ELSE m[k]]
  <2> HIDE DEF m
  <2> QED
    BY <1>3, <1>4, Zenon DEF LastOf
<1> QED
  BY <1>5 DEF Put, x

(* parsePairs and its like keep the last pair of each key.                   *)
LEMMA MapIs ==
  ASSUME NEW T, NEW pairs \in Seq(T)
  PROVE  MapOf(pairs) = LastOf(pairs, DOMAIN pairs)
<1> DEFINE n == Len(pairs)
           D == DOMAIN pairs
           Step(g, s) == IF s = {} THEN <<>> ELSE Put(g[s \ {Max(s)}], pairs[Max(s)])
           iter == CHOOSE g : g = [s \in SUBSET D |-> Step(g, s)]
           g0 == [s \in SUBSET D |-> LastOf(pairs, s)]
<1>1. n \in Nat /\ D = 1 .. n
  OBVIOUS
<1>2. MapOf(pairs) = iter[D]
  BY Zenon DEF MapOf, FoldLeft, MapThenFoldSet
<1> HIDE DEF n, D
<1>3. LastOf(pairs, {}) = <<>>
  BY DEF LastOf
<1>4. ASSUME NEW s \in SUBSET D, s # {}
      PROVE  Max(s) \in s /\ LastOf(pairs, s) = Put(LastOf(pairs, s \ {Max(s)}), pairs[Max(s)])
  <2>1. s \subseteq 1 .. n /\ s \subseteq 0 .. n
    BY <1>1
  <2> QED
    BY <1>1, <1>4, <2>1, LastOfStep, MaxOf
<1>5. g0 = [s \in SUBSET D |-> Step(g0, s)]
  <2>1. ASSUME NEW s \in SUBSET D PROVE LastOf(pairs, s) = Step(g0, s)
    <3>1. CASE s = {}
      BY <1>3, <3>1
    <3>2. CASE s # {}
      BY <1>4, <3>2
    <3> QED
      BY <3>1, <3>2
  <2> QED
    BY <2>1
<1>6. iter = [s \in SUBSET D |-> Step(iter, s)]
  <2> HIDE DEF g0
  <2> QED
    BY <1>5
<1> HIDE DEF iter
<1>7. \A s \in SUBSET D : iter[s] = Step(iter, s)
  BY <1>6
<1> DEFINE P == {k \in Nat : k <= n => iter[1 .. k] = LastOf(pairs, 1 .. k)}
<1>8. 0 \in P
  <2>1. 1 .. 0 = {}
    OBVIOUS
  <2> QED
    BY <1>3, <1>7, <2>1
<1>9. ASSUME NEW k \in Nat, k \in P PROVE k + 1 \in P
  <2> SUFFICES ASSUME k + 1 <= n PROVE iter[1 .. k+1] = LastOf(pairs, 1 .. k+1)
    OBVIOUS
  <2> DEFINE s == 1 .. k+1
  <2>1. s \in SUBSET D /\ s # {} /\ s \subseteq 1 .. n
    BY <1>1
  <2>2. Max(s) = k + 1
    <3>1. k + 1 \in s /\ \A y \in s : y <= k + 1
      OBVIOUS
    <3> HIDE DEF s
    <3> QED
      BY <1>1, <2>1, <3>1, MaxIs
  <2>3. s \ {Max(s)} = 1 .. k
    BY <2>2
  <2>4. iter[1 .. k] = LastOf(pairs, 1 .. k)
    BY <1>1, <1>9
  <2>5. iter[s] = Put(iter[s \ {Max(s)}], pairs[Max(s)])
    <3> HIDE DEF s
    <3> QED
      BY <1>7, <2>1
  <2>6. LastOf(pairs, s) = Put(LastOf(pairs, s \ {Max(s)}), pairs[Max(s)])
    <3> HIDE DEF s
    <3> QED
      BY <1>4, <2>1
  <2> QED
    BY <2>3, <2>4, <2>5, <2>6
<1>10. n \in P
  <2> HIDE DEF P
  <2> QED
    BY <1>1, <1>8, <1>9, Induct
<1> QED
  BY <1>1, <1>2, <1>10 DEF D

-----------------------------------------------------------------------------
(* Sorting                                                                   *)

(* What NewestFirst can sort, and the items that it puts before i.           *)
Sortable(S) ==
  /\ IsFiniteSet(S)
  /\ \A i \in S : i.tx \in Nat /\ i.block \in Nat
  /\ \A i, j \in S : i # j => i.tx # j.tx

Ahead(S, i) == {j \in S : Newer(j, i)}

(* Block, then transaction, orders items of different transactions.          *)
LEMMA NewerOrders ==
  ASSUME NEW S, Sortable(S)
  PROVE  /\ \A i \in S : ~Newer(i, i)
         /\ \A i, j \in S : i # j => Newer(i, j) \/ Newer(j, i)
         /\ \A i, j, k \in S : Newer(i, j) /\ Newer(j, k) => Newer(i, k)
<1>1. \A i, j \in S : i # j => i.tx # j.tx
  BY DEF Sortable
<1>2. \A i \in S : i.tx \in Nat /\ i.block \in Nat
  BY DEF Sortable
<1>3. \A i \in S : ~Newer(i, i)
  BY <1>2 DEF Newer
<1>4. \A i, j \in S : i # j => Newer(i, j) \/ Newer(j, i)
  BY <1>1, <1>2 DEF Newer
<1>5. \A i, j, k \in S : Newer(i, j) /\ Newer(j, k) => Newer(i, k)
  BY <1>2 DEF Newer
<1> QED
  BY <1>3, <1>4, <1>5

(* An injection from n elements to n elements reaches them all.              *)
LEMMA Onto ==
  ASSUME NEW S, NEW T, IsFiniteSet(S), IsFiniteSet(T), Cardinality(S) = Cardinality(T),
         NEW f \in [S -> T], \A x, y \in S : f[x] = f[y] => x = y
  PROVE  \A t \in T : \E x \in S : f[x] = t
<1>1. f \in Injection(S, T)
  BY DEF Injection, IsInjective
<1>2. f \in Surjection(S, T)
  BY <1>1, FS_Injection
<1> QED
  BY <1>2 DEF Surjection

(* NewestFirst lists each item once, and in order: the place of an item is one *)
(* past the number of items that are newer.  Each has another place, and there *)
(* are as many places as items.                                              *)
LEMMA Sorts ==
  ASSUME NEW S, Sortable(S)
  PROVE  /\ NewestFirst(S) \in [1 .. Cardinality(S) -> S]
         /\ Cardinality(S) \in Nat
         /\ \A i \in S : \E k \in 1 .. Cardinality(S) : NewestFirst(S)[k] = i
         /\ \A k, l \in 1 .. Cardinality(S) :
              k < l => Newer(NewestFirst(S)[k], NewestFirst(S)[l])
<1> DEFINE n == Cardinality(S)
           D == 1 .. n
           rank == [i \in S |-> Cardinality(Ahead(S, i)) + 1]
           s == [k \in D |-> CHOOSE i \in S : rank[i] = k]
           Sorted(t) == \A k, l \in DOMAIN t : k < l => Newer(t[k], t[l])
<1>1. IsFiniteSet(S) /\ n \in Nat
  BY FS_CardinalityType DEF Sortable
<1>2. IsFiniteSet(D) /\ Cardinality(D) = n
  BY <1>1, FS_Interval
<1> HIDE DEF n
<1>3. ASSUME NEW i \in S
      PROVE  /\ IsFiniteSet(Ahead(S, i)) /\ Cardinality(Ahead(S, i)) \in Nat
             /\ Cardinality(Ahead(S, i)) < n
  <2>1. Ahead(S, i) \in SUBSET S
    BY DEF Ahead
  <2>2. i \notin Ahead(S, i)
    BY NewerOrders DEF Ahead
  <2>3. Ahead(S, i) # S
    BY <2>2
  <2>4. /\ IsFiniteSet(Ahead(S, i)) /\ Cardinality(Ahead(S, i)) <= n
        /\ n = Cardinality(Ahead(S, i)) => S = Ahead(S, i)
    BY <1>1, <2>1, FS_Subset DEF n
  <2>5. Cardinality(Ahead(S, i)) \in Nat
    BY <2>4, FS_CardinalityType
  <2> QED
    BY <1>1, <2>3, <2>4, <2>5
<1>4. rank \in [S -> D]
  <2>1. ASSUME NEW i \in S PROVE Cardinality(Ahead(S, i)) + 1 \in D
    BY <1>1, <1>3
  <2> QED
    BY <2>1
<1>5. ASSUME NEW i \in S, NEW j \in S, Newer(i, j) PROVE rank[i] < rank[j]
  <2>1. Ahead(S, i) \in SUBSET Ahead(S, j)
    BY <1>5, NewerOrders DEF Ahead
  <2>2. Ahead(S, i) # Ahead(S, j)
    <3>1. i \in Ahead(S, j) /\ i \notin Ahead(S, i)
      BY <1>5, NewerOrders DEF Ahead
    <3> QED
      BY <3>1
  <2>3. /\ Cardinality(Ahead(S, i)) <= Cardinality(Ahead(S, j))
        /\ Cardinality(Ahead(S, i)) # Cardinality(Ahead(S, j))
    BY <1>3, <2>1, <2>2, FS_Subset
  <2> QED
    BY <1>3, <2>3
<1>6. \A i, j \in S : rank[i] = rank[j] => i = j
  <2> SUFFICES ASSUME NEW i \in S, NEW j \in S, i # j, rank[i] = rank[j] PROVE FALSE
    OBVIOUS
  <2>1. Newer(i, j) \/ Newer(j, i)
    BY NewerOrders
  <2>2. rank[i] < rank[j] \/ rank[j] < rank[i]
    BY <1>5, <2>1
  <2>3. rank[i] \in D /\ rank[j] \in D
    BY <1>4
  <2> HIDE DEF rank
  <2> QED
    BY <2>2, <2>3
<1> HIDE DEF rank
<1>7. \A k \in D : \E i \in S : rank[i] = k
  <2> HIDE DEF D
  <2>1. Cardinality(S) = Cardinality(D)
    BY <1>2 DEF n
  <2> QED
    BY <1>1, <1>2, <1>4, <1>6, <2>1, Onto
<1>8. s \in [D -> S] /\ \A k \in D : rank[s[k]] = k
  BY <1>7
<1> HIDE DEF s
<1>9. s \in SetToSeqs(S)
  BY <1>8 DEF SetToSeqs, n
<1>10. Sorted(s)
  <2> SUFFICES ASSUME NEW k \in D, NEW l \in D, k < l PROVE Newer(s[k], s[l])
    BY <1>8
  <2>1. s[k] \in S /\ s[l] \in S /\ rank[s[k]] = k /\ rank[s[l]] = l
    BY <1>8
  <2>2. s[k] # s[l]
    BY <2>1
  <2>3. ~Newer(s[l], s[k])
    <3>1. Newer(s[l], s[k]) => l < k
      BY <1>5, <2>1
    <3> QED
      BY <3>1
  <2> QED
    BY <2>1, <2>2, <2>3, NewerOrders
<1> DEFINE t == NewestFirst(S)
<1>11. t \in SetToSeqs(S) /\ Sorted(t)
  BY <1>9, <1>10 DEF NewestFirst
<1> HIDE DEF t
<1>12. t \in [D -> S] /\ \A k, l \in D : k # l => t[k] # t[l]
  BY <1>11 DEF SetToSeqs, n
<1>13. \A i \in S : \E k \in D : t[k] = i
  <2> HIDE DEF D
  <2>1. Cardinality(D) = Cardinality(S)
    BY <1>2 DEF n
  <2>2. \A k, l \in D : t[k] = t[l] => k = l
    BY <1>12
  <2>3. t \in [D -> S]
    BY <1>12
  <2> QED
    BY <1>1, <1>2, <2>1, <2>2, <2>3, Onto
<1>14. \A k, l \in D : k < l => Newer(t[k], t[l])
  <2>1. DOMAIN t = D
    BY <1>12
  <2> QED
    BY <1>11, <2>1
<1> QED
  BY <1>1, <1>12, <1>13, <1>14 DEF n, t

-----------------------------------------------------------------------------
(* The blocks of a question                                                  *)

Unsigned == 0 .. Modulus - 1

LEMMA WindowFits ==
  ASSUME NEW v, v = NoValue \/ v \in Int
  PROVE  WindowOf(v) \in 1 .. Modulus - 1
<1>1. ASSUME v \in Int PROVE v % Modulus \in 0 .. Modulus - 1
  BY <1>1, RangeAssumption
<1> QED
  BY <1>1, RangeAssumption DEF WindowOf

(* The subtraction of normalizeRange never wraps.                            *)
LEMMA ReachBackIs ==
  ASSUME NEW t \in Unsigned, NEW w \in 1 .. Modulus - 1
  PROVE  ReachBack(t, w) = IF t > w THEN t - w ELSE 0
  BY RangeAssumption DEF ReachBack, Minus, Unsigned

(* The range is in order and within uint64, and holds the blocks that the    *)
(* question is about, whichever of its ends are given and in either order.   *)
LEMMA RangeIsQuestion ==
  ASSUME NEW q, q.from \in Unsigned, q.to \in Unsigned, latest \in Unsigned,
         WindowOf(env.window) \in 1 .. Modulus - 1, NEW b \in Nat
  PROVE  LET r == NormalizeRange(q.from, q.to, latest, WindowOf(env.window))
         IN /\ r[1] \in Unsigned /\ r[2] \in Unsigned /\ r[1] <= r[2]
            /\ b \in r[1] .. r[2] <=> InQuestion(q, b)
<1> DEFINE w == WindowOf(env.window)
           t == IF q.to = 0 THEN latest ELSE q.to
           f == IF q.from = 0 THEN ReachBack(t, w) ELSE q.from
           r == NormalizeRange(q.from, q.to, latest, w)
<1>1. t \in Unsigned /\ w \in 1 .. Modulus - 1 /\ Modulus \in Nat
  BY RangeAssumption
<1>2. r = IF f > t THEN <<t, f>> ELSE <<f, t>>
  BY DEF NormalizeRange
<1>3. InQuestion(q, b) <=> IF q.from = 0 THEN b <= t /\ t <= b + w
                           ELSE b \in q.from .. t \/ b \in t .. q.from
  BY DEF InQuestion
<1>4. ReachBack(t, w) = IF t > w THEN t - w ELSE 0
  BY <1>1, ReachBackIs
<1>5. CASE q.from = 0
  <2>1. f = IF t > w THEN t - w ELSE 0
    BY <1>4, <1>5
  <2> HIDE DEF t, w, f, r
  <2>2. f \in Unsigned /\ f <= t
    BY <1>1, <2>1 DEF Unsigned
  <2>3. r = <<f, t>>
    BY <1>1, <1>2, <2>2 DEF Unsigned
  <2>4. b \in f .. t <=> b <= t /\ t <= b + w
    BY <1>1, <2>1 DEF Unsigned
  <2>5. /\ r[1] \in Unsigned /\ r[2] \in Unsigned /\ r[1] <= r[2]
        /\ b \in r[1] .. r[2] <=> InQuestion(q, b)
    BY <1>1, <1>3, <1>5, <2>2, <2>3, <2>4
  <2> QED
    BY <2>5 DEF r, w
<1>6. CASE q.from # 0
  <2>1. f = q.from
    BY <1>6
  <2> HIDE DEF t, w, f, r
  <2>2. f \in Unsigned
    BY <2>1
  <2>3. CASE f > t
    <3>1. r[1] = t /\ r[2] = f
      BY <1>2, <2>3
    <3>2. /\ r[1] \in Unsigned /\ r[2] \in Unsigned /\ r[1] <= r[2]
          /\ b \in r[1] .. r[2] <=> InQuestion(q, b)
      BY <1>1, <1>3, <1>6, <2>1, <2>2, <2>3, <3>1 DEF Unsigned
    <3> QED
      BY <3>2 DEF r, w
  <2>4. CASE ~(f > t)
    <3>1. r[1] = f /\ r[2] = t
      BY <1>2, <2>4
    <3>2. /\ r[1] \in Unsigned /\ r[2] \in Unsigned /\ r[1] <= r[2]
          /\ b \in r[1] .. r[2] <=> InQuestion(q, b)
      BY <1>1, <1>3, <1>6, <2>1, <2>2, <2>4, <3>1 DEF Unsigned
    <3> QED
      BY <3>2 DEF r, w
  <2> QED
    BY <2>3, <2>4
<1> QED
  BY <1>5, <1>6

-----------------------------------------------------------------------------
(* The invariant                                                             *)

(* The configuration is the one that LoadConfig reads from the environment.  *)
ConfigStands ==
  config # NoValue =>
    /\ env \in Environments
    /\ config.bridges = MapOf(Normalised(env.bridges))
    /\ config.rpcs \in RpcMaps(env)

(* Each event has a transaction of its own, and what was sent here has the URI *)
(* that SendFile wrote for it.                                               *)
EventStands(e) ==
  /\ e.tx \in Nat /\ e.block \in Nat
  /\ e.filename # NoValue =>
       /\ e.filename \in Seq(STRING)
       /\ \E cid \in Nat \ {NoCid} : e.uri = TokenURIOf(cid, e.filename)
ChainStands ==
  /\ latest \in 0 .. MaxBlock
  /\ chain \in Seq(ToSet(chain))
  /\ \A i \in DOMAIN chain : EventStands(chain[i])
  /\ \A i, j \in DOMAIN chain : i # j => chain[i].tx # chain[j].tx

(* An answer is what its handler computes, of the state as it is: nothing moves *)
(* before the client has it.                                                 *)
Sending == \E s \in Spellings, filename \in Seq(STRING), size \in Sizes :
             reply = SendReply(s, filename, size)
Scanning == \E q \in Questions : reply = ScanReply(q)
Listing == \E r \in Recipients : reply = ListReply(r)
ReplyStands == reply # NoValue => config # NoValue /\ (Sending \/ Scanning \/ Listing)

DocsInv == ConfigStands /\ ChainStands /\ ReplyStands

(* The three kinds of answer.                                                *)
LEMMA ReplyIs ==
  ASSUME NEW s, NEW filename, NEW size, NEW q, NEW r
  PROVE  /\ SendReply(s, filename, size).of = "send"
         /\ ScanReply(q).of = "scan"
         /\ ListReply(r).of = "list"
  BY DEF SendReply, ScanReply, ListReply

LEMMA Unmoved ==
  ASSUME UNCHANGED <<env, config, chain, latest>>, NEW s, NEW filename, NEW size, NEW q, NEW r
  PROVE  /\ SendReply(s, filename, size)' = SendReply(s, filename, size)
         /\ ScanReply(q)' = ScanReply(q)
         /\ ListReply(r)' = ListReply(r)
<1>1. SendReply(s, filename, size)' = SendReply(s, filename, size)
  BY DEF SendReply
<1>2. ScanReply(q)' = ScanReply(q)
  BY DEF ScanReply, ItemOf, Listed
<1>3. ListReply(r)' = ListReply(r)
  BY DEF ListReply
<1> QED
  BY <1>1, <1>2, <1>3

LEMMA ConfigStep ==
  ASSUME ConfigStands, [DocsNext]_docsVars
  PROVE  ConfigStands'
<1>1. ASSUME NEW e \in Environments, LoadConfig(e) PROVE ConfigStands'
  <2>1. CASE Loadable(e)
    <3>1. PICK m \in RpcMaps(e) :
            config' = [byChain |-> MapOf(e.rpcUrls),
                       bridges |-> MapOf(Normalised(e.bridges)), rpcs |-> m]
      BY <1>1, <2>1 DEF LoadConfig
    <3>2. env' = e
      BY <1>1 DEF LoadConfig
    <3>3. config'.bridges = MapOf(Normalised(e.bridges)) /\ config'.rpcs = m
      BY <3>1
    <3>4. RpcMaps(env)' = RpcMaps(e)
      BY <3>2 DEF RpcMaps
    <3> QED
      BY <3>1, <3>2, <3>3, <3>4 DEF ConfigStands
  <2>2. CASE ~Loadable(e)
    BY <1>1, <2>2 DEF LoadConfig, ConfigStands
  <2> QED
    BY <2>1, <2>2
<1>2. CASE UNCHANGED <<env, config>>
  <2>1. RpcMaps(env)' = RpcMaps(env)
    BY <1>2 DEF RpcMaps
  <2> QED
    BY <1>2, <2>1 DEF ConfigStands
<1> QED
  BY <1>1, <1>2
  DEF DocsNext, docsVars, SendFile, LockSent, LockOther, Lock, Mine, ScanByContact,
      ListByOwner, Receive

(* A token is locked by a new transaction, in the latest block or the next.  *)
LEMMA LockStep ==
  ASSUME ConfigStands, ChainStands, config # NoValue, NEW e, NEW filename, Lock(e, filename),
         filename # NoValue =>
           /\ filename \in Seq(STRING)
           /\ \E cid \in Nat \ {NoCid} : e.uri = TokenURIOf(cid, filename)
  PROVE  ChainStands'
<1>1. PICK t \in Fresh, b \in 1 .. MaxBlock :
        latest' = b /\ chain' = Append(chain, Event(t, b, e, filename))
  BY DEF Lock
<1> DEFINE new == Event(t, b, e, filename)
           n == Len(chain)
<1>2. t \in Nat /\ \A i \in DOMAIN chain : chain[i].tx # t
  <2>1. Length[env] \in Nat
    BY LengthAssumption DEF ConfigStands
  <2> QED
    BY <2>1 DEF Fresh
<1>3. /\ new.tx = t /\ new.block = b /\ new.filename = filename /\ new.uri = e.uri
  BY DEF Event
<1>4. b \in Nat /\ b \in 0 .. MaxBlock
  BY RangeAssumption
<1> HIDE DEF new
<1>5. EventStands(new)
  BY <1>2, <1>3, <1>4 DEF EventStands
<1>6. /\ n \in Nat /\ DOMAIN chain = 1 .. n
      /\ DOMAIN chain' = 1 .. n + 1 /\ chain'[n+1] = new
      /\ \A i \in 1 .. n : chain'[i] = chain[i]
  BY <1>1 DEF ChainStands, new
<1>7. chain' \in Seq(ToSet(chain'))
  <2>1. \A i \in 1 .. n + 1 : chain'[i] \in ToSet(chain')
    BY <1>6 DEF ToSet
  <2>2. chain' \in Seq(ToSet(chain) \cup {new})
    BY <1>1 DEF ChainStands, new
  <2>3. Len(chain') = n + 1
    BY <1>6, <2>2
  <2> QED
    BY <1>6, <2>1, <2>2, <2>3
<1> HIDE DEF n
<1>8. \A i \in DOMAIN chain' : EventStands(chain'[i])
  <2>1. \A i \in 1 .. n : EventStands(chain[i])
    BY <1>6 DEF ChainStands
  <2>2. \A i \in 1 .. n + 1 : i \in 1 .. n \/ i = n + 1
    BY <1>6
  <2> QED
    BY <1>5, <1>6, <2>1, <2>2
<1>9. \A i, j \in DOMAIN chain' : i # j => chain'[i].tx # chain'[j].tx
  <2>1. \A i, j \in 1 .. n : i # j => chain[i].tx # chain[j].tx
    BY <1>6 DEF ChainStands
  <2>2. \A i \in 1 .. n : chain[i].tx # t
    BY <1>2, <1>6
  <2>3. \A i \in 1 .. n + 1 : i \in 1 .. n \/ i = n + 1
    BY <1>6
  <2> QED
    BY <1>3, <1>6, <2>1, <2>2, <2>3
<1> QED
  BY <1>1, <1>4, <1>7, <1>8, <1>9 DEF ChainStands, EventStands

(* What is sent is named by the URI that SendFile wrote.                     *)
LEMMA SentStands ==
  ASSUME ChainStands, ReplyStands, reply # NoValue, reply.of = "send", reply.error = "none"
  PROVE  /\ config # NoValue
         /\ reply.filename \in Seq(STRING)
         /\ \E cid \in Nat \ {NoCid} : reply.uri = TokenURIOf(cid, reply.filename)
<1>1. config # NoValue /\ Sending
  BY ReplyIs DEF ReplyStands, Sending, Scanning, Listing
<1>2. PICK s \in Spellings, filename \in Seq(STRING), size \in Sizes :
        reply = SendReply(s, filename, size)
  BY <1>1 DEF Sending
<1>3. reply.filename = filename /\ reply.uri = TokenURIOf(Len(chain) + 1, filename)
  BY <1>2 DEF SendReply
<1>4. Len(chain) + 1 \in Nat \ {NoCid}
  BY DEF ChainStands, NoCid
<1> QED
  BY <1>1, <1>3, <1>4

LEMMA ChainStep ==
  ASSUME DocsInv, [DocsNext]_docsVars
  PROVE  ChainStands'
<1>1. CASE UNCHANGED <<chain, latest>>
  BY <1>1 DEF DocsInv, ChainStands, EventStands
<1>2. ASSUME NEW r, LockSent(r) PROVE ChainStands'
  <2> DEFINE e == [bridge |-> reply.bridge, sender |-> Me, signer |-> Me, direct |-> TRUE,
                   recipient |-> r, nft |-> "ours", uri |-> reply.uri, token |-> reply.uri]
  <2>1. reply # NoValue /\ reply.of = "send" /\ reply.error = "none" /\ Lock(e, reply.filename)
    BY <1>2 DEF LockSent
  <2>2. e.uri = reply.uri
    OBVIOUS
  <2> HIDE DEF e
  <2> QED
    BY <2>1, <2>2, SentStands, LockStep DEF DocsInv
<1>3. ASSUME NEW e, LockOther(e) PROVE ChainStands'
  <2>1. config # NoValue /\ Lock(e, NoValue)
    BY <1>3 DEF LockOther, MoreEvents
  <2> QED
    BY <2>1, LockStep DEF DocsInv
<1>4. CASE Mine
  BY <1>4, RangeAssumption DEF Mine, DocsInv, ChainStands, EventStands
<1> QED
  BY <1>1, <1>2, <1>3, <1>4
  DEF DocsNext, docsVars, LoadConfig, SendFile, ScanByContact, ListByOwner, Receive

LEMMA ReplyStep ==
  ASSUME ReplyStands, [DocsNext]_docsVars
  PROVE  ReplyStands'
<1>1. CASE reply' = NoValue
  BY <1>1 DEF ReplyStands
<1>2. ASSUME UNCHANGED <<env, config, chain, latest>>, config # NoValue,
             \/ \E s \in Spellings, filename \in Seq(STRING), size \in Sizes :
                  reply' = SendReply(s, filename, size)
             \/ \E q \in Questions : reply' = ScanReply(q)
             \/ \E r \in Recipients : reply' = ListReply(r)
      PROVE  ReplyStands'
  <2>1. CASE \E s \in Spellings, filename \in Seq(STRING), size \in Sizes :
               reply' = SendReply(s, filename, size)
    BY <1>2, <2>1, Unmoved DEF ReplyStands, Sending
  <2>2. CASE \E q \in Questions : reply' = ScanReply(q)
    BY <1>2, <2>2, Unmoved DEF ReplyStands, Scanning
  <2>3. CASE \E r \in Recipients : reply' = ListReply(r)
    BY <1>2, <2>3, Unmoved DEF ReplyStands, Listing
  <2> QED
    BY <1>2, <2>1, <2>2, <2>3
<1>3. CASE UNCHANGED docsVars
  <2>1. UNCHANGED <<env, config, chain, latest>> /\ reply' = reply
    BY <1>3 DEF docsVars
  <2>2. CASE reply = NoValue
    BY <1>1, <2>1, <2>2
  <2>3. CASE reply # NoValue
    BY <1>2, <2>1, <2>3 DEF ReplyStands, Sending, Scanning, Listing
  <2> QED
    BY <2>2, <2>3
<1>4. ASSUME NEW s \in Spellings, NEW size \in Sizes,
             NEW f \in UNION {FilesIn[n] : n \in DOMAIN FilesIn}, SendFile(s, f, size)
      PROVE  ReplyStands'
  <2>1. f \in Seq(STRING)
    BY FilesAssumption
  <2>2. /\ config # NoValue /\ reply' = SendReply(s, f, size)
        /\ UNCHANGED <<env, config, chain, latest>>
    BY <1>4 DEF SendFile, MoreEvents
  <2> QED
    BY <1>2, <2>1, <2>2
<1>5. ASSUME NEW q \in Questions, ScanByContact(q) PROVE ReplyStands'
  BY <1>2, <1>5 DEF ScanByContact
<1>6. ASSUME NEW r \in Recipients, ListByOwner(r) PROVE ReplyStands'
  BY <1>2, <1>6 DEF ListByOwner
<1>7. ASSUME NEW e, LoadConfig(e) PROVE ReplyStands'
  BY <1>1, <1>7 DEF LoadConfig
<1> QED
  BY <1>1, <1>3, <1>4, <1>5, <1>6, <1>7
  DEF DocsNext, LockSent, LockOther, Lock, Mine, Receive

(* The invariant of LoadConfig, SendFile, the chain and the readers.         *)
THEOREM DocsInductive == DocsSpec => []DocsInv
<1>1. DocsInit => DocsInv
  <2> SUFFICES ASSUME DocsInit PROVE DocsInv
    OBVIOUS
  <2>1. ConfigStands /\ ReplyStands
    BY DEF DocsInit, ConfigStands, ReplyStands
  <2>2. ChainStands
    <3>1. <<>> \in Seq(ToSet(<<>>)) /\ DOMAIN <<>> = {}
      OBVIOUS
    <3> QED
      BY <3>1, RangeAssumption DEF DocsInit, ChainStands
  <2> QED
    BY <2>1, <2>2 DEF DocsInv
<1>2. DocsInv /\ [DocsNext]_docsVars => DocsInv'
  BY ConfigStep, ChainStep, ReplyStep DEF DocsInv
<1> QED
  BY <1>1, <1>2, PTL DEF DocsSpec

-----------------------------------------------------------------------------
(* Results.                                                                  *)

(* The map of the bridges, by the pairs that it is made of.                  *)
LEMMA BridgesAre ==
  ASSUME NEW e \in Environments
  PROVE  LET M == MapOf(Normalised(e.bridges))
             naming(n) == {i \in DOMAIN e.bridges : Norm[e.bridges[i][1]] = n}
         IN /\ \A n : n \in DOMAIN M <=> naming(n) # {}
            /\ \A n \in DOMAIN M : M[n] = e.bridges[Max(naming(n))][2]
<1> DEFINE b == e.bridges
           pairs == Normalised(b)
           M == MapOf(pairs)
           naming(n) == {i \in DOMAIN b : Norm[b[i][1]] = n}
           T == {<<Norm[p[1]], p[2]>> : p \in ToSet(b)}
           len == Len(b)
<1>1. b \in Seq(ToSet(b))
  BY BridgesAssumption
<1> HIDE DEF b
<1>2. len \in Nat /\ DOMAIN b = 1 .. len /\ \A i \in 1 .. len : b[i] \in ToSet(b)
  BY <1>1 DEF ToSet
<1>3. /\ DOMAIN pairs = DOMAIN b
      /\ \A i \in DOMAIN b : pairs[i][1] = Norm[b[i][1]] /\ pairs[i][2] = b[i][2]
  BY DEF Normalised
<1>4. pairs \in Seq(T)
  <2>1. pairs = [i \in 1 .. len |-> <<Norm[b[i][1]], b[i][2]>>]
    BY <1>2 DEF Normalised
  <2>2. \A i \in 1 .. len : <<Norm[b[i][1]], b[i][2]>> \in T
    BY <1>2
  <2> HIDE DEF T
  <2> QED
    BY <1>2, <2>1, <2>2
<1>5. M = LastOf(pairs, DOMAIN pairs)
  BY <1>4, MapIs
<1> HIDE DEF pairs, len
<1>6. \A n : Keyed(pairs, DOMAIN pairs, n) = naming(n)
  BY <1>3 DEF Keyed
<1>7. DOMAIN M = {pairs[i][1] : i \in DOMAIN pairs}
  BY <1>5 DEF LastOf
<1>8. \A n : n \in DOMAIN M <=> naming(n) # {}
  BY <1>3, <1>7
<1>9. ASSUME NEW n \in DOMAIN M PROVE M[n] = b[Max(naming(n))][2]
  <2>1. M[n] = pairs[Max(naming(n))][2]
    BY <1>5, <1>6, <1>7 DEF LastOf
  <2>2. Max(naming(n)) \in DOMAIN b
    <3>1. naming(n) \subseteq 0 .. len /\ naming(n) # {}
      BY <1>2, <1>8
    <3>2. Max(naming(n)) \in naming(n)
      BY <1>2, <3>1, MaxOf
    <3> QED
      BY <3>2
  <2> QED
    BY <1>3, <2>1, <2>2
<1> QED
  BY <1>8, <1>9 DEF b, pairs

(* Sending to a network and scanning it find the bridge of the last pair that *)
(* names it, and the RPC URL given for it, in every environment (LoadConfig, *)
(* SendFile, ScanByContact).                                                 *)
THEOREM NetworksFound == DocsSpec => []NetworkFound
<1>1. DocsInv => NetworkFound
  <2> SUFFICES ASSUME DocsInv, reply # NoValue, "network" \in DOMAIN reply
               PROVE  IF reply.error = "none"
                      THEN /\ reply.bridge = env.bridges[Max(Naming(reply.network))][2]
                           /\ reply.of = "scan" =>
                                \E k \in DOMAIN env.rpcs : /\ Norm[k] = Norm[reply.network]
                                                           /\ reply.url = env.rpcs[k]
                      ELSE reply.error = "no bridge" <=> Naming(reply.network) = {}
    BY DEF NetworkFound
  <2>1. config # NoValue /\ (Sending \/ Scanning \/ Listing)
    BY DEF DocsInv, ReplyStands
  <2>2. ASSUME NEW s
        PROVE  /\ Norm[s] \in DOMAIN config.bridges <=> Naming(s) # {}
               /\ Norm[s] \in DOMAIN config.bridges =>
                    config.bridges[Norm[s]] = env.bridges[Max(Naming(s))][2]
    <3>1. env \in Environments /\ config.bridges = MapOf(Normalised(env.bridges))
      BY <2>1, Zenon DEF DocsInv, ConfigStands
    <3> QED
      BY <3>1, BridgesAre, ZenonT(60) DEF Naming
  <2>3. ASSUME NEW n \in DOMAIN config.rpcs
        PROVE  \E k \in DOMAIN env.rpcs : Norm[k] = n /\ config.rpcs[n] = env.rpcs[k]
    BY <2>1 DEF DocsInv, ConfigStands, RpcMaps
  <2>4. ASSUME NEW s, NEW filename, NEW size, reply = SendReply(s, filename, size)
        PROVE  IF reply.error = "none"
               THEN /\ reply.bridge = env.bridges[Max(Naming(reply.network))][2]
                    /\ reply.of = "send"
               ELSE reply.error = "no bridge" <=> Naming(reply.network) = {}
    <3>1. ~(ReadAll(size) > Limit)
      <4> SUFFICES ASSUME ReadAll(size) > Limit PROVE FALSE
        OBVIOUS
      <4>1. reply = [of |-> "send", error |-> "too large", size |-> size]
        BY <2>4 DEF SendReply
      <4>2. "network" \notin DOMAIN [of |-> "send", error |-> "too large", size |-> size]
        OBVIOUS
      <4> QED
        BY <4>1, <4>2, Zenon
    <3>2. CASE Norm[s] \notin DOMAIN config.bridges
      <4>1. reply.error = "no bridge" /\ reply.network = s
        BY <2>4, <3>1, <3>2 DEF SendReply
      <4> QED
        BY <2>2, <3>2, <4>1
    <3>3. CASE Norm[s] \in DOMAIN config.bridges
      <4>1. reply.error = "none" /\ reply.network = s /\ reply.bridge = config.bridges[Norm[s]]
            /\ reply.of = "send"
        BY <2>4, <3>1, <3>3 DEF SendReply
      <4> QED
        BY <2>2, <3>3, <4>1
    <3> QED
      BY <3>2, <3>3
  <2>5. ASSUME NEW q, reply = ScanReply(q)
        PROVE  IF reply.error = "none"
               THEN /\ reply.bridge = env.bridges[Max(Naming(reply.network))][2]
                    /\ \E k \in DOMAIN env.rpcs : /\ Norm[k] = Norm[reply.network]
                                                  /\ reply.url = env.rpcs[k]
               ELSE reply.error = "no bridge" <=> Naming(reply.network) = {}
    <3> DEFINE s == q.network
    <3>1. CASE Norm[s] \notin DOMAIN config.bridges
      <4>1. reply.error = "no bridge" /\ reply.network = s
        BY <2>5, <3>1 DEF ScanReply
      <4> QED
        BY <2>2, <3>1, <4>1
    <3>2. CASE Norm[s] \in DOMAIN config.bridges /\ Norm[s] \notin DOMAIN config.rpcs
      <4>1. reply.error = "no rpc" /\ reply.network = s
        BY <2>5, <3>2 DEF ScanReply
      <4> QED
        BY <2>2, <3>2, <4>1
    <3>3. CASE Norm[s] \in DOMAIN config.bridges /\ Norm[s] \in DOMAIN config.rpcs
      <4>1. /\ reply.error = "none" /\ reply.network = s
            /\ reply.bridge = config.bridges[Norm[s]] /\ reply.url = config.rpcs[Norm[s]]
        BY <2>5, <3>3 DEF ScanReply
      <4> QED
        BY <2>2, <2>3, <3>3, <4>1
    <3> QED
      BY <3>1, <3>2, <3>3
  <2>6. ~Listing
    <3>1. \A x : "network" \notin DOMAIN [of |-> "list", error |-> "none", items |-> x]
      OBVIOUS
    <3> QED
      BY <3>1, Zenon DEF Listing, ListReply
  <2> QED
    BY <2>1, <2>4, <2>5, <2>6 DEF Sending, Scanning
<1> QED
  BY <1>1, DocsInductive, PTL

LEMMA ListedIsAsked ==
  ASSUME DocsInv, config # NoValue, NEW q \in Questions, NEW e \in ToSet(chain)
  PROVE  LET range == NormalizeRange(q.from, q.to, latest, WindowOf(env.window))
         IN Listed(q, range, e) <=> AskedAbout(q, config.bridges[Norm[q.network]], e)
<1>1. /\ q.from \in Unsigned /\ q.to \in Unsigned /\ latest \in Unsigned
      /\ WindowOf(env.window) \in 1 .. Modulus - 1
  <2>1. latest \in Unsigned
    BY RangeAssumption DEF DocsInv, ChainStands, Unsigned
  <2>2. env \in Environments
    BY DEF DocsInv, ConfigStands
  <2> QED
    BY <2>1, <2>2, QuestionsAssumption, WindowAssumption, WindowFits DEF Unsigned
<1>2. e.block \in Nat
  BY DEF DocsInv, ChainStands, EventStands, ToSet
<1>3. LET range == NormalizeRange(q.from, q.to, latest, WindowOf(env.window))
      IN e.block \in range[1] .. range[2] <=> InQuestion(q, e.block)
  BY <1>1, <1>2, RangeIsQuestion
<1> QED
  BY <1>3 DEF Listed, AskedAbout

(* The answer to a scan lists, sorted, the events that it was asked about and *)
(* no other one: what NormalizeRange and the filters of ScanTransfers let    *)
(* through is what AskedAbout says of the integers.                          *)
ScanListsAsked ==
  Replied("scan") =>
    reply.items = NewestFirst({ItemOf(e) : e \in {x \in ToSet(chain) :
                                 AskedAbout(reply.q, reply.bridge, x)}})

(* A scan lists what it was asked about, whatever the blocks and the window. *)
THEOREM ScansListAsked == DocsSpec => []ScanListsAsked
<1>1. DocsInv => ScanListsAsked
  <2> SUFFICES ASSUME DocsInv, Replied("scan") PROVE ScanListsAsked
    BY DEF ScanListsAsked
  <2>1. PICK q \in Questions : config # NoValue /\ reply = ScanReply(q)
    BY ReplyIs DEF Replied, DocsInv, ReplyStands, Sending, Scanning, Listing
  <2> DEFINE range == NormalizeRange(q.from, q.to, latest, WindowOf(env.window))
             bridge == config.bridges[Norm[q.network]]
             listed == {e \in ToSet(chain) : Listed(q, range, e)}
             asked == {e \in ToSet(chain) : AskedAbout(q, bridge, e)}
  <2>2. reply.q = q /\ reply.bridge = bridge
    BY <2>1 DEF Replied, ScanReply
  <2>3. reply.items = NewestFirst({ItemOf(e) : e \in listed})
    BY <2>1 DEF Replied, ScanReply
  <2>4. listed = asked
    BY <2>1, ListedIsAsked
  <2> QED
    BY <2>2, <2>3, <2>4 DEF ScanListsAsked
<1> QED
  BY <1>1, DocsInductive, PTL

(* No two events of the chain are of one transaction.                        *)
LEMMA EventsDiffer ==
  ASSUME ChainStands
  PROVE  /\ IsFiniteSet(ToSet(chain))
         /\ \A e \in ToSet(chain) : EventStands(e)
         /\ \A e, f \in ToSet(chain) : e.tx = f.tx => e = f
<1>1. Len(chain) \in Nat /\ DOMAIN chain = 1 .. Len(chain)
  BY DEF ChainStands
<1>2. IsFiniteSet(ToSet(chain))
  <2>1. chain \in Surjection(1 .. Len(chain), ToSet(chain))
    BY <1>1 DEF ChainStands, ToSet, Surjection
  <2> QED
    BY <1>1, <2>1, FS_Interval, FS_Surjection
<1>3. \A e \in ToSet(chain) : EventStands(e)
  BY DEF ChainStands, ToSet
<1>4. \A e, f \in ToSet(chain) : e.tx = f.tx => e = f
  BY DEF ChainStands, ToSet
<1> QED
  BY <1>2, <1>3, <1>4

(* There are as many items as events.                                        *)
LEMMA ItemsAre ==
  ASSUME ChainStands, NEW asked, asked \subseteq ToSet(chain)
  PROVE  LET items == {ItemOf(e) : e \in asked}
         IN Sortable(items) /\ IsFiniteSet(asked) /\ Cardinality(items) = Cardinality(asked)
<1> DEFINE items == {ItemOf(e) : e \in asked}
           f == [e \in asked |-> ItemOf(e)]
<1>1. IsFiniteSet(asked)
  BY EventsDiffer, FS_Subset
<1>2. \A e : ItemOf(e).tx = e.tx /\ ItemOf(e).block = e.block
  BY DEF ItemOf
<1>3. \A e, g \in asked : ItemOf(e) = ItemOf(g) => e = g
  BY <1>2, EventsDiffer
<1>4. f \in Bijection(asked, items)
  BY <1>3 DEF Bijection, Injection, IsInjective, Surjection
<1>5. IsFiniteSet(items) /\ Cardinality(items) = Cardinality(asked)
  BY <1>1, <1>4, FS_Bijection DEF ExistsBijection
<1>6. Sortable(items)
  <2>1. \A i \in items : i.tx \in Nat /\ i.block \in Nat
    BY <1>2, EventsDiffer DEF EventStands
  <2>2. \A i, j \in items : i # j => i.tx # j.tx
    BY <1>2, EventsDiffer
  <2> QED
    BY <1>5, <2>1, <2>2 DEF Sortable
<1> QED
  BY <1>1, <1>5, <1>6

LEMMA Answered ==
  ASSUME ChainStands, ScanListsAsked, Replied("scan")
  PROVE  LET asked == {e \in ToSet(chain) : AskedAbout(reply.q, reply.bridge, e)}
         IN /\ {reply.items[i].tx : i \in DOMAIN reply.items} = {e.tx : e \in asked}
            /\ \A i \in DOMAIN reply.items : \E e \in asked : reply.items[i] = ItemOf(e)
            /\ Len(reply.items) = Cardinality(asked)
            /\ \A i, j \in DOMAIN reply.items : i < j => Newer(reply.items[i], reply.items[j])
<1> DEFINE asked == {e \in ToSet(chain) : AskedAbout(reply.q, reply.bridge, e)}
           items == {ItemOf(e) : e \in asked}
           t == NewestFirst(items)
           n == Cardinality(items)
<1>1. reply.items = t
  BY DEF ScanListsAsked
<1>2. asked \subseteq ToSet(chain)
  OBVIOUS
<1> HIDE DEF asked
<1>3. Sortable(items) /\ n = Cardinality(asked)
  BY <1>2, ItemsAre
<1>4. \A e : ItemOf(e).tx = e.tx
  BY DEF ItemOf
<1>5. \A i \in items : \E e \in asked : i = ItemOf(e)
  OBVIOUS
<1>6. \A e \in asked : ItemOf(e) \in items
  OBVIOUS
<1> HIDE DEF items, n, t
<1>7. /\ t \in [1 .. n -> items] /\ n \in Nat
      /\ \A i \in items : \E k \in 1 .. n : t[k] = i
      /\ \A k, l \in 1 .. n : k < l => Newer(t[k], t[l])
  BY <1>3, Sorts DEF t, n
<1>8. DOMAIN t = 1 .. n /\ Len(t) = n
  BY <1>7
<1>9. \A i \in DOMAIN t : \E e \in asked : t[i] = ItemOf(e)
  BY <1>5, <1>7, <1>8
<1>10. {t[i].tx : i \in DOMAIN t} = {e.tx : e \in asked}
  <2>1. ASSUME NEW i \in DOMAIN t PROVE \E e \in asked : t[i].tx = e.tx
    BY <1>4, <1>9
  <2>2. ASSUME NEW e \in asked PROVE \E i \in DOMAIN t : t[i].tx = e.tx
    BY <1>4, <1>6, <1>7, <1>8
  <2> QED
    BY <2>1, <2>2
<1> QED
  BY <1>1, <1>3, <1>7, <1>8, <1>9, <1>10 DEF asked

(* A scan answers its question: every document asked about once, newest first *)
(* (ScanTransfers).                                                          *)
THEOREM ScansAnswer == DocsSpec => []ScanAnswersQuestion
<1>1. DocsInv /\ ScanListsAsked => ScanAnswersQuestion
  BY Answered DEF DocsInv, ScanAnswersQuestion
<1> QED
  BY <1>1, DocsInductive, ScansListAsked, PTL

(* A name is over strings and the letters; Seq(STRING) has no other texts.   *)
LEMMA ReadOfSent ==
  ASSUME ChainStands, NEW e \in ToSet(chain), e.filename # NoValue
  PROVE  /\ e.uri # Empty
         /\ ReadBySender(e.uri) = [name |-> [text |-> SentName(e)], cid |-> e.uri.cid,
                                   link |-> [gateway |-> e.uri.cid]]
         /\ ReadByRecipient(e.uri).cid = e.uri.cid
         /\ ReadByRecipient(e.uri).link = [gateway |-> e.uri.cid]
         /\ ReadByRecipient(e.uri).name = [text |-> SentName(e)] <=> KeepsName(SentName(e))
<1>1. PICK cid \in Nat \ {NoCid} : e.uri = TokenURIOf(cid, e.filename)
  BY EventsDiffer DEF EventStands
<1> DEFINE A == STRING \cup Letters
<1>2. e.filename \in Seq(A)
  <2>1. e.filename \in Seq(STRING)
    BY EventsDiffer DEF EventStands
  <2>2. STRING \subseteq A
    OBVIOUS
  <2> HIDE DEF A
  <2> QED
    BY <2>1, <2>2, SeqMonotonic
<1>3. Letters \subseteq A
  OBVIOUS
<1> HIDE DEF A
<1>4. e.uri.cid = cid /\ e.uri # Empty
  BY <1>1 DEF TokenURIOf, Empty
<1> QED
  BY <1>1, <1>2, <1>3, <1>4, Readers DEF SentName, KeepsName

(* What is sent is read by its sender under its name, and by its recipient   *)
(* unless the name holds what could be taken for an escape, whatever the names *)
(* (SendFile, parseNameCid, parseTokenURI).                                  *)
THEOREM ReadAsSent == DocsSpec => []DocumentReadAsSent
<1>1. DocsInv /\ ScanListsAsked => DocumentReadAsSent
  <2> SUFFICES ASSUME DocsInv, ScanListsAsked PROVE DocumentReadAsSent
    OBVIOUS
  <2>0. ChainStands
    BY DEF DocsInv
  <2>1. ASSUME Replied("send") PROVE reply.sealed = reply.size
    <3>1. PICK s \in Spellings, filename \in Seq(STRING), size \in Sizes :
            reply = SendReply(s, filename, size)
      BY <2>1, ReplyIs DEF Replied, DocsInv, ReplyStands, Sending, Scanning, Listing
    <3>2. reply.sealed = ReadAll(size) /\ reply.size = size /\ ~(ReadAll(size) > Limit)
      BY <2>1, <3>1 DEF Replied, SendReply
    <3>3. size \in Nat /\ Limit \in Nat
      BY FilesAssumption
    <3>4. ReadAll(size) \in {size, Limit + 1}
      <4>1. {size, Limit + 1} \subseteq Nat /\ {size, Limit + 1} # {}
        BY <3>3
      <4> QED
        BY <4>1, MinOf DEF ReadAll
    <3> QED
      BY <3>2, <3>3, <3>4
  <2>2. ASSUME Replied("scan"), NEW i \in DOMAIN reply.items, NEW e \in ToSet(chain),
               e.tx = reply.items[i].tx, e.filename # NoValue
        PROVE  LET read == reply.items[i].read
               IN /\ read.cid = e.uri.cid /\ read.link = [gateway |-> e.uri.cid]
                  /\ read.name = [text |-> SentName(e)]
    <3>1. PICK f \in ToSet(chain) : reply.items[i] = ItemOf(f)
      BY <2>0, <2>2, Answered
    <3>2. ItemOf(f).tx = f.tx
      BY DEF ItemOf
    <3>3. f = e
      BY <2>0, <2>2, <3>1, <3>2, EventsDiffer
    <3>4. ItemOf(e).read = ReadBySender(e.uri)
      BY <2>0, <2>2, ReadOfSent DEF ItemOf
    <3>5. reply.items[i].read = [name |-> [text |-> SentName(e)], cid |-> e.uri.cid,
                                 link |-> [gateway |-> e.uri.cid]]
      BY <2>0, <2>2, <3>1, <3>3, <3>4, ReadOfSent
    <3> QED
      BY <3>5
  <2>3. ASSUME Replied("list"), NEW i \in DOMAIN reply.items, NEW e \in ToSet(chain),
               e.tx = reply.items[i].tx, e.filename # NoValue
        PROVE  LET read == reply.items[i].read
               IN /\ read.cid = e.uri.cid /\ read.link = [gateway |-> e.uri.cid]
                  /\ read.name = [text |-> SentName(e)] <=> KeepsName(SentName(e))
    <3>1. PICK r \in Recipients : reply = ListReply(r)
      BY <2>3, ReplyIs DEF Replied, DocsInv, ReplyStands, Sending, Scanning, Listing
    <3>2. reply.items = [k \in {j \in DOMAIN chain : chain[j].recipient = r} |->
                           [tx |-> chain[k].tx, read |-> ReadByRecipient(chain[k].uri)]]
      BY <3>1 DEF ListReply
    <3>3. i \in DOMAIN chain /\ reply.items[i] = [tx |-> chain[i].tx,
                                                 read |-> ReadByRecipient(chain[i].uri)]
      BY <2>3, <3>2
    <3>4. chain[i] \in ToSet(chain) /\ reply.items[i].tx = chain[i].tx
          /\ reply.items[i].read = ReadByRecipient(chain[i].uri)
      BY <3>3 DEF ToSet
    <3>5. chain[i] = e
      BY <2>0, <2>3, <3>4, EventsDiffer
    <3> QED
      BY <2>0, <2>3, <3>4, <3>5, ReadOfSent
  <2> QED
    BY <2>1, <2>2, <2>3 DEF DocumentReadAsSent
<1> QED
  BY <1>1, DocsInductive, ScansListAsked, PTL
================================================================================
