--------------------------- MODULE RequestProofs ----------------------------
(***************************************************************************)
(* A request on its way from the file to the document store, for all values*)
(* of the constants.                                                       *)
(*                                                                         *)
(* Reading the requests of a file stays in step with what was written, for *)
(* every alphabet, all names and contents that are free of quotes and that *)
(* the calls of fgets have room for, and files of any number of requests.  *)
(* The file is a beginning of the texts of the requests, one behind the    *)
(* other.  The invariant says where in them the reader stands: before the  *)
(* first character of a request, or, within an EDIT, behind one of the     *)
(* newlines of its content.  From there fgets returns the characters up to *)
(* the next newline, and the words of that line are those of the request.  *)
(*                                                                         *)
(* The ring buffer that a server keeps its requests in manages its memory  *)
(* without a slip while the server lives, for every size of the buffer and *)
(* every heap, and implements the bounded sequence that ServerOps takes it *)
(* for.                                                                    *)
(***************************************************************************)
EXTENDS RequestReader, RequestQueue, SequenceTheorems, WellFoundedInduction, TLAPS

-----------------------------------------------------------------------------
(* Counting upwards                                                         *)

\* A set of numbers that has a smaller one for each of its own is empty.
LEMMA NoFirst ==
  ASSUME NEW I \in SUBSET Nat, \A i \in I : \E j \in I : j < i
  PROVE  I = {}
<1>1. SUFFICES ASSUME I # {} PROVE FALSE
  OBVIOUS
<1>2. PICK i \in I : \A j \in I : ~ (<<j, i>> \in OpToRel(<, Nat))
  BY <1>1, WFMin, NatLessThanWellFounded
<1>3. PICK j \in I : j < i
  OBVIOUS
<1>4. <<j, i>> \in OpToRel(<, Nat)
  BY <1>3 DEF OpToRel
<1>5. QED
  BY <1>2, <1>4

\* What holds of the first number and passes on to the next one holds of all.
LEMMA Climb ==
  ASSUME NEW m \in Int, NEW n \in Int, m >= 0, NEW W \in SUBSET (m..n), m \in W,
         \A i \in W : i # n => i + 1 \in W
  PROVE  W = m..n
<1> DEFINE I == (m..n) \ W
<1>1. I \in SUBSET Nat
  OBVIOUS
<1>2. \A i \in I : \E j \in I : j < i
  <2>1. TAKE i \in I
  <2>2. i \in m..n /\ i \notin W /\ i # m
    OBVIOUS
  <2>3. i - 1 \in m..n /\ i - 1 # n /\ (i - 1) + 1 = i /\ i - 1 < i
    BY <2>2
  <2>4. i - 1 \notin W
    BY <2>2, <2>3
  <2>5. QED
    BY <2>3, <2>4
<1>3. I = {}
  <2> HIDE DEF I
  <2>1. QED
    BY <1>1, <1>2, NoFirst
<1>4. QED
  BY <1>3

-----------------------------------------------------------------------------
(* Sequences put together                                                   *)

\* The i-th value of G is made of the first i sequences, up to the m-th.
ConcatenatesTo(G, ss, m) ==
    /\ G[0] = <<>>
    /\ \A i \in 1..m : G[i] = G[i - 1] \o ss[i]

\* The sequences can be put together one by one.
LEMMA ConcatenationsExist ==
  ASSUME NEW A, NEW ss \in Seq(Seq(A))
  PROVE  \E G \in [0..Len(ss) -> Seq(A)] : ConcatenatesTo(G, ss, Len(ss))
<1>1. PICK n : n = Len(ss)
  OBVIOUS
<1>2. n \in Nat /\ \A i \in 1..n : ss[i] \in Seq(A)
  BY <1>1
<1> DEFINE Reached(m) == \E G \in [0..m -> Seq(A)] : ConcatenatesTo(G, ss, m)
           W == {m \in 0..n : Reached(m)}
<1>3. Reached(0)
  <2>1. [i \in 0..0 |-> <<>>] \in [0..0 -> Seq(A)]
    OBVIOUS
  <2>2. ConcatenatesTo([i \in 0..0 |-> <<>>], ss, 0)
    BY DEF ConcatenatesTo
  <2>3. QED
    BY <2>1, <2>2
<1>4. ASSUME NEW m \in 0..n, Reached(m), m # n PROVE Reached(m + 1)
  <2>1. PICK G \in [0..m -> Seq(A)] : ConcatenatesTo(G, ss, m)
    BY <1>4
  <2>2. m \in Nat /\ m + 1 \in 1..n /\ m \in 0..m /\ G[m] \in Seq(A) /\ ss[m + 1] \in Seq(A)
    BY <1>2, <1>4
  <2>3. G[m] \o ss[m + 1] \in Seq(A)
    BY <2>2
  <2> DEFINE H == [i \in 0..(m + 1) |-> IF i = m + 1 THEN G[m] \o ss[m + 1] ELSE G[i]]
  <2>4. H \in [0..(m + 1) -> Seq(A)]
    BY <2>1, <2>2, <2>3
  <2>5. H[0] = <<>>
    BY <2>1, <2>2 DEF ConcatenatesTo
  <2>6. \A i \in 1..(m + 1) : H[i] = H[i - 1] \o ss[i]
    <3>1. TAKE i \in 1..(m + 1)
    <3>2. i - 1 \in 0..(m + 1) /\ i \in 0..(m + 1) /\ i - 1 # m + 1 /\ i - 1 \in 0..m
      BY <2>2
    <3>3. H[i - 1] = G[i - 1]
      BY <3>2
    <3>4. CASE i = m + 1
      <4>1. H[i] = G[m] \o ss[m + 1] /\ i - 1 = m
        BY <2>2, <3>2, <3>4
      <4>2. QED
        BY <3>3, <3>4, <4>1
    <3>5. CASE i # m + 1
      <4>1. H[i] = G[i] /\ i \in 1..m
        BY <2>2, <3>2, <3>5
      <4>2. QED
        BY <2>1, <3>3, <4>1 DEF ConcatenatesTo
    <3>6. QED
      BY <3>4, <3>5
  <2>7. ConcatenatesTo(H, ss, m + 1)
    BY <2>5, <2>6 DEF ConcatenatesTo
  <2>8. QED
    BY <2>4, <2>7
<1> HIDE DEF Reached
<1>5. W = 0..n
  <2>1. W \in SUBSET (0..n) /\ 0 \in W
    BY <1>2, <1>3
  <2>2. \A m \in W : m # n => m + 1 \in W
    <3>1. TAKE m \in W
    <3>2. m \in 0..n /\ Reached(m)
      OBVIOUS
    <3>3. m # n => Reached(m + 1) /\ m + 1 \in 0..n
      BY <1>2, <1>4, <3>2
    <3>4. QED
      BY <3>3
  <2> HIDE DEF W
  <2>3. QED
    BY <1>2, <2>1, <2>2, Climb
<1>6. Reached(n)
  <2>1. n \in W
    BY <1>2, <1>5
  <2>2. QED
    BY <2>1
<1>7. QED
  BY <1>1, <1>6 DEF Reached

\* FlattenSeq computes that value.
LEMMA FlattenConcatenates ==
  ASSUME NEW A, NEW ss \in Seq(Seq(A)), NEW G \in [0..Len(ss) -> Seq(A)],
         ConcatenatesTo(G, ss, Len(ss))
  PROVE  FlattenSeq(ss) = G[Len(ss)]
<1>1. PICK n : n = Len(ss)
  OBVIOUS
<1>2. /\ n \in Nat /\ (\A i \in 1..n : ss[i] \in Seq(A))
      /\ (\A i \in 0..n : G[i] \in Seq(A)) /\ G[0] = <<>>
      /\ \A i \in 1..n : G[i] = G[i - 1] \o ss[i]
  <2>1. n \in Nat /\ \A i \in 1..n : ss[i] \in Seq(A)
    BY <1>1
  <2>2. \A i \in 0..n : G[i] \in Seq(A)
    BY <1>1
  <2>3. G[0] = <<>> /\ \A i \in 1..n : G[i] = G[i - 1] \o ss[i]
    BY <1>1 DEF ConcatenatesTo
  <2>4. QED
    BY <2>1, <2>2, <2>3
<1>3. CASE n = 0
  <2>1. ss = <<>>
    BY <1>1, <1>3, EmptySeq
  <2>2. FlattenSeq(ss) = ss
    BY <1>1, <1>3 DEF FlattenSeq
  <2>3. QED
    BY <1>1, <1>2, <1>3, <2>1, <2>2
<1>4. CASE n # 0
  <2> DEFINE Step(f) == [i \in 1..n |-> IF i = 1 THEN ss[i] ELSE f[i - 1] \o ss[i]]
             h == CHOOSE f : f = Step(f)
             g == [i \in 1..n |-> G[i]]
  <2>1. 1 \in 1..n /\ G[1] = ss[1]
    <3>1. 1 \in 1..n /\ 1 - 1 = 0
      BY <1>2, <1>4
    <3>2. G[1] = G[1 - 1] \o ss[1] /\ ss[1] \in Seq(A)
      BY <1>2, <3>1
    <3>3. G[1] = <<>> \o ss[1]
      BY <1>2, <3>1, <3>2
    <3>4. QED
      BY <3>1, <3>2, <3>3
  <2>2. g = Step(g)
    <3>1. \A i \in 1..n : g[i] = IF i = 1 THEN ss[i] ELSE g[i - 1] \o ss[i]
      <4>1. TAKE i \in 1..n
      <4>2. CASE i = 1
        BY <2>1, <4>2
      <4>3. CASE i # 1
        <5>1. i - 1 \in 1..n
          BY <1>2, <4>3
        <5>2. g[i - 1] = G[i - 1] /\ G[i] = G[i - 1] \o ss[i] /\ g[i] = G[i]
          BY <1>2, <5>1
        <5>3. QED
          BY <4>3, <5>2
      <4>4. QED
        BY <4>2, <4>3
    <3>2. QED
      BY <3>1
  <2>3. h = Step(h)
    <3> HIDE DEF g, Step
    <3>1. QED
      BY <2>2
  <2> HIDE DEF h
  <2>4. \A i \in 1..n : h[i] = IF i = 1 THEN ss[i] ELSE h[i - 1] \o ss[i]
    BY <2>3
  <2> DEFINE W == {i \in 1..n : h[i] = G[i]}
  <2>5. 1 \in W
    BY <2>1, <2>4
  <2>6. \A i \in W : i # n => i + 1 \in W
    <3>1. TAKE i \in W
    <3>2. CASE i # n
      <4>1. i + 1 \in 1..n /\ i + 1 # 1 /\ (i + 1) - 1 = i
        BY <1>2, <3>2
      <4>2. h[i + 1] = h[i] \o ss[i + 1] /\ G[i + 1] = G[i] \o ss[i + 1]
        BY <1>2, <2>4, <4>1
      <4>3. QED
        BY <4>1, <4>2
    <3>3. QED
      BY <3>2
  <2>7. W = 1..n
    <3>1. W \in SUBSET (1..n) /\ n \in Int /\ 1 \in Int /\ 1 >= 0
      BY <1>2
    <3> HIDE DEF W
    <3>2. QED
      BY <2>5, <2>6, <3>1, Climb
  <2>8. h[n] = G[n]
    <3>1. n \in 1..n
      BY <1>2, <1>4
    <3>2. n \in W
      BY <2>7, <3>1
    <3>3. QED
      BY <3>2
  <2>9. FlattenSeq(ss) = h[n]
    BY <1>1, <1>4 DEF FlattenSeq, h
  <2>10. QED
    BY <1>1, <2>8, <2>9
<1>5. QED
  BY <1>3, <1>4

\* All prefixes are put together by one function.
LEMMA FlattenPrefixes ==
  ASSUME NEW A, NEW ss \in Seq(Seq(A))
  PROVE  \E G \in [0..Len(ss) -> Seq(A)] :
            /\ ConcatenatesTo(G, ss, Len(ss))
            /\ \A k \in 0..Len(ss) : FlattenSeq(SubSeq(ss, 1, k)) = G[k]
<1>1. PICK G \in [0..Len(ss) -> Seq(A)] : ConcatenatesTo(G, ss, Len(ss))
  BY ConcatenationsExist
<1>2. \A k \in 0..Len(ss) : FlattenSeq(SubSeq(ss, 1, k)) = G[k]
  <2>1. TAKE k \in 0..Len(ss)
  <2>2. PICK tt : tt = SubSeq(ss, 1, k)
    OBVIOUS
  <2>3. tt \in Seq(Seq(A)) /\ Len(tt) = k /\ (\A i \in 1..k : tt[i] = ss[i]) /\ k \in Nat
    BY <2>2
  <2> DEFINE H == [i \in 0..k |-> G[i]]
  <2>4. H \in [0..Len(tt) -> Seq(A)] /\ H[k] = G[k]
    BY <2>3
  <2>5. ConcatenatesTo(H, tt, Len(tt))
    <3>1. G[0] = <<>> /\ \A i \in 1..Len(ss) : G[i] = G[i - 1] \o ss[i]
      BY <1>1 DEF ConcatenatesTo
    <3>2. H[0] = <<>>
      BY <2>3, <3>1
    <3>3. \A i \in 1..k : H[i] = H[i - 1] \o tt[i]
      <4>1. TAKE i \in 1..k
      <4>2. i \in 0..k /\ i - 1 \in 0..k /\ i \in 1..Len(ss)
        BY <2>3
      <4>3. H[i] = G[i] /\ H[i - 1] = G[i - 1] /\ tt[i] = ss[i]
        BY <2>3, <4>2
      <4>4. QED
        BY <3>1, <4>2, <4>3
    <3> HIDE DEF H
    <3>4. QED
      BY <2>3, <3>2, <3>3 DEF ConcatenatesTo
  <2>6. FlattenSeq(tt) = H[Len(tt)]
    <3> HIDE DEF H
    <3>1. QED
      BY <2>3, <2>4, <2>5, FlattenConcatenates
  <2>7. QED
    BY <2>2, <2>3, <2>4, <2>6
<1>3. QED
  BY <1>1, <1>2

-----------------------------------------------------------------------------
(* The characters of a file                                                 *)

\* A keyword, or the number of requests, is one character of the model.
Alphabet == Characters \cup {Quote, Newline, Space, "number", "EDIT", "GET",
                             "ADD_SERVER", "REMOVE_SERVER", "other"}

\* The text of an EDIT of a document, character by character.
IsEditText(t, nm, ct) ==
    /\ t \in Seq(Alphabet)
    /\ Len(t) = Len(nm) + Len(ct) + 8
    /\ t[1] = "EDIT" /\ t[2] = Space /\ t[3] = Quote
    /\ \A i \in 1..Len(nm) : t[3 + i] = nm[i]
    /\ t[Len(nm) + 4] = Quote /\ t[Len(nm) + 5] = Space /\ t[Len(nm) + 6] = Quote
    /\ \A i \in 1..Len(ct) : t[Len(nm) + 6 + i] = ct[i]
    /\ t[Len(nm) + Len(ct) + 7] = Quote /\ t[Len(nm) + Len(ct) + 8] = Newline

\* The text of a GET.
IsGetText(t, nm) ==
    /\ t \in Seq(Alphabet)
    /\ Len(t) = Len(nm) + 5
    /\ t[1] = "GET" /\ t[2] = Space /\ t[3] = Quote
    /\ \A i \in 1..Len(nm) : t[3 + i] = nm[i]
    /\ t[Len(nm) + 4] = Quote /\ t[Len(nm) + 5] = Newline

\* The text of a request without words.
IsOtherText(t, type) ==
    t \in Seq(Alphabet) /\ Len(t) = 2 /\ t[1] = type /\ t[2] = Newline

\* A sequence of characters without a quote or newline, and one without a quote.
IsName(s) == s \in Seq(Alphabet) /\ \A i \in 1..Len(s) : s[i] # Quote /\ s[i] # Newline

IsContent(s) == s \in Seq(Alphabet) /\ \A i \in 1..Len(s) : s[i] # Quote

\* The characters of a text that are no part of a word differ.
LEMMA Letters ==
  /\ Quote \in Alphabet /\ Newline \in Alphabet /\ Space \in Alphabet
  /\ "number" \in Alphabet /\ "EDIT" \in Alphabet /\ "GET" \in Alphabet
  /\ "ADD_SERVER" \in Alphabet /\ "REMOVE_SERVER" \in Alphabet /\ "other" \in Alphabet
  /\ Quote # Newline /\ Quote # Space /\ Newline # Space
BY DEF Alphabet, Quote, Newline, Space

\* No word holds a quote.
LEMMA NamesAndContents ==
  /\ \A s \in Names : IsName(s)
  /\ \A s \in Contents : IsContent(s)
<1>1. ASSUME NEW s \in Names PROVE IsName(s)
  <2>1. s \in Seq(Characters \ {Quote, Newline})
    BY QuotesAssumption
  <2>2. s \in Seq(Alphabet)
    BY <2>1, SeqMonotonic DEF Alphabet
  <2>3. QED
    BY <2>1, <2>2 DEF IsName
<1>2. ASSUME NEW s \in Contents PROVE IsContent(s)
  <2>1. s \in Seq(Characters \ {Quote})
    BY QuotesAssumption
  <2>2. s \in Seq(Alphabet)
    BY <2>1, SeqMonotonic DEF Alphabet
  <2>3. QED
    BY <2>1, <2>2 DEF IsContent
<1>3. QED
  BY <1>1, <1>2

\* Both parts of a concatenation are found in it.
LEMMA Parts ==
  ASSUME NEW A, NEW s \in Seq(A), NEW t \in Seq(A)
  PROVE  /\ s \o t \in Seq(A) /\ Len(s \o t) = Len(s) + Len(t)
         /\ \A i \in 1..Len(s) : (s \o t)[i] = s[i]
         /\ \A i \in 1..Len(t) : (s \o t)[Len(s) + i] = t[i]
OBVIOUS

\* The same for a single character at the end.
LEMMA OneMore ==
  ASSUME NEW A, NEW s \in Seq(A), NEW e \in A
  PROVE  /\ s \o <<e>> \in Seq(A) /\ Len(s \o <<e>>) = Len(s) + 1
         /\ \A i \in 1..Len(s) : (s \o <<e>>)[i] = s[i]
         /\ (s \o <<e>>)[Len(s) + 1] = e
OBVIOUS

\* Concatenation is associative.
LEMMA Regroup ==
  ASSUME NEW A, NEW s \in Seq(A), NEW t \in Seq(A), NEW u \in Seq(A)
  PROVE  (s \o t) \o u = s \o (t \o u)
<1>1. PICK st, tu : st = s \o t /\ tu = t \o u
  OBVIOUS
<1>2. /\ st \in Seq(A) /\ Len(st) = Len(s) + Len(t)
      /\ \A i \in 1..Len(s) : st[i] = s[i]
      /\ \A i \in 1..Len(t) : st[Len(s) + i] = t[i]
  BY <1>1, Parts
<1>3. /\ tu \in Seq(A) /\ Len(tu) = Len(t) + Len(u)
      /\ \A i \in 1..Len(t) : tu[i] = t[i]
      /\ \A i \in 1..Len(u) : tu[Len(t) + i] = u[i]
  BY <1>1, Parts
<1>4. PICK l, r : l = st \o u /\ r = s \o tu
  OBVIOUS
<1>5. /\ l \in Seq(A) /\ Len(l) = Len(st) + Len(u)
      /\ \A i \in 1..Len(st) : l[i] = st[i]
      /\ \A i \in 1..Len(u) : l[Len(st) + i] = u[i]
  <2>1. /\ st \o u \in Seq(A) /\ Len(st \o u) = Len(st) + Len(u)
        /\ \A i \in 1..Len(st) : (st \o u)[i] = st[i]
        /\ \A i \in 1..Len(u) : (st \o u)[Len(st) + i] = u[i]
    <3>1. st \in Seq(A)
      BY <1>2
    <3>2. QED
      BY <3>1, Parts
  <2>2. QED
    BY <1>4, <2>1
<1>6. /\ r \in Seq(A) /\ Len(r) = Len(s) + Len(tu)
      /\ \A i \in 1..Len(s) : r[i] = s[i]
      /\ \A i \in 1..Len(tu) : r[Len(s) + i] = tu[i]
  <2>1. /\ s \o tu \in Seq(A) /\ Len(s \o tu) = Len(s) + Len(tu)
        /\ \A i \in 1..Len(s) : (s \o tu)[i] = s[i]
        /\ \A i \in 1..Len(tu) : (s \o tu)[Len(s) + i] = tu[i]
    <3>1. tu \in Seq(A)
      BY <1>3
    <3>2. QED
      BY <3>1, Parts
  <2>2. QED
    BY <1>4, <2>1
<1>7. PICK a, b, c : a = Len(s) /\ b = Len(t) /\ c = Len(u)
  OBVIOUS
<1>8. a \in Nat /\ b \in Nat /\ c \in Nat
  BY <1>7
<1>9. Len(l) = Len(r) /\ Len(l) = a + b + c
  BY <1>2, <1>3, <1>5, <1>6, <1>7, <1>8
<1>10. \A i \in 1..Len(l) : l[i] = r[i]
  <2>1. TAKE i \in 1..Len(l)
  <2>2. CASE i \in 1..a
    <3>1. i \in 1..Len(st)
      BY <1>2, <1>7, <1>8, <2>2
    <3>2. QED
      BY <1>2, <1>5, <1>6, <1>7, <2>2, <3>1
  <2>3. CASE i \in (a + 1)..(a + b)
    <3>1. PICK j \in 1..b : i = a + j
      <4>1. i - a \in 1..b /\ i = a + (i - a)
        BY <1>8, <2>3
      <4>2. QED
        BY <4>1
    <3>2. a + j \in 1..Len(st) /\ j \in 1..Len(tu)
      BY <1>2, <1>3, <1>7, <1>8
    <3>3. l[a + j] = st[a + j] /\ r[a + j] = tu[j]
      BY <1>5, <1>6, <1>7, <3>2
    <3>4. QED
      BY <1>2, <1>3, <1>7, <3>1, <3>3
  <2>4. CASE i \in (a + b + 1)..(a + b + c)
    <3>1. PICK j \in 1..c : i = (a + b) + j
      <4>1. i - (a + b) \in 1..c /\ i = (a + b) + (i - (a + b))
        BY <1>8, <2>4
      <4>2. QED
        BY <4>1
    <3>2. b + j \in 1..Len(tu) /\ (a + b) + j = a + (b + j)
      BY <1>3, <1>7, <1>8
    <3>3. l[(a + b) + j] = u[j]
      BY <1>2, <1>5, <1>7
    <3>4. r[a + (b + j)] = tu[b + j] /\ tu[b + j] = u[j]
      BY <1>3, <1>6, <1>7, <3>2
    <3>5. QED
      BY <3>1, <3>2, <3>3, <3>4
  <2>5. QED
    BY <1>8, <1>9, <2>1, <2>2, <2>3, <2>4
<1>11. l = r
  BY <1>5, <1>6, <1>9, <1>10, SeqEqual
<1>12. QED
  BY <1>1, <1>4, <1>11

\* A word between its quotes.
LEMMA QuotedText ==
  ASSUME NEW s \in Seq(Alphabet)
  PROVE  /\ Quoted(s) \in Seq(Alphabet) /\ Len(Quoted(s)) = Len(s) + 2
         /\ Quoted(s)[1] = Quote /\ Quoted(s)[Len(s) + 2] = Quote
         /\ \A i \in 1..Len(s) : Quoted(s)[1 + i] = s[i]
<1>1. <<Quote>> \in Seq(Alphabet) /\ Len(<<Quote>>) = 1 /\ <<Quote>>[1] = Quote
  BY Letters
<1>2. PICK u : u = <<Quote>> \o s
  OBVIOUS
<1>3. /\ u \in Seq(Alphabet) /\ Len(u) = Len(s) + 1 /\ u[1] = Quote
      /\ \A i \in 1..Len(s) : u[1 + i] = s[i]
  BY <1>1, <1>2
<1>4. Quoted(s) = u \o <<Quote>>
  BY <1>2 DEF Quoted
<1>5. QED
  BY <1>1, <1>3, <1>4

\* What Text writes of an EDIT.
LEMMA EditText ==
  ASSUME NEW r \in Requests, r.type = "EDIT"
  PROVE  /\ r.name \in Names /\ r.content \in Contents
         /\ r = [type |-> "EDIT", name |-> r.name, content |-> r.content]
         /\ IsEditText(Text(r), r.name, r.content)
<1>1. r \in [type : {"EDIT"}, name : Names, content : Contents]
  BY DEF Requests
<1>2. /\ r.name \in Names /\ r.content \in Contents
      /\ r = [type |-> "EDIT", name |-> r.name, content |-> r.content]
  BY <1>1
<1>3. PICK nm, ct : nm = r.name /\ ct = r.content
  OBVIOUS
<1>4. nm \in Seq(Alphabet) /\ ct \in Seq(Alphabet) /\ Len(nm) \in Nat /\ Len(ct) \in Nat
  BY <1>2, <1>3, NamesAndContents DEF IsName, IsContent
<1>5. PICK qn, qc : qn = Quoted(nm) /\ qc = Quoted(ct)
  OBVIOUS
<1>6. /\ qn \in Seq(Alphabet) /\ Len(qn) = Len(nm) + 2 /\ qn[1] = Quote /\ qn[Len(nm) + 2] = Quote
      /\ \A i \in 1..Len(nm) : qn[1 + i] = nm[i]
  BY <1>4, <1>5, QuotedText
<1>7. /\ qc \in Seq(Alphabet) /\ Len(qc) = Len(ct) + 2 /\ qc[1] = Quote /\ qc[Len(ct) + 2] = Quote
      /\ \A i \in 1..Len(ct) : qc[1 + i] = ct[i]
  BY <1>4, <1>5, QuotedText
<1>8. PICK u1 : u1 = <<"EDIT", Space>> \o qn
  OBVIOUS
<1>9. PICK u2 : u2 = u1 \o <<Space>>
  OBVIOUS
<1>10. PICK u3 : u3 = u2 \o qc
  OBVIOUS
<1>11. /\ u1 \in Seq(Alphabet) /\ Len(u1) = Len(nm) + 4 /\ u1[1] = "EDIT" /\ u1[2] = Space
       /\ u1[3] = Quote /\ u1[Len(nm) + 4] = Quote
       /\ \A i \in 1..Len(nm) : u1[3 + i] = nm[i]
  BY <1>4, <1>6, <1>8, Letters
<1>12. /\ u2 \in Seq(Alphabet) /\ Len(u2) = Len(nm) + 5 /\ u2[1] = "EDIT" /\ u2[2] = Space
       /\ u2[3] = Quote /\ u2[Len(nm) + 4] = Quote /\ u2[Len(nm) + 5] = Space
       /\ \A i \in 1..Len(nm) : u2[3 + i] = nm[i]
  <2>1. /\ u2 \in Seq(Alphabet) /\ Len(u2) = Len(u1) + 1 /\ u2[Len(u1) + 1] = Space
        /\ \A i \in 1..Len(u1) : u2[i] = u1[i]
    BY <1>9, <1>11, Letters, OneMore
  <2>2. /\ 1 \in 1..Len(u1) /\ 2 \in 1..Len(u1) /\ 3 \in 1..Len(u1) /\ Len(nm) + 4 \in 1..Len(u1)
        /\ \A i \in 1..Len(nm) : 3 + i \in 1..Len(u1)
    BY <1>4, <1>11
  <2>3. Len(u1) + 1 = Len(nm) + 5
    BY <1>4, <1>11
  <2>4. QED
    BY <1>11, <2>1, <2>2, <2>3
<1>13. /\ u3 \in Seq(Alphabet) /\ Len(u3) = Len(nm) + Len(ct) + 7
       /\ \A i \in 1..(Len(nm) + 5) : u3[i] = u2[i]
       /\ \A i \in 1..(Len(ct) + 2) : u3[Len(nm) + 5 + i] = qc[i]
  <2>1. /\ u3 \in Seq(Alphabet) /\ Len(u3) = Len(u2) + Len(qc)
        /\ \A i \in 1..Len(u2) : u3[i] = u2[i]
        /\ \A i \in 1..Len(qc) : u3[Len(u2) + i] = qc[i]
    <3>1. u2 \in Seq(Alphabet) /\ qc \in Seq(Alphabet)
      BY <1>7, <1>12
    <3>2. /\ u2 \o qc \in Seq(Alphabet) /\ Len(u2 \o qc) = Len(u2) + Len(qc)
          /\ \A i \in 1..Len(u2) : (u2 \o qc)[i] = u2[i]
          /\ \A i \in 1..Len(qc) : (u2 \o qc)[Len(u2) + i] = qc[i]
      BY <3>1, Parts
    <3>3. QED
      BY <1>10, <3>2
  <2>2. Len(u2) = Len(nm) + 5 /\ Len(qc) = Len(ct) + 2
    BY <1>7, <1>12
  <2>3. (Len(nm) + 5) + (Len(ct) + 2) = Len(nm) + Len(ct) + 7
    BY <1>4
  <2>4. QED
    BY <2>1, <2>2, <2>3
<1>14. /\ u3[1] = "EDIT" /\ u3[2] = Space /\ u3[3] = Quote /\ u3[Len(nm) + 4] = Quote
       /\ u3[Len(nm) + 5] = Space /\ \A i \in 1..Len(nm) : u3[3 + i] = nm[i]
  <2>1. /\ 1 \in 1..(Len(nm) + 5) /\ 2 \in 1..(Len(nm) + 5) /\ 3 \in 1..(Len(nm) + 5)
        /\ Len(nm) + 4 \in 1..(Len(nm) + 5) /\ Len(nm) + 5 \in 1..(Len(nm) + 5)
        /\ \A i \in 1..Len(nm) : 3 + i \in 1..(Len(nm) + 5)
    BY <1>4
  <2>2. QED
    BY <1>12, <1>13, <2>1
<1>15. /\ u3[Len(nm) + 6] = Quote /\ u3[Len(nm) + Len(ct) + 7] = Quote
       /\ \A i \in 1..Len(ct) : u3[Len(nm) + 6 + i] = ct[i]
  <2>1. PICK m : m = Len(nm) + 5
    OBVIOUS
  <2>2. m \in Nat /\ \A i \in 1..(Len(ct) + 2) : u3[m + i] = qc[i]
    BY <1>4, <1>13, <2>1
  <2>3. u3[m + 1] = qc[1] /\ u3[m + (Len(ct) + 2)] = qc[Len(ct) + 2]
    BY <1>4, <2>2
  <2>4. \A i \in 1..Len(ct) : u3[m + (1 + i)] = qc[1 + i]
    BY <1>4, <2>2
  <2>5. /\ m + 1 = Len(nm) + 6 /\ m + (Len(ct) + 2) = Len(nm) + Len(ct) + 7
        /\ \A i \in 1..Len(ct) : m + (1 + i) = Len(nm) + 6 + i
    BY <1>4, <2>1
  <2>6. QED
    BY <1>7, <2>3, <2>4, <2>5
<1>16. Text(r) = u3 \o <<Newline>>
  BY <1>3, <1>5, <1>8, <1>9, <1>10 DEF Text
<1>17. PICK t : t = Text(r)
  OBVIOUS
<1>18. /\ t \in Seq(Alphabet) /\ Len(t) = Len(nm) + Len(ct) + 8
       /\ t[Len(nm) + Len(ct) + 8] = Newline
       /\ \A i \in 1..(Len(nm) + Len(ct) + 7) : t[i] = u3[i]
  <2>1. /\ t \in Seq(Alphabet) /\ Len(t) = Len(u3) + 1 /\ t[Len(u3) + 1] = Newline
        /\ \A i \in 1..Len(u3) : t[i] = u3[i]
    <3>1. u3 \in Seq(Alphabet) /\ Newline \in Alphabet
      BY <1>13, Letters
    <3>2. /\ u3 \o <<Newline>> \in Seq(Alphabet) /\ Len(u3 \o <<Newline>>) = Len(u3) + 1
          /\ (u3 \o <<Newline>>)[Len(u3) + 1] = Newline
          /\ \A i \in 1..Len(u3) : (u3 \o <<Newline>>)[i] = u3[i]
      BY <3>1, OneMore
    <3>3. QED
      BY <1>16, <1>17, <3>2
  <2>2. Len(u3) = Len(nm) + Len(ct) + 7 /\ Len(u3) + 1 = Len(nm) + Len(ct) + 8
    BY <1>4, <1>13
  <2>3. QED
    BY <2>1, <2>2
<1>19. /\ \A i \in 1..Len(nm) : 3 + i \in 1..(Len(nm) + Len(ct) + 7)
       /\ \A i \in 1..Len(ct) : Len(nm) + 6 + i \in 1..(Len(nm) + Len(ct) + 7)
  BY <1>4
<1>20. IsEditText(t, nm, ct)
  <2>1. /\ t[1] = "EDIT" /\ t[2] = Space /\ t[3] = Quote /\ t[Len(nm) + 4] = Quote
        /\ t[Len(nm) + 5] = Space /\ t[Len(nm) + 6] = Quote
        /\ t[Len(nm) + Len(ct) + 7] = Quote
    <3>1. PICK l : l = Len(nm) + Len(ct) + 7
      OBVIOUS
    <3>2. /\ 1 \in 1..l /\ 2 \in 1..l /\ 3 \in 1..l /\ Len(nm) + 4 \in 1..l
          /\ Len(nm) + 5 \in 1..l /\ Len(nm) + 6 \in 1..l /\ l \in 1..l
      BY <1>4, <3>1
    <3>3. u3[l] = Quote /\ \A i \in 1..l : t[i] = u3[i]
      BY <1>15, <1>18, <3>1
    <3>4. QED
      BY <1>14, <1>15, <3>1, <3>2, <3>3
  <2>2. \A i \in 1..Len(nm) : t[3 + i] = nm[i]
    BY <1>14, <1>18, <1>19
  <2>3. \A i \in 1..Len(ct) : t[Len(nm) + 6 + i] = ct[i]
    BY <1>15, <1>18, <1>19
  <2>4. QED
    BY <1>18, <2>1, <2>2, <2>3 DEF IsEditText
<1>21. QED
  BY <1>2, <1>3, <1>17, <1>20

\* What Text writes of a GET.
LEMMA GetText ==
  ASSUME NEW r \in Requests, r.type = "GET"
  PROVE  /\ r.name \in Names
         /\ r = [type |-> "GET", name |-> r.name]
         /\ IsGetText(Text(r), r.name)
<1>1. r \in [type : {"GET"}, name : Names]
  BY DEF Requests
<1>2. r.name \in Names /\ r = [type |-> "GET", name |-> r.name]
  BY <1>1
<1>3. PICK nm : nm = r.name
  OBVIOUS
<1>4. nm \in Seq(Alphabet) /\ Len(nm) \in Nat
  BY <1>2, <1>3, NamesAndContents DEF IsName
<1>5. PICK qn : qn = Quoted(nm)
  OBVIOUS
<1>6. /\ qn \in Seq(Alphabet) /\ Len(qn) = Len(nm) + 2 /\ qn[1] = Quote /\ qn[Len(nm) + 2] = Quote
      /\ \A i \in 1..Len(nm) : qn[1 + i] = nm[i]
  BY <1>4, <1>5, QuotedText
<1>7. PICK u : u = <<"GET", Space>> \o qn
  OBVIOUS
<1>8. /\ u \in Seq(Alphabet) /\ Len(u) = Len(nm) + 4 /\ u[1] = "GET" /\ u[2] = Space
      /\ u[3] = Quote /\ u[Len(nm) + 4] = Quote
      /\ \A i \in 1..Len(nm) : u[3 + i] = nm[i]
  BY <1>4, <1>6, <1>7, Letters
<1>9. Text(r) = u \o <<Newline>>
  BY <1>3, <1>5, <1>7 DEF Text
<1>10. PICK t : t = Text(r)
  OBVIOUS
<1>11. /\ t \in Seq(Alphabet) /\ Len(t) = Len(nm) + 5 /\ t[1] = "GET" /\ t[2] = Space
       /\ t[3] = Quote /\ t[Len(nm) + 4] = Quote /\ t[Len(nm) + 5] = Newline
       /\ \A i \in 1..Len(nm) : t[3 + i] = nm[i]
  BY <1>4, <1>8, <1>9, <1>10, Letters
<1>12. QED
  BY <1>2, <1>3, <1>10, <1>11 DEF IsGetText

\* What Text writes of the other requests.
LEMMA OtherText ==
  ASSUME NEW r \in Requests, r.type # "EDIT", r.type # "GET"
  PROVE  /\ r = [type |-> r.type]
         /\ r.type \in {"ADD_SERVER", "REMOVE_SERVER", "other"}
         /\ IsOtherText(Text(r), r.type)
<1>1. r \in [type : {"ADD_SERVER", "REMOVE_SERVER", "other"}]
  BY DEF Requests
<1>2. r = [type |-> r.type] /\ r.type \in {"ADD_SERVER", "REMOVE_SERVER", "other"}
  BY <1>1
<1>3. Text(r) = <<r.type, Newline>>
  BY DEF Text
<1>4. r.type \in Alphabet
  BY <1>2, Letters
<1>5. QED
  BY <1>2, <1>3, <1>4, Letters DEF IsOtherText

\* Whatever the request, its text is made of characters of the alphabet.
LEMMA TextIsText ==
  ASSUME NEW r \in Requests
  PROVE  Text(r) \in Seq(Alphabet)
BY EditText, GetText, OtherText DEF IsEditText, IsGetText, IsOtherText

\* The text of the first k requests, for every k.
TextsTo(H, rs) ==
    /\ H \in [0..Len(rs) -> Seq(Alphabet)]
    /\ H[0] = Header
    /\ \A i \in 1..Len(rs) : H[i] = H[i - 1] \o Text(rs[i])
    /\ \A k \in 0..Len(rs) : Texts(SubSeq(rs, 1, k)) = H[k]
    /\ Texts(rs) = H[Len(rs)]

\* The line with the number of requests.
LEMMA HeaderText ==
  Header \in Seq(Alphabet) /\ Len(Header) = 2 /\ Header[1] = "number" /\ Header[2] = Newline
BY Letters DEF Header

\* The texts of the first requests exist, and Texts writes them.
LEMMA TextsOfPrefixes ==
  ASSUME NEW rs \in Seq(Requests)
  PROVE  \E H : TextsTo(H, rs)
<1>1. PICK ss : ss = [i \in DOMAIN rs |-> Text(rs[i])]
  OBVIOUS
<1>2. PICK n : n = Len(rs)
  OBVIOUS
<1>3. n \in Nat /\ DOMAIN rs = 1..n /\ \A i \in 1..n : rs[i] \in Requests
  BY <1>2
<1>4. /\ ss \in Seq(Seq(Alphabet)) /\ Len(ss) = n /\ DOMAIN ss = 1..n
      /\ \A i \in 1..n : ss[i] = Text(rs[i]) /\ ss[i] \in Seq(Alphabet)
  <2>1. \A i \in 1..n : Text(rs[i]) \in Seq(Alphabet)
    BY <1>3, TextIsText
  <2>2. ss = [i \in 1..n |-> Text(rs[i])]
    BY <1>1, <1>3
  <2>3. ss \in [1..n -> Seq(Alphabet)]
    BY <2>1, <2>2
  <2>4. ss \in Seq(Seq(Alphabet)) /\ Len(ss) = n
    BY <1>3, <2>3
  <2>5. QED
    BY <2>1, <2>2, <2>3, <2>4
<1>5. PICK G \in [0..n -> Seq(Alphabet)] :
         /\ ConcatenatesTo(G, ss, n)
         /\ \A k \in 0..n : FlattenSeq(SubSeq(ss, 1, k)) = G[k]
  BY <1>4, FlattenPrefixes
<1>6. /\ G[0] = <<>> /\ \A i \in 1..n : G[i] = G[i - 1] \o ss[i]
  BY <1>5 DEF ConcatenatesTo
<1>7. \A k \in 0..n : Texts(SubSeq(rs, 1, k)) = Header \o G[k]
  <2>1. TAKE k \in 0..n
  <2>2. PICK ps : ps = SubSeq(rs, 1, k)
    OBVIOUS
  <2>3. DOMAIN ps = 1..k /\ \A i \in 1..k : ps[i] = rs[i] /\ i \in 1..n
    BY <1>2, <1>3, <2>2
  <2>4. [i \in DOMAIN ps |-> Text(ps[i])] = [i \in 1..k |-> ss[i]]
    <3>1. \A i \in 1..k : Text(ps[i]) = ss[i]
      BY <1>4, <2>3
    <3>2. QED
      BY <2>3, <3>1
  <2>5. SubSeq(ss, 1, k) = [i \in 1..k |-> ss[i]]
    BY <1>4
  <2>6. QED
    BY <1>5, <2>2, <2>4, <2>5 DEF Texts
<1> DEFINE H == [k \in 0..n |-> Header \o G[k]]
<1>8. H \in [0..n -> Seq(Alphabet)]
  <2>1. \A k \in 0..n : G[k] \in Seq(Alphabet)
    BY <1>5
  <2>2. \A k \in 0..n : Header \o G[k] \in Seq(Alphabet)
    <3>1. TAKE k \in 0..n
    <3>2. G[k] \in Seq(Alphabet) /\ Header \in Seq(Alphabet)
      BY <2>1, HeaderText
    <3>3. QED
      BY <3>2, Parts
  <2>3. QED
    BY <2>2
<1>9. H[0] = Header
  <2>1. H[0] = Header \o <<>>
    <3>1. 0 \in 0..n
      BY <1>3
    <3>2. H[0] = Header \o G[0]
      BY <3>1
    <3>3. QED
      BY <1>6, <3>2
  <2>2. QED
    BY <2>1, HeaderText, ConcatEmptySeq
<1>10. \A i \in 1..n : H[i] = H[i - 1] \o Text(rs[i])
  <2>1. TAKE i \in 1..n
  <2>2. i - 1 \in 0..n /\ i \in 0..n
    BY <1>3
  <2>3. H[i] = Header \o (G[i - 1] \o ss[i]) /\ H[i - 1] = Header \o G[i - 1]
    <3>1. G[i] = G[i - 1] \o ss[i]
      BY <1>6
    <3>2. H[i] = Header \o G[i] /\ H[i - 1] = Header \o G[i - 1]
      BY <2>2
    <3>3. QED
      BY <3>1, <3>2
  <2>4. G[i - 1] \in Seq(Alphabet) /\ ss[i] \in Seq(Alphabet) /\ ss[i] = Text(rs[i])
    BY <1>4, <1>5, <2>2
  <2>5. Header \o (G[i - 1] \o ss[i]) = (Header \o G[i - 1]) \o ss[i]
    <3>1. PICK h, a, b : h = Header /\ a = G[i - 1] /\ b = ss[i]
      OBVIOUS
    <3>2. h \in Seq(Alphabet) /\ a \in Seq(Alphabet) /\ b \in Seq(Alphabet)
      BY <2>4, <3>1, HeaderText
    <3>3. \A x, y, z \in Seq(Alphabet) : (x \o y) \o z = x \o (y \o z)
      BY Regroup
    <3>4. (h \o a) \o b = h \o (a \o b)
      BY <3>2, <3>3
    <3>5. QED
      BY <3>1, <3>4
  <2>6. QED
    BY <2>3, <2>4, <2>5
<1>11. \A k \in 0..n : Texts(SubSeq(rs, 1, k)) = H[k]
  BY <1>7
<1>12. Texts(rs) = H[n]
  <2>1. SubSeq(rs, 1, n) = rs /\ n \in 0..n
    BY <1>2, <1>3, SubSeqFull
  <2>2. QED
    BY <1>11, <2>1
<1>13. QED
  <2> HIDE DEF H
  <2>1. QED
    BY <1>2, <1>8, <1>9, <1>10, <1>11, <1>12 DEF TextsTo

\* The texts of more requests begin with those of fewer.
LEMMA MoreTexts ==
  ASSUME NEW rs \in Seq(Requests), NEW H, TextsTo(H, rs), NEW k \in 0..Len(rs)
  PROVE  \A m \in k..Len(rs) : /\ Len(H[k]) <= Len(H[m])
                               /\ \A i \in 1..Len(H[k]) : H[m][i] = H[k][i]
<1>1. PICK n : n = Len(rs)
  OBVIOUS
<1>2. /\ n \in Nat /\ k \in 0..n /\ (\A m \in 0..n : H[m] \in Seq(Alphabet) /\ Len(H[m]) \in Nat)
      /\ \A m \in 1..n : H[m] = H[m - 1] \o Text(rs[m]) /\ Text(rs[m]) \in Seq(Alphabet)
  <2>1. /\ H \in [0..n -> Seq(Alphabet)] /\ n \in Nat /\ k \in 0..n
        /\ \A m \in 1..n : H[m] = H[m - 1] \o Text(rs[m])
    <3>1. n \in Nat /\ k \in 0..n
      BY <1>1
    <3>2. H \in [0..n -> Seq(Alphabet)]
      BY <1>1 DEF TextsTo
    <3>3. \A m \in 1..n : H[m] = H[m - 1] \o Text(rs[m])
      BY <1>1 DEF TextsTo
    <3>4. QED
      BY <3>1, <3>2, <3>3
  <2>2. \A m \in 0..n : H[m] \in Seq(Alphabet) /\ Len(H[m]) \in Nat
    BY <2>1
  <2>3. \A m \in 1..n : Text(rs[m]) \in Seq(Alphabet)
    <3>1. \A m \in 1..n : rs[m] \in Requests
      BY <1>1
    <3>2. QED
      BY <3>1, TextIsText
  <2>4. QED
    BY <2>1, <2>2, <2>3
<1> DEFINE Begins(m) == /\ Len(H[k]) <= Len(H[m])
                        /\ \A i \in 1..Len(H[k]) : H[m][i] = H[k][i]
           W == {m \in k..n : Begins(m)}
<1>3. Begins(k)
  BY <1>2
<1>4. ASSUME NEW m \in k..n, Begins(m), m # n PROVE Begins(m + 1)
  <2>1. m + 1 \in 1..n /\ m \in 0..n /\ m + 1 \in 0..n /\ (m + 1) - 1 = m
    BY <1>2, <1>4
  <2>2. PICK u, t : u = H[m] /\ t = Text(rs[m + 1])
    OBVIOUS
  <2>3. u \in Seq(Alphabet) /\ t \in Seq(Alphabet) /\ H[m + 1] = u \o t
    BY <1>2, <2>1, <2>2
  <2>4. Len(u \o t) = Len(u) + Len(t) /\ \A i \in 1..Len(u) : (u \o t)[i] = u[i]
    BY <2>3, Parts
  <2>5. Len(u) \in Nat /\ Len(t) \in Nat /\ Len(H[k]) \in Nat
    BY <1>2, <2>3
  <2>6. Len(H[k]) <= Len(u) /\ \A i \in 1..Len(H[k]) : i \in 1..Len(u) /\ u[i] = H[k][i]
    BY <1>4, <2>2, <2>5
  <2>7. QED
    BY <2>3, <2>4, <2>5, <2>6
<1> HIDE DEF Begins
<1>5. W = k..n
  <2>1. W \in SUBSET (k..n) /\ k \in W /\ k \in Int /\ n \in Int /\ k >= 0
    BY <1>2, <1>3
  <2>2. \A m \in W : m # n => m + 1 \in W
    <3>1. TAKE m \in W
    <3>2. m \in k..n /\ Begins(m)
      OBVIOUS
    <3>3. m # n => Begins(m + 1) /\ m + 1 \in k..n
      BY <1>2, <1>4, <3>2
    <3>4. QED
      BY <3>3
  <2> HIDE DEF W
  <2>3. QED
    BY <2>1, <2>2, Climb
<1>6. \A m \in k..n : Begins(m)
  <2>1. TAKE m \in k..n
  <2>2. m \in W
    BY <1>5
  <2>3. QED
    BY <2>2
<1>7. QED
  BY <1>1, <1>6 DEF Begins

\* Where a request stands in the text of all.
LEMMA NextText ==
  ASSUME NEW rs \in Seq(Requests), NEW k \in 0..(Len(rs) - 1)
  PROVE  /\ Texts(rs) \in Seq(Alphabet)
         /\ Len(Texts(SubSeq(rs, 1, k))) \in Nat
         /\ Len(Texts(SubSeq(rs, 1, k + 1))) = Len(Texts(SubSeq(rs, 1, k))) + Len(Text(rs[k + 1]))
         /\ Len(Texts(SubSeq(rs, 1, k + 1))) <= Len(Texts(rs))
         /\ \A i \in 1..Len(Text(rs[k + 1])) :
               Texts(rs)[Len(Texts(SubSeq(rs, 1, k))) + i] = Text(rs[k + 1])[i]
<1>1. PICK H : TextsTo(H, rs)
  BY TextsOfPrefixes
<1>2. PICK n : n = Len(rs)
  OBVIOUS
<1>3. n \in Nat /\ k \in 0..n /\ k + 1 \in 0..n /\ k + 1 \in 1..n /\ (k + 1) - 1 = k
      /\ n \in (k + 1)..n
  BY <1>2
<1>4. PICK p, q, u, t : p = H[k] /\ q = H[k + 1] /\ u = H[n] /\ t = Text(rs[k + 1])
  OBVIOUS
<1>5. /\ Texts(SubSeq(rs, 1, k)) = p /\ Texts(SubSeq(rs, 1, k + 1)) = q /\ Texts(rs) = u
      /\ q = p \o t
      /\ p \in Seq(Alphabet) /\ q \in Seq(Alphabet) /\ u \in Seq(Alphabet)
  <2>1. H \in [0..n -> Seq(Alphabet)] /\ Texts(rs) = H[n]
    BY <1>1, <1>2 DEF TextsTo
  <2>2. H[k + 1] = H[(k + 1) - 1] \o Text(rs[k + 1])
    BY <1>1, <1>2, <1>3 DEF TextsTo
  <2>3. Texts(SubSeq(rs, 1, k)) = H[k] /\ Texts(SubSeq(rs, 1, k + 1)) = H[k + 1]
    BY <1>1, <1>2, <1>3 DEF TextsTo
  <2>4. H[k] \in Seq(Alphabet) /\ H[k + 1] \in Seq(Alphabet) /\ H[n] \in Seq(Alphabet)
    BY <1>3, <2>1
  <2>5. QED
    BY <1>3, <1>4, <2>1, <2>2, <2>3, <2>4
<1>6. t \in Seq(Alphabet)
  BY <1>2, <1>3, <1>4, TextIsText
<1>7. /\ Len(p) \in Nat /\ Len(t) \in Nat /\ Len(q) = Len(p) + Len(t)
      /\ \A i \in 1..Len(t) : q[Len(p) + i] = t[i]
  <2>1. Len(p \o t) = Len(p) + Len(t) /\ \A i \in 1..Len(t) : (p \o t)[Len(p) + i] = t[i]
    BY <1>5, <1>6, Parts
  <2>2. QED
    BY <1>5, <1>6, <2>1
<1>8. Len(q) <= Len(u) /\ \A i \in 1..Len(q) : u[i] = q[i]
  BY <1>1, <1>2, <1>3, <1>4, MoreTexts
<1>9. \A i \in 1..Len(t) : u[Len(p) + i] = t[i]
  <2>1. \A i \in 1..Len(t) : Len(p) + i \in 1..Len(q)
    BY <1>7
  <2>2. QED
    BY <1>7, <1>8, <2>1
<1>10. QED
  BY <1>4, <1>5, <1>7, <1>8, <1>9

\* Every file begins with the header.
LEMMA TextsBegin ==
  ASSUME NEW rs \in Seq(Requests)
  PROVE  /\ Texts(rs) \in Seq(Alphabet) /\ Len(Texts(rs)) >= 2
         /\ Texts(rs)[1] = "number" /\ Texts(rs)[2] = Newline
         /\ Texts(SubSeq(rs, 1, 0)) = Header
<1>1. PICK H : TextsTo(H, rs)
  BY TextsOfPrefixes
<1>2. PICK n : n = Len(rs)
  OBVIOUS
<1>3. n \in Nat /\ 0 \in 0..n /\ n \in 0..n /\ H[0] = Header /\ Texts(rs) = H[n]
      /\ H[n] \in Seq(Alphabet) /\ Texts(SubSeq(rs, 1, 0)) = H[0]
  BY <1>1, <1>2 DEF TextsTo
<1>4. Len(Header) <= Len(H[n]) /\ \A i \in 1..Len(Header) : H[n][i] = Header[i]
  BY <1>1, <1>2, <1>3, MoreTexts
<1>5. QED
  BY <1>3, <1>4, HeaderText

-----------------------------------------------------------------------------
(* Reading a line                                                           *)

\* The minimum of a set of numbers.
LEMMA LeastIs ==
  ASSUME NEW S \in SUBSET Int, NEW x \in S, \A y \in S : x <= y
  PROVE  Min(S) = x
<1>1. \A z \in S : (\A y \in S : z <= y) => z = x
  OBVIOUS
<1>2. QED
  BY <1>1 DEF Min

\* fgets returns the characters up to the next newline if they are not too many.
LEMMA FgetsReturnsLine ==
  ASSUME file \in Seq(Alphabet), pos \in Nat, NEW m \in Nat, NEW l \in Nat, l > 0, l <= m,
         pos + l <= Len(file), file[pos + l] = Newline,
         \A i \in 1..(l - 1) : file[pos + i] # Newline
  PROVE  /\ Fgets(m) \in Seq(Alphabet) /\ Len(Fgets(m)) = l
         /\ \A i \in 1..l : Fgets(m)[i] = file[pos + i]
<1> DEFINE stops == {i \in LineEnds(file) : i > pos} \cup {Len(file), pos + m}
<1>1. PICK e : e = pos + l
  OBVIOUS
<1>2. /\ e \in Nat /\ e > pos /\ e <= Len(file) /\ Len(file) \in Nat /\ DOMAIN file = 1..Len(file)
      /\ file[e] = Newline /\ e \in 1..Len(file) /\ e <= pos + m
  BY <1>1
<1>3. stops \in SUBSET Int
  BY <1>2 DEF LineEnds
<1>4. e \in stops
  <2>1. e \in LineEnds(file)
    BY <1>2 DEF LineEnds
  <2>2. QED
    BY <1>2, <2>1
<1>5. \A y \in stops : e <= y
  <2>1. PICK g : g = Len(file)
    OBVIOUS
  <2>2. g \in Nat /\ e <= g
    BY <1>2, <2>1
  <2>3. \A y \in 1..g : y > pos /\ file[y] = Newline => e <= y
    <3>1. SUFFICES ASSUME NEW y \in 1..g, y > pos, file[y] = Newline, y < e PROVE FALSE
      BY <1>2, <2>2
    <3>2. PICK d : d = y - pos
      OBVIOUS
    <3>3. d \in 1..(l - 1) /\ pos + d = y
      BY <1>1, <2>2, <3>1, <3>2
    <3>4. QED
      BY <3>1, <3>3
  <2>4. \A y \in LineEnds(file) : y \in 1..g /\ file[y] = Newline
    BY <1>2, <2>1 DEF LineEnds
  <2>5. \A y \in stops : \/ y \in LineEnds(file) /\ y > pos
                         \/ y = g
                         \/ y = pos + m
    BY <2>1
  <2> HIDE DEF stops
  <2>6. QED
    BY <1>2, <2>2, <2>3, <2>4, <2>5
<1>6. Min(stops) = e
  <2> HIDE DEF stops
  <2>1. QED
    BY <1>3, <1>4, <1>5, LeastIs
<1>7. Fgets(m) = SubSeq(file, pos + 1, e)
  BY <1>6 DEF Fgets
<1>8. PICK a, f : a = pos + 1 /\ f = SubSeq(file, a, e)
  OBVIOUS
<1>9. \A i \in a..e : file[i] \in Alphabet
  BY <1>2, <1>8
<1>10. a \in Int /\ e \in Int /\ a <= e /\ (e - a) + 1 = l
  BY <1>1, <1>2, <1>8
<1>11. f \in Seq(Alphabet) /\ Len(f) = l /\ \A i \in 1..l : f[i] = file[a + i - 1]
  BY <1>8, <1>9, <1>10, SubSeqProperties
<1>12. \A i \in 1..l : a + i - 1 = pos + i
  BY <1>8
<1>13. QED
  BY <1>7, <1>8, <1>11, <1>12

\* read_quoted_string finds a word between the first two quotes.
LEMMA TwoQuotes ==
  ASSUME NEW buffer \in Seq(Alphabet), NEW len \in Nat, NEW a \in Nat, NEW b \in Nat,
         a > 0, a < b, b <= Len(buffer), b <= len,
         buffer[a] = Quote, buffer[b] = Quote,
         \A i \in 1..(b - 1) : buffer[i] = Quote => i = a
  PROVE  ReadQuotedString(buffer, len, 0) = [start |-> a, end |-> b]
<1> DEFINE quotes == {i \in DOMAIN buffer : i <= len /\ buffer[i] = Quote}
<1>1. a \in quotes /\ b \in quotes /\ quotes \in SUBSET Int
  OBVIOUS
<1>2. \A y \in quotes : y = a \/ b <= y
  OBVIOUS
<1>3. Min(quotes) = a
  <2>1. \A y \in quotes : a <= y
    BY <1>2
  <2> HIDE DEF quotes
  <2>2. QED
    BY <1>1, <2>1, LeastIs
<1>4. Min(quotes \ {a}) = b
  <2>1. \A y \in quotes \ {a} : b <= y
    BY <1>2
  <2>2. b \in quotes \ {a} /\ quotes \ {a} \in SUBSET Int
    BY <1>1
  <2> HIDE DEF quotes
  <2>3. QED
    BY <2>1, <2>2, LeastIs
<1>5. quotes # {} /\ quotes \ {a} # {}
  BY <1>1
<1>6. QED
  BY <1>3, <1>4, <1>5 DEF ReadQuotedString

\* It finds where a word begins that is not closed.
LEMMA OneQuote ==
  ASSUME NEW buffer \in Seq(Alphabet), NEW len \in Nat, NEW a \in Nat,
         a > 0, a <= Len(buffer), a <= len, buffer[a] = Quote,
         \A i \in 1..Len(buffer) : buffer[i] = Quote => i = a
  PROVE  ReadQuotedString(buffer, len, 0) = [start |-> a, end |-> 0]
<1> DEFINE quotes == {i \in DOMAIN buffer : i <= len /\ buffer[i] = Quote}
<1>1. quotes = {a}
  OBVIOUS
<1>2. Min(quotes) = a
  <2>1. quotes \in SUBSET Int /\ a \in quotes /\ \A y \in quotes : a <= y
    BY <1>1
  <2> HIDE DEF quotes
  <2>2. QED
    BY <2>1, LeastIs
<1>3. quotes # {} /\ quotes \ {a} = {}
  BY <1>1
<1>4. QED
  BY <1>2, <1>3 DEF ReadQuotedString

\* It finds the end of a word that was begun in an earlier line.
LEMMA ClosingQuote ==
  ASSUME NEW buffer \in Seq(Alphabet), NEW len \in Nat, NEW b \in Nat,
         b > 0, b <= Len(buffer), b <= len, buffer[b] = Quote,
         \A i \in 1..(b - 1) : buffer[i] # Quote
  PROVE  ReadQuotedString(buffer, len, 1) = [start |-> 1, end |-> b]
<1> DEFINE quotes == {i \in DOMAIN buffer : i <= len /\ buffer[i] = Quote}
<1>1. b \in quotes /\ quotes \in SUBSET Int /\ \A y \in quotes : b <= y
  OBVIOUS
<1>2. Min(quotes) = b
  <2> HIDE DEF quotes
  <2>1. QED
    BY <1>1, LeastIs
<1>3. quotes # {}
  BY <1>1
<1>4. QED
  BY <1>2, <1>3 DEF ReadQuotedString

\* It finds nothing in a line without quotes.
LEMMA NoQuote ==
  ASSUME NEW buffer \in Seq(Alphabet), NEW len \in Nat,
         \A i \in 1..Len(buffer) : buffer[i] # Quote
  PROVE  ReadQuotedString(buffer, len, 1) = [start |-> 1, end |-> 0]
<1> DEFINE quotes == {i \in DOMAIN buffer : i <= len /\ buffer[i] = Quote}
<1>1. quotes = {}
  OBVIOUS
<1>2. QED
  BY <1>1 DEF ReadQuotedString

-----------------------------------------------------------------------------
(* The file and how far it has been read                                    *)

\* The file is the beginning of what was written, up to the end of a line.
FileHolds ==
    /\ written \in Seq(Requests)
    /\ file \in Seq(Alphabet)
    /\ Len(file) \in 1..Len(Texts(written))
    /\ \A i \in 1..Len(file) : file[i] = Texts(written)[i]
    /\ file[Len(file)] = Newline

\* The first k requests have been read.
Read(k) ==
    /\ k \in 0..Len(written)
    /\ got = SubSeq(written, 1, k)
    /\ todo = Len(written) - k

\* o characters of the text of the next one have been read too.
At(k, o) == Read(k) /\ pos = Len(Texts(SubSeq(written, 1, k))) + o

\* An EDIT is being read: the line that ends with the j-th character of its content
\* was the last one.
InContent(k, j) ==
    /\ k < Len(written) /\ written[k + 1].type = "EDIT"
    /\ name = written[k + 1].name
    /\ j \in LineEnds(written[k + 1].content)
    /\ content = SubSeq(written[k + 1].content, 1, j)
    /\ At(k, Len(name) + 6 + j)

\* Between two requests the reader stands at the beginning of the next one, within a
\* content at the beginning of one of its lines; it dies over a broken file only.
ReaderInv ==
    /\ FileHolds
    /\ pos \in 0..Len(file)
    /\ pc \in {"header", "request", "content", "done", "died"}
    /\ pc = "header" => pos = 0 /\ got = <<>>
    /\ pc \in {"request", "done"} =>
          \E k \in 0..Len(written) : At(k, 0) /\ (pc = "done" <=> k = Len(written))
    /\ pc = "content" => \E k \in 0..Len(written), j \in Nat : InContent(k, j)
    /\ DiesOnlyIfBroken

\* l characters behind the o-th one of a text is the end of a line.
EndsLine(t, o, l) ==
    /\ l > 0 /\ o + l <= Len(t) /\ t[o + l] = Newline
    /\ \A i \in 1..(l - 1) : t[o + i] # Newline

\* A line is the l characters behind the o-th one of a text.
Gives(line, t, o, l) ==
    line \in Seq(Alphabet) /\ Len(line) = l /\ \A i \in 1..l : line[i] = t[o + i]

\* The next line of a request, if the file has not ended before it.
LEMMA LineOfRequest ==
  ASSUME FileHolds, pos \in 0..Len(file), ~ AtEnd,
         NEW k \in 0..(Len(written) - 1), NEW o \in Nat, At(k, o),
         NEW m \in Nat, NEW l \in Nat, l <= m, EndsLine(Text(written[k + 1]), o, l)
  PROVE  pos + l <= Len(file) /\ Gives(Fgets(m), Text(written[k + 1]), o, l)
<1>1. PICK t, p, f : /\ t = Text(written[k + 1]) /\ p = Len(Texts(SubSeq(written, 1, k)))
                     /\ f = Texts(written)
  OBVIOUS
<1>2. /\ t = Text(written[k + 1]) /\ p = Len(Texts(SubSeq(written, 1, k))) /\ f = Texts(written)
      /\ l > 0 /\ o + l <= Len(t) /\ t[o + l] = Newline
      /\ \A i \in 1..(l - 1) : t[o + i] # Newline
  BY <1>1 DEF EndsLine
<1>3. /\ p \in Nat /\ p + Len(t) <= Len(f) /\ Len(t) \in Nat /\ Len(f) \in Nat
      /\ \A i \in 1..Len(t) : f[p + i] = t[i]
  <2>1. written \in Seq(Requests) /\ written[k + 1] \in Requests
    BY DEF FileHolds
  <2>2. t \in Seq(Alphabet)
    BY <1>2, <2>1, TextIsText
  <2>3. f \in Seq(Alphabet) /\ p \in Nat /\ \A i \in 1..Len(t) : f[p + i] = t[i]
    BY <1>2, <2>1, NextText
  <2>4. PICK q : q = Len(Texts(SubSeq(written, 1, k + 1)))
    OBVIOUS
  <2>5. q = p + Len(t) /\ q <= Len(f)
    BY <1>2, <2>1, <2>4, NextText
  <2>6. QED
    BY <2>2, <2>3, <2>5
<1>4. pos = p + o /\ pos < Len(file) /\ Len(file) \in Nat /\ pos \in Nat
  BY <1>2 DEF At, AtEnd, FileHolds
<1>5. \A i \in 1..l : o + i \in 1..Len(t) /\ pos + i = p + (o + i)
  BY <1>2, <1>3, <1>4
<1>6. \A i \in 1..l : f[pos + i] = t[o + i]
  BY <1>3, <1>5
<1>7. \A i \in 1..l : pos + i <= Len(file) => file[pos + i] = t[o + i]
  <2>1. TAKE i \in 1..l
  <2>2. SUFFICES ASSUME pos + i <= Len(file) PROVE file[pos + i] = t[o + i]
    OBVIOUS
  <2>3. pos + i \in 1..Len(file)
    BY <1>4, <2>2
  <2>4. file[pos + i] = f[pos + i]
    BY <1>2, <2>3 DEF FileHolds
  <2>5. QED
    BY <1>6, <2>4
<1>8. pos + l <= Len(file)
  <2>1. SUFFICES ASSUME Len(file) < pos + l PROVE FALSE
    BY <1>4
  <2>2. PICK d, g : d = g - pos /\ g = Len(file)
    OBVIOUS
  <2>3. d \in 1..(l - 1) /\ pos + d = Len(file) /\ d \in 1..l /\ pos + d <= Len(file)
    <3>1. g \in Nat /\ pos \in Nat /\ pos < g /\ g < pos + l
      BY <1>4, <2>1, <2>2
    <3>2. d \in 1..(l - 1) /\ pos + d = g
      BY <2>2, <3>1
    <3>3. QED
      BY <2>2, <3>1, <3>2
  <2>4. file[pos + d] = t[o + d] /\ t[o + d] # Newline
    BY <1>2, <1>7, <2>3
  <2>5. QED
    BY <2>3, <2>4 DEF FileHolds
<1>9. /\ file[pos + l] = Newline
      /\ \A i \in 1..(l - 1) : file[pos + i] # Newline
      /\ \A i \in 1..l : file[pos + i] = t[o + i]
  <2>1. \A i \in 1..l : file[pos + i] = t[o + i]
    BY <1>4, <1>7, <1>8
  <2>2. l \in 1..l /\ \A i \in 1..(l - 1) : i \in 1..l
    BY <1>2
  <2>3. QED
    BY <1>2, <2>1, <2>2
<1>10. file \in Seq(Alphabet)
  BY DEF FileHolds
<1>11. /\ Fgets(m) \in Seq(Alphabet) /\ Len(Fgets(m)) = l
       /\ \A i \in 1..l : Fgets(m)[i] = file[pos + i]
  BY <1>2, <1>4, <1>8, <1>9, <1>10, FgetsReturnsLine
<1>12. QED
  BY <1>2, <1>8, <1>9, <1>11 DEF Gives

-----------------------------------------------------------------------------
(* The words of a line                                                      *)

\* What SubSeq takes out of a sequence.
LEMMA Slice ==
  ASSUME NEW A, NEW s \in Seq(A), NEW a \in Nat, NEW n \in Nat, a + n <= Len(s)
  PROVE  /\ SubSeq(s, a + 1, a + n) \in Seq(A) /\ Len(SubSeq(s, a + 1, a + n)) = n
         /\ \A i \in 1..n : SubSeq(s, a + 1, a + n)[i] = s[a + i]
<1>1. PICK b, e, u : b = a + 1 /\ e = a + n /\ u = SubSeq(s, b, e)
  OBVIOUS
<1>2. /\ b \in Int /\ e \in Int /\ (e - b) + 1 = n /\ (n > 0 <=> b <= e)
      /\ \A i \in b..e : s[i] \in A
  BY <1>1
<1>3. u \in Seq(A) /\ Len(u) = n
  BY <1>1, <1>2, SubSeqProperties
<1>4. \A i \in 1..n : u[i] = s[b + i - 1]
  BY <1>1, <1>2, SubSeqProperties
<1>5. \A i \in 1..n : b + i - 1 = a + i
  BY <1>1
<1>6. QED
  BY <1>1, <1>3, <1>4, <1>5

\* A part of a sequence is known by its characters.
LEMMA SliceIs ==
  ASSUME NEW A, NEW s \in Seq(A), NEW w \in Seq(A), NEW a \in Nat, a + Len(w) <= Len(s),
         \A i \in 1..Len(w) : s[a + i] = w[i]
  PROVE  SubSeq(s, a + 1, a + Len(w)) = w
<1>1. PICK n, u : n = Len(w) /\ u = SubSeq(s, a + 1, a + n)
  OBVIOUS
<1>2. n \in Nat /\ a + n <= Len(s)
  BY <1>1
<1>3. u \in Seq(A) /\ Len(u) = n /\ \A i \in 1..n : u[i] = s[a + i]
  BY <1>1, <1>2, Slice
<1>4. \A i \in 1..Len(u) : u[i] = w[i]
  BY <1>1, <1>3
<1>5. u = w
  BY <1>1, <1>3, <1>4, SeqEqual
<1>6. QED
  BY <1>1, <1>5

\* The name of an EDIT is found, whether or not its line holds the whole content.
LEMMA EditName ==
  ASSUME NEW t, NEW nm, NEW ct, IsEditText(t, nm, ct), IsName(nm), IsContent(ct),
         NEW line \in Seq(Alphabet), Len(line) >= Len(nm) + 6, Len(line) <= Len(t),
         Len(line) <= RequestLength, RequestLength \in Nat,
         \A i \in 1..Len(line) : line[i] = t[i]
  PROVE  /\ ReadQuotedString(line, RequestLength, 0) = [start |-> 3, end |-> Len(nm) + 4]
         /\ SubSeq(line, 4, Len(nm) + 3) = nm
<1>1. PICK n : n = Len(nm)
  OBVIOUS
<1>2. nm \in Seq(Alphabet) /\ n \in Nat /\ (\A i \in 1..n : nm[i] # Quote) /\ Len(line) \in Nat
  BY <1>1 DEF IsName
<1>3. /\ line[1] = "EDIT" /\ line[2] = Space /\ line[3] = Quote /\ line[n + 4] = Quote
      /\ \A i \in 1..n : line[3 + i] = nm[i]
  <2>1. /\ 1 \in 1..Len(line) /\ 2 \in 1..Len(line) /\ 3 \in 1..Len(line) /\ n + 4 \in 1..Len(line)
        /\ \A i \in 1..n : 3 + i \in 1..Len(line)
    BY <1>1, <1>2
  <2>2. /\ t[1] = "EDIT" /\ t[2] = Space /\ t[3] = Quote /\ t[n + 4] = Quote
        /\ \A i \in 1..n : t[3 + i] = nm[i]
    BY <1>1 DEF IsEditText
  <2>3. QED
    BY <2>1, <2>2
<1>4. \A i \in 1..(n + 3) : line[i] = Quote => i = 3
  <2>1. TAKE i \in 1..(n + 3)
  <2>2. CASE i \in {1, 2}
    BY <1>3, <2>2 DEF Quote, Space
  <2>3. CASE i > 3
    <3>1. i - 3 \in 1..n /\ 3 + (i - 3) = i
      BY <1>2, <2>3
    <3>2. line[i] = nm[i - 3] /\ nm[i - 3] # Quote
      BY <1>2, <1>3, <3>1
    <3>3. QED
      BY <3>2
  <2>4. QED
    BY <1>2, <2>1, <2>2, <2>3
<1>5. ReadQuotedString(line, RequestLength, 0) = [start |-> 3, end |-> n + 4]
  <2>1. PICK b : b = n + 4
    OBVIOUS
  <2>2. b \in Nat /\ 3 < b /\ b <= Len(line) /\ b <= RequestLength /\ b - 1 = n + 3
    BY <1>1, <1>2, <2>1
  <2>3. line[3] = Quote /\ line[b] = Quote /\ \A i \in 1..(b - 1) : line[i] = Quote => i = 3
    BY <1>3, <1>4, <2>1, <2>2
  <2>4. QED
    BY <2>1, <2>2, <2>3, TwoQuotes
<1>6. SubSeq(line, 4, n + 3) = nm
  <2>1. SubSeq(line, 3 + 1, 3 + Len(nm)) = nm
    BY <1>1, <1>2, <1>3, SliceIs
  <2>2. 3 + 1 = 4 /\ 3 + Len(nm) = n + 3
    BY <1>1, <1>2
  <2>3. QED
    BY <2>1, <2>2
<1>7. QED
  BY <1>1, <1>5, <1>6

\* What follows the name.
Behind(line, nm) == SubSeq(line, Len(nm) + 5, Len(line))

\* What follows the name, when the content has no newline.
LEMMA WholeContent ==
  ASSUME NEW t, NEW nm, NEW ct, IsEditText(t, nm, ct), IsName(nm), IsContent(ct),
         Fits(ct), LineEnds(ct) = {},
         NEW line \in Seq(Alphabet), Len(line) = Len(t),
         \A i \in 1..Len(line) : line[i] = t[i]
  PROVE  /\ ReadQuotedString(Behind(line, nm), DocContentLength, 0)
               = [start |-> 2, end |-> Len(ct) + 3]
         /\ SubSeq(Behind(line, nm), 3, Len(ct) + 2) = ct
<1>1. PICK rest : rest = Behind(line, nm)
  OBVIOUS
<1>2. PICK n, c : n = Len(nm) /\ c = Len(ct)
  OBVIOUS
<1>3. /\ nm \in Seq(Alphabet) /\ ct \in Seq(Alphabet) /\ n \in Nat /\ c \in Nat
      /\ Len(line) = n + c + 8 /\ c + 3 <= DocContentLength /\ DocContentLength \in Nat
      /\ \A i \in 1..c : ct[i] # Quote
  BY <1>2, LengthsAssumption DEF IsName, IsContent, IsEditText, Fits
<1>4. /\ rest \in Seq(Alphabet) /\ Len(rest) = c + 4
      /\ \A i \in 1..(c + 4) : rest[i] = line[(n + 4) + i]
  <2>1. PICK a, m : a = n + 4 /\ m = c + 4
    OBVIOUS
  <2>2. a \in Nat /\ m \in Nat /\ a + m = Len(line) /\ a + 1 = Len(nm) + 5
    BY <1>2, <1>3, <2>1
  <2>3. /\ SubSeq(line, a + 1, a + m) \in Seq(Alphabet) /\ Len(SubSeq(line, a + 1, a + m)) = m
        /\ \A i \in 1..m : SubSeq(line, a + 1, a + m)[i] = line[a + i]
    BY <2>2, Slice
  <2>4. QED
    BY <1>1, <2>1, <2>2, <2>3 DEF Behind
<1>5. \A i \in 1..(c + 4) : rest[i] = t[(n + 4) + i]
  <2>1. \A i \in 1..(c + 4) : (n + 4) + i \in 1..Len(line)
    BY <1>3
  <2>2. QED
    BY <1>4, <2>1
<1>6. /\ rest[1] = Space /\ rest[2] = Quote /\ rest[c + 3] = Quote /\ rest[c + 4] = Newline
      /\ \A i \in 1..c : rest[2 + i] = ct[i]
  <2>1. /\ t[n + 5] = Space /\ t[n + 6] = Quote /\ t[n + c + 7] = Quote /\ t[n + c + 8] = Newline
        /\ \A i \in 1..c : t[n + 6 + i] = ct[i]
    BY <1>2 DEF IsEditText
  <2>2. /\ (n + 4) + 1 = n + 5 /\ (n + 4) + 2 = n + 6 /\ (n + 4) + (c + 3) = n + c + 7
        /\ (n + 4) + (c + 4) = n + c + 8 /\ \A i \in 1..c : (n + 4) + (2 + i) = n + 6 + i
    BY <1>3
  <2>3. /\ 1 \in 1..(c + 4) /\ 2 \in 1..(c + 4) /\ c + 3 \in 1..(c + 4) /\ c + 4 \in 1..(c + 4)
        /\ \A i \in 1..c : 2 + i \in 1..(c + 4)
    BY <1>3
  <2>4. rest[1] = Space /\ rest[2] = Quote
    <3>1. rest[1] = t[(n + 4) + 1] /\ rest[2] = t[(n + 4) + 2]
      BY <1>5, <2>3
    <3>2. QED
      BY <2>1, <2>2, <3>1
  <2>5. rest[c + 3] = Quote
    BY <1>5, <2>1, <2>2, <2>3
  <2>6. rest[c + 4] = Newline
    BY <1>5, <2>1, <2>2, <2>3
  <2>7. \A i \in 1..c : rest[2 + i] = ct[i]
    BY <1>5, <2>1, <2>2, <2>3
  <2>8. QED
    BY <2>4, <2>5, <2>6, <2>7
<1>7. \A i \in 1..(c + 2) : rest[i] = Quote => i = 2
  <2>1. rest[1] # Quote
    BY <1>6 DEF Quote, Space
  <2>2. \A k \in 1..c : rest[2 + k] # Quote
    BY <1>3, <1>6
  <2>3. TAKE i \in 1..(c + 2)
  <2>4. CASE i > 2
    <3>1. PICK k : k = i - 2
      OBVIOUS
    <3>2. k \in 1..c /\ 2 + k = i
      BY <1>3, <2>4, <3>1
    <3>3. QED
      BY <2>2, <3>2
  <2>5. i = 1 \/ i = 2 \/ i > 2
    BY <1>3
  <2>6. QED
    BY <2>1, <2>4, <2>5
<1>8. ReadQuotedString(rest, DocContentLength, 0) = [start |-> 2, end |-> c + 3]
  <2>1. PICK b : b = c + 3
    OBVIOUS
  <2>2. b \in Nat /\ 2 < b /\ b <= Len(rest) /\ b <= DocContentLength /\ b - 1 = c + 2
    BY <1>3, <1>4, <2>1
  <2>3. rest[2] = Quote /\ rest[b] = Quote /\ \A i \in 1..(b - 1) : rest[i] = Quote => i = 2
    BY <1>6, <1>7, <2>1, <2>2
  <2>4. rest \in Seq(Alphabet) /\ DocContentLength \in Nat /\ 2 \in Nat /\ 2 > 0
    BY <1>3, <1>4
  <2>5. ReadQuotedString(rest, DocContentLength, 0) = [start |-> 2, end |-> b]
    BY <2>2, <2>3, <2>4, TwoQuotes
  <2>6. QED
    BY <2>1, <2>5
<1>9. SubSeq(rest, 3, c + 2) = ct
  <2>1. rest \in Seq(Alphabet) /\ ct \in Seq(Alphabet) /\ 2 + Len(ct) <= Len(rest)
    BY <1>2, <1>3, <1>4
  <2>2. \A i \in 1..Len(ct) : rest[2 + i] = ct[i]
    BY <1>2, <1>6
  <2>3. SubSeq(rest, 2 + 1, 2 + Len(ct)) = ct
    BY <2>1, <2>2, SliceIs
  <2>4. 2 + 1 = 3 /\ 2 + Len(ct) = c + 2
    BY <1>2, <1>3
  <2>5. QED
    BY <2>3, <2>4
<1>10. QED
  BY <1>1, <1>2, <1>8, <1>9

\* What follows the name, when the content goes on in the next line.
LEMMA FirstLineOfContent ==
  ASSUME NEW t, NEW nm, NEW ct, IsEditText(t, nm, ct), IsName(nm), IsContent(ct),
         DocContentLength >= 2, NEW j \in 1..Len(ct),
         NEW line \in Seq(Alphabet), Len(line) = Len(nm) + 6 + j,
         \A i \in 1..Len(line) : line[i] = t[i]
  PROVE  /\ ReadQuotedString(Behind(line, nm), DocContentLength, 0) = [start |-> 2, end |-> 0]
         /\ SubSeq(Behind(line, nm), 3, Len(Behind(line, nm))) = SubSeq(ct, 1, j)
<1>1. PICK rest : rest = Behind(line, nm)
  OBVIOUS
<1>2. PICK n : n = Len(nm)
  OBVIOUS
<1>3. /\ nm \in Seq(Alphabet) /\ ct \in Seq(Alphabet) /\ n \in Nat /\ Len(ct) \in Nat /\ j \in Nat
      /\ Len(line) = n + 6 + j /\ DocContentLength \in Nat /\ j <= Len(ct)
      /\ \A i \in 1..j : ct[i] # Quote
  BY <1>2, LengthsAssumption DEF IsName, IsContent
<1>4. /\ rest \in Seq(Alphabet) /\ Len(rest) = j + 2
      /\ \A i \in 1..(j + 2) : rest[i] = line[(n + 4) + i]
  <2>1. PICK a, m : a = n + 4 /\ m = j + 2
    OBVIOUS
  <2>2. a \in Nat /\ m \in Nat /\ a + m = Len(line) /\ a + 1 = Len(nm) + 5
    BY <1>2, <1>3, <2>1
  <2>3. /\ SubSeq(line, a + 1, a + m) \in Seq(Alphabet) /\ Len(SubSeq(line, a + 1, a + m)) = m
        /\ \A i \in 1..m : SubSeq(line, a + 1, a + m)[i] = line[a + i]
    BY <2>2, Slice
  <2>4. QED
    BY <1>1, <2>1, <2>2, <2>3 DEF Behind
<1>5. \A i \in 1..(j + 2) : rest[i] = t[(n + 4) + i]
  <2>1. \A i \in 1..(j + 2) : (n + 4) + i \in 1..Len(line)
    BY <1>3
  <2>2. QED
    BY <1>4, <2>1
<1>6. /\ rest[1] = Space /\ rest[2] = Quote
      /\ \A i \in 1..j : rest[2 + i] = ct[i]
  <2>1. t[n + 5] = Space /\ t[n + 6] = Quote /\ \A i \in 1..j : t[n + 6 + i] = ct[i]
    BY <1>2, <1>3 DEF IsEditText
  <2>2. /\ (n + 4) + 1 = n + 5 /\ (n + 4) + 2 = n + 6
        /\ \A i \in 1..j : (n + 4) + (2 + i) = n + 6 + i
    BY <1>3
  <2>3. 1 \in 1..(j + 2) /\ 2 \in 1..(j + 2) /\ \A i \in 1..j : 2 + i \in 1..(j + 2)
    BY <1>3
  <2>4. QED
    BY <1>5, <2>1, <2>2, <2>3
<1>7. \A i \in 1..Len(rest) : rest[i] = Quote => i = 2
  <2>1. TAKE i \in 1..Len(rest)
  <2>2. CASE i = 1
    BY <1>6, <2>2 DEF Quote, Space
  <2>3. CASE i > 2
    <3>1. i - 2 \in 1..j /\ 2 + (i - 2) = i
      BY <1>3, <1>4, <2>3
    <3>2. rest[i] = ct[i - 2] /\ ct[i - 2] # Quote
      BY <1>3, <1>6, <3>1
    <3>3. QED
      BY <3>2
  <2>4. QED
    BY <1>3, <1>4, <2>1, <2>2, <2>3
<1>8. ReadQuotedString(rest, DocContentLength, 0) = [start |-> 2, end |-> 0]
  <2>1. 2 \in Nat /\ 2 > 0 /\ 2 <= Len(rest) /\ 2 <= DocContentLength
    BY <1>3, <1>4
  <2>2. QED
    BY <1>3, <1>4, <1>6, <1>7, <2>1, OneQuote
<1>9. SubSeq(rest, 3, Len(rest)) = SubSeq(ct, 1, j)
  <2>1. PICK w : w = SubSeq(ct, 1, j)
    OBVIOUS
  <2>2. w \in Seq(Alphabet) /\ Len(w) = j /\ \A i \in 1..j : w[i] = ct[i]
    BY <1>3, <2>1
  <2>3. SubSeq(rest, 2 + 1, 2 + Len(w)) = w
    <3>1. 2 + Len(w) <= Len(rest)
      BY <1>3, <1>4, <2>2
    <3>2. \A i \in 1..Len(w) : rest[2 + i] = w[i]
      BY <1>6, <2>2
    <3>3. rest \in Seq(Alphabet) /\ w \in Seq(Alphabet)
      BY <1>4, <2>2
    <3>4. QED
      BY <3>1, <3>2, <3>3, SliceIs
  <2>4. 2 + 1 = 3 /\ 2 + Len(w) = Len(rest)
    BY <1>3, <1>4, <2>2
  <2>5. QED
    BY <2>1, <2>3, <2>4
<1>10. QED
  BY <1>1, <1>2, <1>8, <1>9

-----------------------------------------------------------------------------
(* The lines of a request                                                   *)

\* The maximum of a set of numbers.
LEMMA GreatestIs ==
  ASSUME NEW S \in SUBSET Int, NEW x \in S, \A y \in S : y <= x
  PROVE  Max(S) = x
<1>1. \A z \in S : (\A y \in S : z >= y) => z = x
  OBVIOUS
<1>2. QED
  BY <1>1 DEF Max

\* The next newline of a text, if there is one.
LEMMA NextLineEnd ==
  ASSUME NEW s \in Seq(Alphabet), NEW j \in Nat, \E i \in LineEnds(s) : i > j
  PROVE  \E e \in LineEnds(s) : e > j /\ \A i \in 1..Len(s) : j < i /\ i < e => s[i] # Newline
<1> DEFINE I == {i \in LineEnds(s) : i > j}
<1>1. I \in SUBSET Nat /\ I # {}
  BY DEF LineEnds
<1>2. PICK e \in I : \A i \in I : ~ (i < e)
  <2> HIDE DEF I
  <2>1. QED
    BY <1>1, NoFirst
<1>3. \A i \in 1..Len(s) : s[i] = Newline => i \in LineEnds(s)
  BY DEF LineEnds
<1>4. QED
  BY <1>2, <1>3

\* There is room for the first line of a content, and for the last one.
LEMMA RoomForLines ==
  ASSUME NEW ct \in Seq(Alphabet), Fits(ct), NEW j \in LineEnds(ct)
  PROVE  /\ j \in 1..Len(ct) /\ ct[j] = Newline
         /\ Len(ct) <= DocContentLength
         /\ (\A i \in LineEnds(ct) : i <= j) => (Len(ct) - j) + 2 <= DocContentLength
         /\ DocContentLength >= 2
<1>1. PICK c, L : c = Len(ct) /\ L = LineEnds(ct)
  OBVIOUS
<1>2. /\ L \in SUBSET (1..c) /\ j \in L /\ c \in Nat /\ j \in 1..c /\ ct[j] = Newline
      /\ DocContentLength \in Nat
  BY <1>1, LengthsAssumption DEF LineEnds
<1>3. c <= DocContentLength /\ (c - Max(L)) + 2 <= DocContentLength
  BY <1>1, <1>2 DEF Fits
<1>4. (\A i \in L : i <= j) => (c - j) + 2 <= DocContentLength
  <2>1. SUFFICES ASSUME \A i \in L : i <= j PROVE (c - j) + 2 <= DocContentLength
    OBVIOUS
  <2>2. L \in SUBSET Int
    BY <1>2
  <2>3. Max(L) = j
    BY <1>2, <2>1, <2>2, GreatestIs
  <2>4. QED
    BY <1>3, <2>3
<1>5. DocContentLength >= 2
  <2>1. CASE c >= 2
    BY <1>2, <1>3, <2>1
  <2>2. CASE c < 2
    <3>1. \A i \in L : i <= j
      BY <1>2, <2>2
    <3>2. QED
      BY <1>2, <1>4, <3>1
  <2>3. QED
    BY <1>2, <2>1, <2>2
<1>6. QED
  BY <1>1, <1>2, <1>3, <1>4, <1>5

\* No newline comes before the end of a text, save in a content.
LEMMA NoEarlyNewline ==
  ASSUME NEW r \in Requests, r.type = "EDIT", NEW m \in 0..Len(r.content),
         \A i \in 1..m : r.content[i] # Newline
  PROVE  \A i \in 1..(Len(r.name) + 6 + m) : Text(r)[i] # Newline
<1>1. PICK t, nm, ct : t = Text(r) /\ nm = r.name /\ ct = r.content
  OBVIOUS
<1>2. IsEditText(t, nm, ct) /\ IsName(nm) /\ IsContent(ct)
  BY <1>1, EditText, NamesAndContents
<1>3. PICK n : n = Len(nm)
  OBVIOUS
<1>4. /\ n \in Nat /\ m \in Nat /\ (\A i \in 1..n : nm[i] # Newline)
      /\ Len(ct) \in Nat /\ m <= Len(ct)
  BY <1>1, <1>2, <1>3 DEF IsName, IsContent
<1>5. /\ t[1] # Newline /\ t[2] # Newline /\ t[3] # Newline
      /\ t[n + 4] # Newline /\ t[n + 5] # Newline /\ t[n + 6] # Newline
  BY <1>2, <1>3 DEF IsEditText, Quote, Space, Newline
<1>6. \A i \in 1..n : t[3 + i] # Newline
  BY <1>2, <1>3, <1>4 DEF IsEditText
<1>7. \A i \in 1..m : t[n + 6 + i] # Newline
  <2>1. \A i \in 1..Len(ct) : t[n + 6 + i] = ct[i]
    BY <1>2, <1>3 DEF IsEditText
  <2>2. \A i \in 1..m : i \in 1..Len(ct) /\ ct[i] # Newline
    BY <1>1, <1>4
  <2>3. QED
    BY <2>1, <2>2
<1>8. SUFFICES ASSUME NEW i \in 1..(n + 6 + m) PROVE t[i] # Newline
  BY <1>1, <1>3
<1>9. CASE i \in 4..(n + 3)
  <2>1. PICK d : d = i - 3
    OBVIOUS
  <2>2. d \in 1..n /\ 3 + d = i
    BY <1>4, <1>9, <2>1
  <2>3. QED
    BY <1>6, <2>2
<1>10. CASE i > n + 6
  <2>1. PICK d : d = i - (n + 6)
    OBVIOUS
  <2>2. d \in 1..m /\ n + 6 + d = i
    BY <1>4, <1>10, <2>1
  <2>3. QED
    BY <1>7, <2>2
<1>11. i \in {1, 2, 3} \/ i \in 4..(n + 3) \/ i \in {n + 4, n + 5, n + 6} \/ i > n + 6
  BY <1>4
<1>12. QED
  BY <1>5, <1>9, <1>10, <1>11

\* The first line of a request, up to its end or the first newline of its content.
FirstLineLength(r, l) ==
    \/ /\ l = Len(Text(r))
       /\ r.type = "EDIT" => LineEnds(r.content) = {}
    \/ /\ r.type = "EDIT"
       /\ \E j \in LineEnds(r.content) : l = Len(r.name) + 6 + j

\* Every request has a first line, and fgets has room for it.
LEMMA FirstLineEnds ==
  ASSUME NEW r \in Requests
  PROVE  \E l \in Nat : /\ FirstLineLength(r, l)
                        /\ l > 0 /\ l <= RequestLength /\ l <= Len(Text(r))
                        /\ Text(r)[l] = Newline /\ Text(r)[1] = r.type
                        /\ \A i \in 1..(l - 1) : Text(r)[i] # Newline
<1>1. PICK t : t = Text(r)
  OBVIOUS
<1>2. /\ RequestTypeLength \in Nat /\ DocNameLength \in Nat /\ DocContentLength \in Nat
      /\ RequestTypeLength >= 8
      /\ RequestLength = RequestTypeLength + DocNameLength + DocContentLength
  BY LengthsAssumption DEF RequestLength
<1>3. CASE r.type \notin {"EDIT", "GET"}
  <2>1. IsOtherText(t, r.type) /\ r.type \in {"ADD_SERVER", "REMOVE_SERVER", "other"}
    BY <1>1, <1>3, OtherText
  <2>2. Len(t) = 2 /\ t[1] = r.type /\ t[2] = Newline /\ t[1] # Newline
    BY <2>1 DEF IsOtherText, Newline
  <2>3. 2 \in Nat /\ 2 > 0 /\ 2 <= RequestLength /\ \A i \in 1..(2 - 1) : i = 1
    BY <1>2
  <2>4. FirstLineLength(r, 2)
    BY <1>1, <1>3, <2>2 DEF FirstLineLength
  <2>5. QED
    BY <1>1, <2>2, <2>3, <2>4
<1>4. CASE r.type = "GET"
  <2>1. PICK nm, n : nm = r.name /\ n = Len(nm)
    OBVIOUS
  <2>2. IsGetText(t, nm) /\ nm \in Names
    BY <1>1, <1>4, <2>1, GetText
  <2>3. IsName(nm) /\ n <= DocNameLength
    BY <2>1, <2>2, NamesAndContents, LengthsAssumption
  <2>4. n \in Nat /\ \A i \in 1..n : nm[i] # Newline
    BY <2>1, <2>3 DEF IsName
  <2>5. /\ Len(t) = n + 5 /\ t[1] = "GET" /\ t[n + 5] = Newline
        /\ t[1] # Newline /\ t[2] # Newline /\ t[3] # Newline /\ t[n + 4] # Newline
        /\ \A i \in 1..n : t[3 + i] # Newline
    BY <2>1, <2>2, <2>4 DEF IsGetText, Newline, Space, Quote
  <2>6. \A i \in 1..((n + 5) - 1) : t[i] # Newline
    <3>1. TAKE i \in 1..((n + 5) - 1)
    <3>2. CASE i \in 4..(n + 3)
      <4>1. PICK d : d = i - 3
        OBVIOUS
      <4>2. d \in 1..n /\ 3 + d = i
        BY <2>4, <3>2, <4>1
      <4>3. QED
        BY <2>5, <4>2
    <3>3. i \in {1, 2, 3} \/ i \in 4..(n + 3) \/ i = n + 4
      BY <2>4
    <3>4. QED
      BY <2>5, <3>2, <3>3
  <2>7. n + 5 \in Nat /\ n + 5 > 0 /\ n + 5 <= RequestLength
    BY <1>2, <2>3, <2>4
  <2>8. FirstLineLength(r, n + 5)
    BY <1>1, <1>4, <2>5 DEF FirstLineLength
  <2>9. n + 5 <= Len(t)
    BY <2>5, <2>7
  <2>10. QED
    BY <1>1, <1>4, <2>5, <2>6, <2>7, <2>8, <2>9
<1>5. CASE r.type = "EDIT"
  <2>1. PICK nm, ct, n, c : nm = r.name /\ ct = r.content /\ n = Len(nm) /\ c = Len(ct)
    OBVIOUS
  <2>2. IsEditText(t, nm, ct) /\ nm \in Names /\ ct \in Contents
    BY <1>1, <1>5, <2>1, EditText
  <2>3. IsName(nm) /\ IsContent(ct) /\ n <= DocNameLength /\ Fits(ct)
    BY <2>1, <2>2, NamesAndContents, LengthsAssumption
  <2>4. /\ n \in Nat /\ c \in Nat /\ c <= DocContentLength
        /\ ct \in Seq(Alphabet) /\ DOMAIN ct = 1..c
    BY <2>1, <2>3 DEF IsName, IsContent, Fits
  <2>5. /\ Len(t) = n + c + 8 /\ t[1] = "EDIT" /\ t[n + c + 8] = Newline /\ t[n + c + 7] # Newline
        /\ \A i \in 1..c : t[n + 6 + i] = ct[i]
    BY <2>1, <2>2 DEF IsEditText, Newline, Quote
  <2>6. CASE LineEnds(ct) = {}
    <3>1. \A i \in 1..c : ct[i] # Newline
      BY <2>4, <2>6 DEF LineEnds
    <3>2. \A i \in 1..(n + 6 + c) : t[i] # Newline
      <4>1. c \in 0..Len(r.content)
        BY <2>1, <2>4
      <4>2. QED
        BY <1>1, <1>5, <2>1, <3>1, <4>1, NoEarlyNewline
    <3>3. PICK l : l = n + c + 8
      OBVIOUS
    <3>4. l \in Nat /\ l > 0 /\ l <= RequestLength /\ l <= Len(t)
      BY <1>2, <2>3, <2>4, <2>5, <3>3
    <3>5. \A i \in 1..(l - 1) : t[i] # Newline
      <4>1. \A i \in 1..(l - 1) : i \in 1..(n + 6 + c) \/ i = n + c + 7
        BY <2>4, <3>3
      <4>2. QED
        BY <2>5, <3>2, <4>1
    <3>6. FirstLineLength(r, l)
      BY <1>1, <2>1, <2>5, <2>6, <3>3 DEF FirstLineLength
    <3>7. QED
      BY <1>1, <1>5, <2>5, <3>3, <3>4, <3>5, <3>6
  <2>7. CASE LineEnds(ct) # {}
    <3>1. PICK j \in LineEnds(ct) : j > 0 /\ \A i \in 1..c : 0 < i /\ i < j => ct[i] # Newline
      <4>1. \E i \in LineEnds(ct) : i > 0
        BY <2>4, <2>7 DEF LineEnds
      <4>2. 0 \in Nat
        OBVIOUS
      <4>3. QED
        BY <2>1, <2>4, <4>1, <4>2, NextLineEnd
    <3>2. j \in 1..c /\ ct[j] = Newline
      BY <2>4 DEF LineEnds
    <3>3. \A i \in 1..(n + 6 + (j - 1)) : t[i] # Newline
      <4>1. PICK m : m = j - 1
        OBVIOUS
      <4>2. m \in 0..c /\ \A i \in 1..m : ct[i] # Newline
        BY <2>4, <3>1, <3>2, <4>1
      <4>3. \A i \in 1..(n + 6 + m) : t[i] # Newline
        BY <1>1, <1>5, <2>1, <4>2, NoEarlyNewline
      <4>4. QED
        BY <4>1, <4>3
    <3>4. PICK l : l = n + 6 + j
      OBVIOUS
    <3>5. l \in Nat /\ l > 0 /\ l <= RequestLength /\ l <= Len(t) /\ l - 1 = n + 6 + (j - 1)
      BY <1>2, <2>3, <2>4, <2>5, <3>2, <3>4
    <3>6. t[l] = Newline
      BY <2>5, <3>2, <3>4
    <3>7. FirstLineLength(r, l)
      BY <1>5, <2>1, <3>4 DEF FirstLineLength
    <3>8. QED
      BY <1>1, <1>5, <2>5, <3>3, <3>5, <3>6, <3>7
  <2>8. QED
    BY <2>6, <2>7
<1>6. QED
  BY <1>3, <1>4, <1>5

-----------------------------------------------------------------------------
(* The steps                                                                *)

\* The first k requests and the next one are the first k + 1.
LEMMA PrefixGrows ==
  ASSUME NEW rs \in Seq(Requests), NEW k \in 0..(Len(rs) - 1)
  PROVE  Append(SubSeq(rs, 1, k), rs[k + 1]) = SubSeq(rs, 1, k + 1)
<1>1. PICK a, b, e : a = SubSeq(rs, 1, k) /\ b = SubSeq(rs, 1, k + 1) /\ e = rs[k + 1]
  OBVIOUS
<1>2. /\ a \in Seq(Requests) /\ Len(a) = k /\ \A i \in 1..k : a[i] = rs[i]
  BY <1>1
<1>3. b \in Seq(Requests) /\ Len(b) = k + 1 /\ \A i \in 1..(k + 1) : b[i] = rs[i]
  BY <1>1
<1>4. e \in Requests /\ k \in Nat /\ b[k + 1] = e
  BY <1>1, <1>3
<1>5. PICK d : d = Append(a, e)
  OBVIOUS
<1>6. /\ d \in Seq(Requests) /\ Len(d) = k + 1
      /\ (\A i \in 1..k : d[i] = a[i]) /\ d[k + 1] = e
  BY <1>2, <1>4, <1>5, AppendProperties
<1>7. \A i \in 1..Len(d) : d[i] = b[i]
  <2>1. TAKE i \in 1..Len(d)
  <2>2. CASE i = k + 1
    BY <1>4, <1>6, <2>2
  <2>3. CASE i \in 1..k
    BY <1>2, <1>3, <1>4, <1>6, <2>3
  <2>4. QED
    BY <1>4, <1>6, <2>2, <2>3
<1>8. d = b
  BY <1>3, <1>6, <1>7, SeqEqual
<1>9. QED
  BY <1>1, <1>5, <1>8

\* Nothing has been read.
LEMMA InitReads ==
  ASSUME Init
  PROVE  ReaderInv
<1>1. written \in Seq(Requests)
  <2>1. PICK m \in 0..MaxRequests : written \in [1..m -> Requests]
    BY DEF Init, BoundedSeq, SeqOf
  <2>2. m \in Nat
    BY LengthsAssumption
  <2>3. QED
    BY <2>1, <2>2
<1>2. PICK f : f = Texts(written)
  OBVIOUS
<1>3. f \in Seq(Alphabet) /\ Len(f) \in Nat
  BY <1>1, <1>2, TextsBegin
<1>4. PICK cut \in LineEnds(f) : file = SubSeq(f, 1, cut)
  BY <1>2 DEF Init
<1>5. cut \in 1..Len(f) /\ f[cut] = Newline
  BY <1>3 DEF LineEnds
<1>6. file \in Seq(Alphabet) /\ Len(file) = cut /\ \A i \in 1..cut : file[i] = f[i]
  BY <1>3, <1>4, <1>5
<1>7. FileHolds
  BY <1>1, <1>2, <1>5, <1>6 DEF FileHolds
<1>8. pos = 0 /\ pc = "header" /\ got = <<>>
  BY DEF Init
<1>9. pos \in 0..Len(file)
  BY <1>5, <1>6, <1>8
<1>10. QED
  BY <1>7, <1>8, <1>9 DEF ReaderInv, DiesOnlyIfBroken

\* A step that changes nothing.
LEMMA StuttersRead ==
  ASSUME ReaderInv, UNCHANGED vars
  PROVE  ReaderInv'
BY DEF ReaderInv, vars, FileHolds, InContent, At, Read, DiesOnlyIfBroken, Whole

\* The first line is the header, whatever follows it.
LEMMA HeaderReads ==
  ASSUME ReaderInv, ReadHeader
  PROVE  ReaderInv'
<1>1. /\ pc = "header" /\ pos = 0 /\ got = <<>> /\ FileHolds
      /\ pos' = pos + Len(Fgets(RequestLength)) /\ todo' = Len(written)
      /\ pc' = IF todo' = 0 THEN "done" ELSE "request"
      /\ written' = written /\ file' = file /\ got' = got
  BY DEF ReaderInv, ReadHeader
<1>2. /\ written \in Seq(Requests) /\ file \in Seq(Alphabet) /\ Len(file) \in Nat /\ Len(file) > 0
      /\ file[Len(file)] = Newline /\ \A i \in 1..Len(file) : file[i] = Texts(written)[i]
  BY <1>1 DEF FileHolds
<1>3. /\ Texts(written)[1] = "number" /\ Texts(written)[2] = Newline
      /\ Texts(SubSeq(written, 1, 0)) = Header
  BY <1>2, TextsBegin
<1>4. Len(file) >= 2 /\ file[1] # Newline /\ file[2] = Newline
  <2>1. PICK g : g = Len(file)
    OBVIOUS
  <2>2. file[1] # Newline
    BY <1>2, <1>3 DEF Newline
  <2>3. g # 1
    BY <1>2, <2>1, <2>2
  <2>4. QED
    BY <1>2, <1>3, <2>1, <2>2, <2>3
<1>5. RequestLength \in Nat /\ RequestLength >= 2
  BY LengthsAssumption DEF RequestLength
<1>6. Len(Fgets(RequestLength)) = 2
  <2>1. PICK m : m = RequestLength
    OBVIOUS
  <2>2. /\ m \in Nat /\ 2 \in Nat /\ 2 > 0 /\ 2 <= m /\ pos \in Nat /\ pos + 2 <= Len(file)
        /\ file[pos + 2] = Newline /\ file \in Seq(Alphabet)
    BY <1>1, <1>2, <1>4, <1>5, <2>1
  <2>3. \A i \in 1..(2 - 1) : file[pos + i] # Newline
    BY <1>1, <1>4
  <2>4. Len(Fgets(m)) = 2
    BY <2>2, <2>3, FgetsReturnsLine
  <2>5. QED
    BY <2>1, <2>4
<1>7. pos' = 2 /\ 0 \in 0..Len(written) /\ Len(written) \in Nat
  BY <1>1, <1>2, <1>6
<1>8. SubSeq(written, 1, 0) = <<>>
  BY <1>2
<1>9. At(0, 0)'
  <2>1. pos' = Len(Texts(SubSeq(written', 1, 0))) + 0
    BY <1>1, <1>3, <1>7, HeaderText
  <2>2. got' = SubSeq(written', 1, 0) /\ todo' = Len(written') - 0 /\ 0 \in 0..Len(written')
    BY <1>1, <1>7, <1>8
  <2>3. QED
    BY <2>1, <2>2 DEF At, Read
<1>10. pc' = "done" <=> 0 = Len(written')
  BY <1>1
<1>11. FileHolds' /\ pos' \in 0..Len(file') /\ pc' \in {"request", "done"}
  <2>1. FileHolds'
    BY <1>1 DEF FileHolds
  <2>2. pos' \in 0..Len(file')
    <3>1. PICK g : g = Len(file)
      OBVIOUS
    <3>2. g \in Nat /\ g >= 2 /\ pos' = 2 /\ Len(file') = g
      BY <1>1, <1>2, <1>4, <1>7, <3>1
    <3>3. QED
      BY <3>2
  <2>3. pc' \in {"request", "done"}
    BY <1>1
  <2>4. QED
    BY <2>1, <2>2, <2>3
<1>12. QED
  BY <1>1, <1>7, <1>9, <1>10, <1>11 DEF ReaderInv, DiesOnlyIfBroken

\* A request that was read as it was written is the next one.
LEMMA CompleteReads ==
  ASSUME ReaderInv, NEW k \in 0..(Len(written) - 1), Read(k),
         Complete(written[k + 1]), UNCHANGED <<written, file>>, pos' \in Nat, pos' <= Len(file),
         pos' = Len(Texts(SubSeq(written, 1, k))) + Len(Text(written[k + 1]))
  PROVE  ReaderInv'
<1>1. FileHolds /\ FileHolds' /\ written \in Seq(Requests) /\ written' = written
  BY DEF ReaderInv, FileHolds
<1>2. /\ got' = Append(got, written[k + 1]) /\ todo' = todo - 1
      /\ pc' = IF todo' = 0 THEN "done" ELSE "request"
  BY DEF Complete
<1>3. got = SubSeq(written, 1, k) /\ todo = Len(written) - k /\ Len(written) \in Nat /\ k \in Nat
  BY <1>1 DEF Read
<1>4. got' = SubSeq(written, 1, k + 1)
  BY <1>1, <1>2, <1>3, PrefixGrows
<1>5. k + 1 \in 0..Len(written) /\ todo' = Len(written) - (k + 1)
  BY <1>2, <1>3
<1>6. pos' = Len(Texts(SubSeq(written, 1, k + 1))) + 0
  BY <1>1, NextText
<1>7. At(k + 1, 0)'
  BY <1>1, <1>4, <1>5, <1>6 DEF At, Read
<1>8. pc' = "done" <=> k + 1 = Len(written')
  BY <1>1, <1>2, <1>3, <1>5
<1>9. pc' \in {"request", "done"} /\ pos' \in 0..Len(file')
  BY <1>2
<1>10. QED
  BY <1>1, <1>5, <1>7, <1>8, <1>9 DEF ReaderInv, DiesOnlyIfBroken

\* What is read at the beginning of a request.
LEMMA LineAtRequest ==
  ASSUME ReaderInv, pc = "request", ~ AtEnd
  PROVE  \E k \in 0..(Len(written) - 1), l \in Nat :
            /\ written[k + 1] \in Requests /\ At(k, 0)
            /\ FirstLineLength(written[k + 1], l) /\ l > 0
            /\ l <= RequestLength /\ l <= Len(Text(written[k + 1]))
            /\ Fgets(RequestLength) \in Seq(Alphabet) /\ Len(Fgets(RequestLength)) = l
            /\ \A i \in 1..l : Fgets(RequestLength)[i] = Text(written[k + 1])[i]
            /\ Fgets(RequestLength)[1] = written[k + 1].type
            /\ pos \in Nat /\ pos + l <= Len(file)
<1>1. FileHolds /\ pos \in 0..Len(file) /\ written \in Seq(Requests)
  BY DEF ReaderInv, FileHolds
<1>2. PICK k \in 0..Len(written) : At(k, 0) /\ k # Len(written)
  BY DEF ReaderInv
<1>3. k \in 0..(Len(written) - 1) /\ written[k + 1] \in Requests
  BY <1>1, <1>2
<1>4. PICK r, t : r = written[k + 1] /\ t = Text(r)
  OBVIOUS
<1>5. PICK l \in Nat : /\ FirstLineLength(r, l)
                       /\ l > 0 /\ l <= RequestLength /\ l <= Len(t)
                       /\ t[l] = Newline /\ t[1] = r.type
                       /\ \A i \in 1..(l - 1) : t[i] # Newline
  BY <1>3, <1>4, FirstLineEnds
<1>6. PICK m, o : m = RequestLength /\ o = 0
  OBVIOUS
<1>7. m \in Nat /\ o \in Nat
  BY <1>6, LengthsAssumption DEF RequestLength
<1>8. /\ pos + l <= Len(file)
      /\ Fgets(m) \in Seq(Alphabet) /\ Len(Fgets(m)) = l
      /\ \A i \in 1..l : Fgets(m)[i] = t[o + i]
  <2>1. At(k, o) /\ l <= m
    BY <1>2, <1>5, <1>6
  <2>2. o + l = l /\ \A i \in 1..(l - 1) : o + i = i
    BY <1>6
  <2>3. EndsLine(Text(written[k + 1]), o, l)
    BY <1>4, <1>5, <2>2 DEF EndsLine
  <2>4. pos + l <= Len(file) /\ Gives(Fgets(m), Text(written[k + 1]), o, l)
    BY <1>1, <1>3, <1>7, <2>1, <2>3, LineOfRequest
  <2>5. QED
    BY <1>4, <2>4 DEF Gives
<1>9. \A i \in 1..l : Fgets(m)[i] = t[i]
  BY <1>6, <1>8
<1>10. Fgets(m)[1] = r.type
  BY <1>5, <1>9
<1>11. pos \in Nat
  BY <1>1
<1>12. QED
  BY <1>2, <1>3, <1>4, <1>5, <1>6, <1>8, <1>9, <1>10, <1>11

\* Nothing of the next request is there, or it is no request that is known.
LEMMA DyingReads ==
  ASSUME ReaderInv, InsufficientRequests \/ UnknownRequest \/ NotProperlyQuoted
  PROVE  ReaderInv'
<1>1. /\ FileHolds /\ pos \in 0..Len(file) /\ written \in Seq(Requests) /\ file \in Seq(Alphabet)
      /\ pc' = "died" /\ UNCHANGED <<written, file, pos, todo, name, content, got>>
  BY DEF ReaderInv, FileHolds, InsufficientRequests, UnknownRequest, NotProperlyQuoted, Die
<1>2. FileHolds'
  BY <1>1 DEF FileHolds
<1>3. SUFFICES DiesOnlyIfBroken'
  BY <1>1, <1>2 DEF ReaderInv
<1>4. ASSUME NEW k \in 0..(Len(written) - 1), NEW o \in Nat, At(k, o),
             o < Len(Text(written[k + 1])), AtEnd
      PROVE  ~ Whole
  <2>1. PICK p, q, d, g : /\ p = Len(Texts(SubSeq(written, 1, k)))
                       /\ q = Len(Texts(SubSeq(written, 1, k + 1)))
                       /\ d = Len(Text(written[k + 1])) /\ g = Len(Texts(written))
    OBVIOUS
  <2>2. p \in Nat /\ q = p + d /\ q <= g
    BY <1>1, <2>1, NextText
  <2>3. d \in Nat /\ g \in Nat
    <3>1. written[k + 1] \in Requests
      BY <1>1
    <3>2. Text(written[k + 1]) \in Seq(Alphabet) /\ Texts(written) \in Seq(Alphabet)
      BY <1>1, <3>1, TextIsText, TextsBegin
    <3>3. QED
      BY <2>1, <3>2
  <2>4. Len(file) = p + o
    BY <1>4, <2>1 DEF At, AtEnd
  <2>5. o < d
    BY <1>4, <2>1
  <2>6. Len(file) # g
    BY <1>4, <2>2, <2>3, <2>4, <2>5
  <2>7. QED
    BY <2>1, <2>6 DEF Whole
<1>5. CASE InsufficientRequests
  <2>1. pc = "request" /\ AtEnd
    BY <1>5 DEF InsufficientRequests
  <2>2. PICK k \in 0..Len(written) : At(k, 0) /\ k # Len(written)
    BY <2>1 DEF ReaderInv
  <2>3. k \in 0..(Len(written) - 1) /\ written[k + 1] \in Requests
    BY <1>1, <2>2
  <2>4. 0 < Len(Text(written[k + 1]))
    BY <2>3, FirstLineEnds
  <2>5. ~ Whole
    BY <1>4, <2>1, <2>2, <2>3, <2>4
  <2>6. QED
    BY <1>1, <2>5 DEF DiesOnlyIfBroken, Whole
<1>6. CASE NotProperlyQuoted
  <2>1. pc = "content" /\ AtEnd
    BY <1>6 DEF NotProperlyQuoted
  <2>2. PICK k \in 0..Len(written), j \in Nat : InContent(k, j)
    BY <2>1 DEF ReaderInv
  <2>3. PICK r, o : r = written[k + 1] /\ o = Len(r.name) + 6 + j
    OBVIOUS
  <2>4. /\ k \in 0..(Len(written) - 1) /\ r \in Requests /\ r.type = "EDIT"
        /\ j \in LineEnds(r.content) /\ At(k, o)
    BY <1>1, <2>2, <2>3 DEF InContent
  <2>5. IsEditText(Text(r), r.name, r.content) /\ IsName(r.name) /\ IsContent(r.content)
    BY <2>4, EditText, NamesAndContents
  <2>6. /\ Len(Text(r)) = Len(r.name) + Len(r.content) + 8 /\ Len(r.name) \in Nat
        /\ Len(r.content) \in Nat /\ j \in 1..Len(r.content)
    BY <2>4, <2>5 DEF IsEditText, IsName, IsContent, LineEnds
  <2>7. o \in Nat /\ o < Len(Text(r))
    <3>1. PICK n, c, d : n = Len(r.name) /\ c = Len(r.content) /\ d = Len(Text(r))
      OBVIOUS
    <3>2. d = n + c + 8 /\ n \in Nat /\ c \in Nat /\ j \in 1..c /\ o = n + 6 + j
      BY <2>3, <2>6, <3>1
    <3>3. o \in Nat /\ o < d
      BY <3>2
    <3>4. QED
      BY <3>1, <3>3
  <2>8. ~ Whole
    BY <1>4, <2>1, <2>3, <2>4, <2>7
  <2>9. QED
    BY <1>1, <2>8 DEF DiesOnlyIfBroken, Whole
<1>7. CASE UnknownRequest
  <2>1. pc = "request" /\ ~ AtEnd /\ Fgets(RequestLength)[1] \notin RequestTypes
    BY <1>7 DEF UnknownRequest
  <2>2. PICK k \in 0..(Len(written) - 1) : At(k, 0) /\ Fgets(RequestLength)[1] = written[k + 1].type
    BY <2>1, LineAtRequest
  <2>3. got = SubSeq(written, 1, k) /\ k \in Nat /\ Len(written) \in Nat
    BY <1>1, <2>2 DEF At, Read
  <2>4. Len(got) = k /\ k < Len(written) /\ SubSeq(got, 1, k) = got
    BY <1>1, <2>3
  <2>5. IsStrictPrefix(got, written)
    BY <1>1, <2>3, <2>4 DEF IsStrictPrefix, IsPrefix
  <2>6. written[Len(got) + 1].type \notin RequestTypes
    BY <2>1, <2>2, <2>4
  <2>7. QED
    BY <1>1, <2>5, <2>6 DEF DiesOnlyIfBroken
<1>8. QED
  BY <1>5, <1>6, <1>7

\* The line of an ADD_SERVER or REMOVE_SERVER is the whole request.
LEMMA ServerRequestReads ==
  ASSUME ReaderInv, ReadServerRequest
  PROVE  ReaderInv'
<1>1. /\ pc = "request" /\ ~ AtEnd
      /\ Fgets(RequestLength)[1] \in {"ADD_SERVER", "REMOVE_SERVER"}
      /\ Complete([type |-> Fgets(RequestLength)[1]])
      /\ pos' = pos + Len(Fgets(RequestLength)) /\ UNCHANGED <<written, file>>
  BY DEF ReadServerRequest
<1>2. PICK k \in 0..(Len(written) - 1), l \in Nat :
            /\ written[k + 1] \in Requests /\ At(k, 0)
            /\ FirstLineLength(written[k + 1], l)
            /\ Len(Fgets(RequestLength)) = l
            /\ Fgets(RequestLength)[1] = written[k + 1].type
            /\ pos \in Nat /\ pos + l <= Len(file)
  BY <1>1, LineAtRequest
<1>3. written[k + 1].type # "EDIT" /\ written[k + 1].type # "GET"
  BY <1>1, <1>2
<1>4. written[k + 1] = [type |-> written[k + 1].type]
  BY <1>2, <1>3, OtherText
<1>5. Complete(written[k + 1])
  BY <1>1, <1>2, <1>4
<1>6. l = Len(Text(written[k + 1]))
  BY <1>2, <1>3 DEF FirstLineLength
<1>7. Read(k) /\ pos = Len(Texts(SubSeq(written, 1, k))) + 0 /\ written \in Seq(Requests)
  BY <1>2 DEF At, ReaderInv, FileHolds
<1>8. pos' = Len(Texts(SubSeq(written, 1, k))) + Len(Text(written[k + 1]))
  <2>1. Len(Texts(SubSeq(written, 1, k))) \in Nat
    BY <1>7, NextText
  <2>2. QED
    BY <1>1, <1>2, <1>6, <1>7, <2>1
<1>9. pos' \in Nat /\ pos' <= Len(file)
  BY <1>1, <1>2
<1>10. QED
  BY <1>1, <1>5, <1>7, <1>8, <1>9, CompleteReads

\* The line of a GET is the whole request, and its word the name.
LEMMA GetReads ==
  ASSUME ReaderInv, ReadGet
  PROVE  ReaderInv'
<1>1. /\ pc = "request" /\ ~ AtEnd /\ Fgets(RequestLength)[1] = "GET"
      /\ Complete([type |-> "GET",
                   name |-> Between(Fgets(RequestLength),
                                    ReadQuotedString(Fgets(RequestLength), RequestLength, 0))])
      /\ pos' = pos + Len(Fgets(RequestLength)) /\ UNCHANGED <<written, file>>
  BY DEF ReadGet
<1>2. PICK k \in 0..(Len(written) - 1), l \in Nat :
            /\ written[k + 1] \in Requests /\ At(k, 0)
            /\ FirstLineLength(written[k + 1], l) /\ l > 0
            /\ l <= RequestLength /\ l <= Len(Text(written[k + 1]))
            /\ Fgets(RequestLength) \in Seq(Alphabet) /\ Len(Fgets(RequestLength)) = l
            /\ \A i \in 1..l : Fgets(RequestLength)[i] = Text(written[k + 1])[i]
            /\ Fgets(RequestLength)[1] = written[k + 1].type
            /\ pos \in Nat /\ pos + l <= Len(file)
  BY <1>1, LineAtRequest
<1>3. PICK r, t, nm, line : /\ r = written[k + 1] /\ t = Text(r) /\ nm = r.name
                            /\ line = Fgets(RequestLength)
  OBVIOUS
<1>4. /\ r = [type |-> "GET", name |-> nm] /\ nm \in Names /\ IsGetText(t, nm) /\ IsName(nm)
  BY <1>1, <1>2, <1>3, GetText, NamesAndContents
<1>5. l = Len(t)
  BY <1>1, <1>2, <1>3 DEF FirstLineLength
<1>6. PICK n, m : n = Len(nm) /\ m = RequestLength
  OBVIOUS
<1>7. /\ nm \in Seq(Alphabet) /\ n \in Nat /\ (\A i \in 1..n : nm[i] # Quote)
      /\ line \in Seq(Alphabet) /\ Len(line) = n + 5 /\ n + 5 <= m /\ m \in Nat
      /\ \A i \in 1..(n + 5) : line[i] = t[i]
  <2>1. nm \in Seq(Alphabet) /\ n \in Nat /\ (\A i \in 1..n : nm[i] # Quote)
    BY <1>4, <1>6 DEF IsName
  <2>2. l = n + 5
    BY <1>4, <1>5, <1>6 DEF IsGetText
  <2>3. m \in Nat
    BY <1>6, LengthsAssumption DEF RequestLength
  <2>4. QED
    BY <1>2, <1>3, <1>6, <2>1, <2>2, <2>3
<1>8. /\ line[1] = "GET" /\ line[2] = Space /\ line[3] = Quote /\ line[n + 4] = Quote
      /\ \A i \in 1..n : line[3 + i] = nm[i]
  <2>1. /\ t[1] = "GET" /\ t[2] = Space /\ t[3] = Quote /\ t[n + 4] = Quote
        /\ \A i \in 1..n : t[3 + i] = nm[i]
    BY <1>4, <1>6 DEF IsGetText
  <2>2. /\ 1 \in 1..(n + 5) /\ 2 \in 1..(n + 5) /\ 3 \in 1..(n + 5) /\ n + 4 \in 1..(n + 5)
        /\ \A i \in 1..n : 3 + i \in 1..(n + 5)
    BY <1>7
  <2>3. QED
    BY <1>7, <2>1, <2>2
<1>9. \A i \in 1..(n + 3) : line[i] = Quote => i = 3
  <2>1. line[1] # Quote /\ line[2] # Quote
    BY <1>8 DEF Quote, Space
  <2>2. \A d \in 1..n : line[3 + d] # Quote
    BY <1>7, <1>8
  <2>3. TAKE i \in 1..(n + 3)
  <2>4. CASE i > 3
    <3>1. PICK d : d = i - 3
      OBVIOUS
    <3>2. d \in 1..n /\ 3 + d = i
      BY <1>7, <2>4, <3>1
    <3>3. QED
      BY <2>2, <3>2
  <2>5. i = 1 \/ i = 2 \/ i = 3 \/ i > 3
    BY <1>7
  <2>6. QED
    BY <2>1, <2>4, <2>5
<1>10. ReadQuotedString(line, m, 0) = [start |-> 3, end |-> n + 4]
  <2>1. PICK b : b = n + 4
    OBVIOUS
  <2>2. b \in Nat /\ 3 < b /\ b <= Len(line) /\ b <= m /\ b - 1 = n + 3 /\ 3 \in Nat /\ 3 > 0
    BY <1>7, <2>1
  <2>3. line[3] = Quote /\ line[b] = Quote /\ \A i \in 1..(b - 1) : line[i] = Quote => i = 3
    BY <1>8, <1>9, <2>1, <2>2
  <2>4. line \in Seq(Alphabet) /\ m \in Nat
    BY <1>7
  <2>5. ReadQuotedString(line, m, 0) = [start |-> 3, end |-> b]
    BY <2>2, <2>3, <2>4, TwoQuotes
  <2>6. QED
    BY <2>1, <2>5
<1>11. SubSeq(line, 3 + 1, 3 + Len(nm)) = nm
  <2>1. line \in Seq(Alphabet) /\ nm \in Seq(Alphabet) /\ 3 + Len(nm) <= Len(line)
    BY <1>6, <1>7
  <2>2. \A i \in 1..Len(nm) : line[3 + i] = nm[i]
    BY <1>6, <1>8
  <2>3. QED
    BY <2>1, <2>2, SliceIs
<1>12. Between(line, [start |-> 3, end |-> n + 4]) = nm
  <2>1. (n + 4) - 1 = 3 + Len(nm)
    BY <1>6, <1>7
  <2>2. QED
    BY <1>11, <2>1 DEF Between
<1>13. Complete(r)
  BY <1>1, <1>3, <1>4, <1>6, <1>10, <1>12
<1>14. Read(k) /\ pos = Len(Texts(SubSeq(written, 1, k))) + 0 /\ written \in Seq(Requests)
  BY <1>2 DEF At, ReaderInv, FileHolds
<1>15. pos' = Len(Texts(SubSeq(written, 1, k))) + Len(Text(written[k + 1]))
  <2>1. Len(Texts(SubSeq(written, 1, k))) \in Nat
    BY <1>14, NextText
  <2>2. QED
    BY <1>1, <1>2, <1>3, <1>5, <1>14, <2>1
<1>16. pos' \in Nat /\ pos' <= Len(file)
  BY <1>1, <1>2
<1>17. QED
  BY <1>1, <1>3, <1>13, <1>14, <1>15, <1>16, CompleteReads

\* The line of an EDIT holds the whole content or its first line.
LEMMA EditReads ==
  ASSUME ReaderInv, ReadEdit
  PROVE  ReaderInv'
<1>1. PICK line, first, rest, word :
         /\ line = Fgets(RequestLength) /\ first = ReadQuotedString(line, RequestLength, 0)
         /\ rest = SubSeq(line, first.end + 1, Len(line))
         /\ word = ReadQuotedString(rest, DocContentLength, 0)
         /\ pc = "request" /\ ~ AtEnd /\ line[1] = "EDIT" /\ pos' = pos + Len(line)
         /\ UNCHANGED <<written, file>>
         /\ \/ /\ word.end # 0
               /\ Complete([type |-> "EDIT", name |-> Between(line, first),
                            content |-> Between(rest, word)])
               /\ UNCHANGED <<name, content>>
            \/ /\ word.end = 0
               /\ name' = Between(line, first)
               /\ content' = SubSeq(rest, word.start + 1, Len(rest))
               /\ pc' = "content"
               /\ UNCHANGED <<todo, got>>
  BY DEF ReadEdit
<1>2. PICK k \in 0..(Len(written) - 1), l \in Nat :
            /\ written[k + 1] \in Requests /\ At(k, 0)
            /\ FirstLineLength(written[k + 1], l) /\ l > 0
            /\ l <= RequestLength /\ l <= Len(Text(written[k + 1]))
            /\ line \in Seq(Alphabet) /\ Len(line) = l
            /\ \A i \in 1..l : line[i] = Text(written[k + 1])[i]
            /\ line[1] = written[k + 1].type
            /\ pos \in Nat /\ pos + l <= Len(file)
  BY <1>1, LineAtRequest
<1>3. PICK r, t, nm, ct : /\ r = written[k + 1] /\ t = Text(r) /\ nm = r.name /\ ct = r.content
  OBVIOUS
<1>4. /\ r = [type |-> "EDIT", name |-> nm, content |-> ct] /\ r.type = "EDIT"
      /\ nm \in Names /\ ct \in Contents
      /\ IsEditText(t, nm, ct) /\ IsName(nm) /\ IsContent(ct) /\ Fits(ct)
  BY <1>1, <1>2, <1>3, EditText, NamesAndContents, LengthsAssumption
<1>5. PICK n : n = Len(nm)
  OBVIOUS
<1>6. /\ n \in Nat /\ ct \in Seq(Alphabet) /\ Len(ct) \in Nat /\ Len(t) = n + Len(ct) + 8
      /\ RequestLength \in Nat
  BY <1>4, <1>5, LengthsAssumption DEF IsName, IsContent, IsEditText, RequestLength
<1>7. /\ \/ l = Len(t) /\ LineEnds(ct) = {}
         \/ \E j \in LineEnds(ct) : l = n + 6 + j
      /\ l >= n + 6 /\ l <= Len(t)
  <2>1. \/ l = Len(t) /\ LineEnds(ct) = {}
        \/ \E j \in LineEnds(ct) : l = n + 6 + j
    BY <1>2, <1>3, <1>4, <1>5 DEF FirstLineLength
  <2>2. \A j \in LineEnds(ct) : j \in Nat
    BY <1>6 DEF LineEnds
  <2>3. QED
    BY <1>2, <1>3, <1>6, <2>1, <2>2
<1>8. first = [start |-> 3, end |-> n + 4] /\ SubSeq(line, 4, n + 3) = nm
  <2>1. /\ line \in Seq(Alphabet) /\ Len(line) >= Len(nm) + 6 /\ Len(line) <= Len(t)
        /\ Len(line) <= RequestLength /\ RequestLength \in Nat
        /\ \A i \in 1..Len(line) : line[i] = t[i]
    BY <1>2, <1>3, <1>5, <1>6, <1>7
  <2>2. /\ ReadQuotedString(line, RequestLength, 0) = [start |-> 3, end |-> Len(nm) + 4]
        /\ SubSeq(line, 4, Len(nm) + 3) = nm
    BY <1>4, <2>1, EditName
  <2>3. QED
    BY <1>1, <1>5, <2>2
<1>9. Between(line, first) = nm
  <2>1. first.start + 1 = 4 /\ first.end - 1 = n + 3
    BY <1>6, <1>8
  <2>2. QED
    BY <1>8, <2>1 DEF Between
<1>10. rest = Behind(line, nm)
  <2>1. first.end + 1 = Len(nm) + 5
    BY <1>5, <1>6, <1>8
  <2>2. QED
    BY <1>1, <2>1 DEF Behind
<1>11. Read(k) /\ pos = Len(Texts(SubSeq(written, 1, k))) + 0 /\ written \in Seq(Requests)
       /\ FileHolds
  BY <1>2 DEF At, ReaderInv, FileHolds
<1>12. Len(Texts(SubSeq(written, 1, k))) \in Nat
  BY <1>11, NextText
<1>13. CASE l = Len(t) /\ LineEnds(ct) = {}
  <2>1. word = [start |-> 2, end |-> Len(ct) + 3] /\ SubSeq(rest, 3, Len(ct) + 2) = ct
    <3>1. Len(line) = Len(t) /\ \A i \in 1..Len(line) : line[i] = t[i]
      BY <1>2, <1>3, <1>13
    <3>2. line \in Seq(Alphabet)
      BY <1>2
    <3>3. /\ ReadQuotedString(Behind(line, nm), DocContentLength, 0)
                = [start |-> 2, end |-> Len(ct) + 3]
          /\ SubSeq(Behind(line, nm), 3, Len(ct) + 2) = ct
      BY <1>4, <1>13, <3>1, <3>2, WholeContent
    <3>4. QED
      BY <1>1, <1>10, <3>3
  <2>2. Between(rest, word) = ct /\ word.end # 0
    <3>1. word.start + 1 = 3 /\ word.end - 1 = Len(ct) + 2 /\ word.end # 0
      BY <1>6, <2>1
    <3>2. QED
      BY <2>1, <3>1 DEF Between
  <2>3. Complete(written[k + 1])
    BY <1>1, <1>3, <1>4, <1>9, <2>2
  <2>4. pos' = Len(Texts(SubSeq(written, 1, k))) + Len(Text(written[k + 1]))
    BY <1>1, <1>2, <1>3, <1>11, <1>12, <1>13
  <2>5. pos' \in Nat /\ pos' <= Len(file)
    BY <1>1, <1>2
  <2>6. QED
    BY <1>1, <1>11, <2>3, <2>4, <2>5, CompleteReads
<1>14. CASE \E j \in LineEnds(ct) : l = n + 6 + j
  <2>1. PICK j \in LineEnds(ct) : l = n + 6 + j
    BY <1>14
  <2>2. j \in 1..Len(ct) /\ DocContentLength >= 2
    BY <1>4, <1>6, RoomForLines
  <2>3. word = [start |-> 2, end |-> 0] /\ SubSeq(rest, 3, Len(rest)) = SubSeq(ct, 1, j)
    <3>1. Len(line) = Len(nm) + 6 + j /\ \A i \in 1..Len(line) : line[i] = t[i]
      BY <1>2, <1>3, <1>5, <2>1
    <3>2. line \in Seq(Alphabet)
      BY <1>2
    <3>3. /\ ReadQuotedString(Behind(line, nm), DocContentLength, 0) = [start |-> 2, end |-> 0]
          /\ SubSeq(Behind(line, nm), 3, Len(Behind(line, nm))) = SubSeq(ct, 1, j)
      <4>1. IsEditText(t, nm, ct) /\ IsName(nm) /\ IsContent(ct)
        BY <1>4
      <4>2. DocContentLength >= 2 /\ j \in 1..Len(ct)
        BY <2>2
      <4>3. Len(line) = Len(nm) + 6 + j /\ \A i \in 1..Len(line) : line[i] = t[i]
        BY <3>1
      <4>4. QED
        BY <3>2, <4>1, <4>2, <4>3, FirstLineOfContent
    <3>4. QED
      BY <1>1, <1>10, <3>3
  <2>4. /\ name' = nm /\ content' = SubSeq(ct, 1, j) /\ pc' = "content"
        /\ todo' = todo /\ got' = got
    <3>1. word.end = 0 /\ word.start + 1 = 3
      BY <2>3
    <3>2. QED
      BY <1>1, <1>9, <2>3, <3>1
  <2>5. pos' = Len(Texts(SubSeq(written, 1, k))) + (Len(nm) + 6 + j)
    BY <1>1, <1>2, <1>5, <1>11, <1>12, <2>1
  <2>6. written' = written /\ file' = file
    BY <1>1
  <2>7. Read(k)'
    BY <1>11, <2>4, <2>6 DEF Read
  <2>8. InContent(k, j)'
    <3>1. k < Len(written)
      BY <1>11
    <3>2. At(k, Len(name) + 6 + j)'
      BY <2>4, <2>5, <2>6, <2>7 DEF At
    <3>3. QED
      BY <1>3, <1>4, <2>4, <2>6, <3>1, <3>2 DEF InContent
  <2>9. FileHolds' /\ pos' \in 0..Len(file')
    <3>1. FileHolds'
      BY <1>11, <2>6 DEF FileHolds
    <3>2. pos' \in Nat /\ pos' <= Len(file) /\ Len(file) \in Nat
      BY <1>1, <1>2, <1>11 DEF FileHolds
    <3>3. QED
      BY <2>6, <3>1, <3>2
  <2>10. k \in 0..Len(written') /\ j \in Nat
    BY <1>11, <2>2, <2>6 DEF Read
  <2>11. QED
    BY <2>4, <2>8, <2>9, <2>10 DEF ReaderInv, DiesOnlyIfBroken
<1>15. QED
  BY <1>7, <1>13, <1>14

\* One more line of a content: up to its next newline, or the last one with the quote.
LEMMA MoreContentReads ==
  ASSUME ReaderInv, ReadMoreContent
  PROVE  ReaderInv'
<1>1. PICK line, word :
         /\ line = Fgets(DocContentLength) /\ word = ReadQuotedString(line, DocContentLength, 1)
         /\ pc = "content" /\ ~ AtEnd /\ pos' = pos + Len(line) /\ UNCHANGED <<written, file>>
         /\ \/ /\ word.end # 0
               /\ Complete([type |-> "EDIT", name |-> name,
                            content |-> content \o SubSeq(line, 1, word.end - 1)])
            \/ /\ word.end = 0
               /\ content' = content \o line
               /\ UNCHANGED <<pc, name, todo, got>>
  BY DEF ReadMoreContent
<1>2. PICK k \in 0..Len(written), j \in Nat : InContent(k, j)
  BY <1>1 DEF ReaderInv
<1>3. PICK r, t, nm, ct, p :
         /\ r = written[k + 1] /\ t = Text(r) /\ nm = r.name /\ ct = r.content
         /\ p = Len(Texts(SubSeq(written, 1, k)))
  OBVIOUS
<1>4. /\ FileHolds /\ pos \in 0..Len(file) /\ written \in Seq(Requests)
      /\ k \in 0..(Len(written) - 1) /\ r \in Requests /\ r.type = "EDIT"
      /\ name = nm /\ j \in LineEnds(ct) /\ content = SubSeq(ct, 1, j)
      /\ At(k, Len(nm) + 6 + j)
  <2>1. FileHolds /\ pos \in 0..Len(file) /\ written \in Seq(Requests)
    BY DEF ReaderInv, FileHolds
  <2>2. k \in 0..(Len(written) - 1)
    BY <1>2, <2>1 DEF InContent
  <2>3. QED
    BY <1>2, <1>3, <2>1, <2>2 DEF InContent
<1>5. /\ r = [type |-> "EDIT", name |-> nm, content |-> ct]
      /\ IsEditText(t, nm, ct) /\ IsName(nm) /\ IsContent(ct) /\ Fits(ct)
  BY <1>3, <1>4, EditText, NamesAndContents, LengthsAssumption
<1>6. PICK n, c : n = Len(nm) /\ c = Len(ct)
  OBVIOUS
<1>7. /\ n \in Nat /\ c \in Nat /\ ct \in Seq(Alphabet) /\ Len(t) = n + c + 8
      /\ DOMAIN ct = 1..c /\ j \in 1..c /\ ct[j] = Newline /\ c <= DocContentLength
      /\ DocContentLength \in Nat
      /\ \A i \in 1..c : ct[i] # Quote
  BY <1>4, <1>5, <1>6, LengthsAssumption DEF IsName, IsContent, IsEditText, Fits, LineEnds
<1>8. /\ t[n + c + 7] = Quote /\ t[n + c + 8] = Newline
      /\ \A i \in 1..c : t[n + 6 + i] = ct[i]
  BY <1>5, <1>6 DEF IsEditText
<1>9. PICK o : o = n + 6 + j
  OBVIOUS
<1>10. o \in Nat /\ At(k, o) /\ Read(k) /\ pos = p + o
  <2>1. o \in Nat
    BY <1>7, <1>9
  <2>2. At(k, o)
    BY <1>4, <1>6, <1>9
  <2>3. QED
    BY <1>3, <2>1, <2>2 DEF At
<1>11. p \in Nat
  BY <1>3, <1>4, NextText
<1>12. content \in Seq(Alphabet) /\ Len(content) = j /\ \A i \in 1..j : content[i] = ct[i]
  BY <1>4, <1>7
<1>13. ASSUME NEW l \in Nat, l <= DocContentLength, EndsLine(t, o, l)
       PROVE  /\ pos + l <= Len(file) /\ Gives(line, t, o, l)
              /\ pos' = pos + l /\ pos' \in Nat /\ pos' <= Len(file)
  <2>1. pos + l <= Len(file) /\ Gives(line, t, o, l)
    BY <1>1, <1>3, <1>4, <1>7, <1>10, <1>13, LineOfRequest
  <2>2. Len(line) = l /\ pos \in Nat
    BY <1>4, <2>1 DEF Gives
  <2>3. QED
    BY <1>1, <2>1, <2>2
<1>14. CASE \E i \in LineEnds(ct) : i > j
  <2>1. PICK e \in LineEnds(ct) : e > j /\ \A i \in 1..c : j < i /\ i < e => ct[i] # Newline
    BY <1>6, <1>7, <1>14, NextLineEnd
  <2>2. e \in 1..c /\ ct[e] = Newline
    BY <1>7 DEF LineEnds
  <2>3. PICK l : l = e - j
    OBVIOUS
  <2>4. l \in Nat /\ l > 0 /\ l <= DocContentLength /\ j + l = e /\ o + l = n + 6 + e
    BY <1>7, <1>9, <2>1, <2>2, <2>3
  <2>5. \A i \in 1..l : t[o + i] = ct[j + i] /\ j + i \in 1..c
    <3>1. \A i \in 1..l : j + i \in 1..c /\ o + i = n + 6 + (j + i)
      BY <1>7, <1>9, <2>2, <2>4
    <3>2. QED
      BY <1>8, <3>1
  <2>6. EndsLine(t, o, l)
    <3>1. t[o + l] = Newline
      BY <1>8, <2>2, <2>4
    <3>2. \A i \in 1..(l - 1) : t[o + i] # Newline
      <4>1. \A i \in 1..(l - 1) : i \in 1..l /\ j < j + i /\ j + i < e
        BY <1>7, <2>2, <2>4
      <4>2. QED
        BY <2>1, <2>5, <4>1
    <3>3. o + l <= Len(t)
      BY <1>7, <2>2, <2>4
    <3>4. QED
      BY <2>4, <3>1, <3>2, <3>3 DEF EndsLine
  <2>7. /\ line \in Seq(Alphabet) /\ Len(line) = l /\ (\A i \in 1..l : line[i] = ct[j + i])
        /\ pos' = pos + l /\ pos' \in Nat /\ pos' <= Len(file)
    <3>1. Gives(line, t, o, l) /\ pos' = pos + l /\ pos' \in Nat /\ pos' <= Len(file)
      BY <1>13, <2>4, <2>6
    <3>2. QED
      BY <2>5, <3>1 DEF Gives
  <2>8. word.end = 0
    <3>1. \A i \in 1..Len(line) : line[i] # Quote
      BY <1>7, <2>5, <2>7
    <3>2. QED
      BY <1>1, <1>7, <2>7, <3>1, NoQuote
  <2>9. content \o line = SubSeq(ct, 1, e)
    <3>1. PICK d, w : d = content \o line /\ w = SubSeq(ct, 1, e)
      OBVIOUS
    <3>2. /\ d \in Seq(Alphabet) /\ Len(d) = Len(content) + Len(line)
          /\ (\A i \in 1..Len(content) : d[i] = content[i])
          /\ \A i \in 1..Len(line) : d[Len(content) + i] = line[i]
      <4>1. content \in Seq(Alphabet) /\ line \in Seq(Alphabet)
        BY <1>12, <2>7
      <4>2. /\ content \o line \in Seq(Alphabet) /\ Len(content \o line) = Len(content) + Len(line)
            /\ (\A i \in 1..Len(content) : (content \o line)[i] = content[i])
            /\ \A i \in 1..Len(line) : (content \o line)[Len(content) + i] = line[i]
        BY <4>1, Parts
      <4>3. QED
        BY <3>1, <4>2
    <3>3. w \in Seq(Alphabet) /\ Len(w) = e /\ \A i \in 1..e : w[i] = ct[i]
      BY <1>7, <2>2, <3>1
    <3>4. Len(d) = e /\ (\A i \in 1..j : d[i] = ct[i]) /\ \A i \in 1..l : d[j + i] = ct[j + i]
      BY <1>12, <2>4, <2>7, <3>2
    <3>5. \A i \in 1..e : d[i] = ct[i]
      <4>1. TAKE i \in 1..e
      <4>2. CASE i > j
        <5>1. PICK q : q = i - j
          OBVIOUS
        <5>2. q \in 1..l /\ j + q = i
          BY <1>7, <2>2, <2>4, <4>2, <5>1
        <5>3. QED
          BY <3>4, <5>2
      <4>3. CASE i \in 1..j
        BY <3>4, <4>3
      <4>4. QED
        BY <1>7, <2>2, <4>2, <4>3
    <3>6. \A i \in 1..Len(d) : d[i] = w[i]
      BY <3>3, <3>4, <3>5
    <3>7. d = w
      BY <3>2, <3>3, <3>4, <3>6, SeqEqual
    <3>8. QED
      BY <3>1, <3>7
  <2>10. /\ content' = SubSeq(ct, 1, e) /\ name' = nm /\ pc' = "content"
         /\ todo' = todo /\ got' = got /\ written' = written /\ file' = file
    BY <1>1, <1>4, <2>8, <2>9
  <2>11. pos' = p + (Len(nm) + 6 + e)
    BY <1>6, <1>7, <1>10, <1>11, <2>2, <2>4, <2>7
  <2>12. InContent(k, e)'
    <3>1. Read(k)'
      BY <1>10, <2>10 DEF Read
    <3>2. At(k, Len(name) + 6 + e)'
      BY <1>3, <2>10, <2>11, <3>1 DEF At
    <3>3. k < Len(written)
      BY <1>4
    <3>4. QED
      BY <1>3, <1>4, <2>1, <2>10, <3>2, <3>3 DEF InContent
  <2>13. FileHolds' /\ pos' \in 0..Len(file')
    <3>1. FileHolds'
      BY <1>4, <2>10 DEF FileHolds
    <3>2. Len(file) \in Nat
      BY <1>4 DEF FileHolds
    <3>3. QED
      BY <2>7, <2>10, <3>1, <3>2
  <2>14. k \in 0..Len(written') /\ e \in Nat
    BY <1>4, <1>7, <2>2, <2>10
  <2>15. QED
    BY <2>10, <2>12, <2>13, <2>14 DEF ReaderInv, DiesOnlyIfBroken
<1>15. CASE \A i \in LineEnds(ct) : ~ (i > j)
  <2>1. PICK l : l = (c - j) + 2
    OBVIOUS
  <2>2. l \in Nat /\ l > 0 /\ l <= DocContentLength /\ o + l = n + c + 8 /\ o + (l - 1) = n + c + 7
        /\ l - 1 > 0
    <3>1. \A i \in LineEnds(ct) : i <= j
      BY <1>7, <1>15 DEF LineEnds
    <3>2. l <= DocContentLength
      BY <1>4, <1>5, <1>6, <1>7, <2>1, <3>1, RoomForLines
    <3>3. QED
      BY <1>7, <1>9, <2>1, <3>2
  <2>3. \A i \in 1..(c - j) : t[o + i] = ct[j + i] /\ j + i \in 1..c /\ ct[j + i] # Newline
    <3>1. \A i \in 1..(c - j) : j + i \in 1..c /\ o + i = n + 6 + (j + i) /\ j + i > j
      BY <1>7, <1>9
    <3>2. \A i \in 1..c : i > j => ct[i] # Newline
      BY <1>7, <1>15 DEF LineEnds
    <3>3. QED
      BY <1>8, <3>1, <3>2
  <2>4. EndsLine(t, o, l)
    <3>1. t[o + l] = Newline /\ t[o + (l - 1)] # Newline
      BY <1>8, <2>2 DEF Quote, Newline
    <3>2. \A i \in 1..(l - 1) : t[o + i] # Newline
      <4>1. \A i \in 1..(l - 1) : i \in 1..(c - j) \/ i = l - 1
        BY <1>7, <2>1
      <4>2. QED
        BY <2>3, <3>1, <4>1
    <3>3. o + l <= Len(t)
      BY <1>7, <2>2
    <3>4. QED
      BY <2>2, <3>1, <3>2, <3>3 DEF EndsLine
  <2>5. Gives(line, t, o, l) /\ pos' = pos + l /\ pos' \in Nat /\ pos' <= Len(file)
    BY <1>13, <2>2, <2>4
  <2>6. PICK b : b = l - 1
    OBVIOUS
  <2>7. /\ b \in Nat /\ b > 0 /\ b <= l /\ b <= DocContentLength /\ b - 1 = c - j /\ c - j \in Nat
        /\ line \in Seq(Alphabet) /\ Len(line) = l /\ line[b] = Quote
        /\ \A i \in 1..(c - j) : line[i] = ct[j + i]
    <3>1. /\ b \in Nat /\ b > 0 /\ b <= l /\ b <= DocContentLength /\ b - 1 = c - j /\ c - j \in Nat
      BY <1>7, <2>1, <2>2, <2>6
    <3>2. b \in 1..l /\ \A i \in 1..(c - j) : i \in 1..l
      BY <2>2, <3>1
    <3>3. /\ line \in Seq(Alphabet) /\ Len(line) = l /\ \A i \in 1..l : line[i] = t[o + i]
      BY <2>5 DEF Gives
    <3>4. t[o + b] = Quote
      BY <1>8, <2>2, <2>6
    <3>5. QED
      BY <2>3, <3>1, <3>2, <3>3, <3>4
  <2>8. word.end = b
    <3>1. \A i \in 1..(b - 1) : line[i] # Quote
      BY <1>7, <2>3, <2>7
    <3>2. /\ line \in Seq(Alphabet) /\ DocContentLength \in Nat
          /\ b \in Nat /\ b > 0 /\ b <= Len(line) /\ b <= DocContentLength
          /\ line[b] = Quote /\ \A i \in 1..(b - 1) : line[i] # Quote
      BY <1>7, <2>7, <3>1
    <3>3. ReadQuotedString(line, DocContentLength, 1) = [start |-> 1, end |-> b]
      BY <3>2, ClosingQuote
    <3>4. QED
      BY <1>1, <3>3
  <2>9. content \o SubSeq(line, 1, b - 1) = ct
    <3>1. PICK m, v : m = c - j /\ v = SubSeq(line, 1, m)
      OBVIOUS
    <3>2. v \in Seq(Alphabet) /\ Len(v) = m /\ \A i \in 1..m : v[i] = ct[j + i]
      BY <2>7, <3>1
    <3>3. PICK d : d = content \o v
      OBVIOUS
    <3>4. /\ d \in Seq(Alphabet) /\ Len(d) = Len(content) + Len(v)
          /\ (\A i \in 1..Len(content) : d[i] = content[i])
          /\ \A i \in 1..Len(v) : d[Len(content) + i] = v[i]
      <4>1. content \in Seq(Alphabet) /\ v \in Seq(Alphabet)
        BY <1>12, <3>2
      <4>2. /\ content \o v \in Seq(Alphabet) /\ Len(content \o v) = Len(content) + Len(v)
            /\ (\A i \in 1..Len(content) : (content \o v)[i] = content[i])
            /\ \A i \in 1..Len(v) : (content \o v)[Len(content) + i] = v[i]
        BY <4>1, Parts
      <4>3. QED
        BY <3>3, <4>2
    <3>5. /\ Len(d) = c /\ (\A i \in 1..j : d[i] = ct[i])
          /\ \A i \in 1..m : d[j + i] = ct[j + i]
      <4>1. Len(content) = j /\ \A i \in 1..j : content[i] = ct[i]
        BY <1>12
      <4>2. Len(d) = j + m
        BY <3>2, <3>4, <4>1
      <4>3. j + m = c
        BY <1>7, <2>7, <3>1
      <4>4. \A i \in 1..j : d[i] = ct[i]
        BY <3>4, <4>1
      <4>5. \A i \in 1..m : d[j + i] = ct[j + i]
        BY <3>2, <3>4, <4>1
      <4>6. QED
        BY <4>2, <4>3, <4>4, <4>5
    <3>6. \A i \in 1..c : d[i] = ct[i]
      <4>1. TAKE i \in 1..c
      <4>2. CASE i > j
        <5>1. PICK q : q = i - j
          OBVIOUS
        <5>2. q \in 1..m /\ j + q = i
          BY <1>7, <3>1, <4>2, <5>1
        <5>3. QED
          BY <3>5, <5>2
      <4>3. CASE i \in 1..j
        BY <3>5, <4>3
      <4>4. QED
        BY <1>7, <4>2, <4>3
    <3>7. Len(d) = Len(ct) /\ \A i \in 1..Len(d) : d[i] = ct[i]
      BY <1>6, <3>5, <3>6
    <3>8. d = ct
      BY <1>7, <3>4, <3>7, SeqEqual
    <3>9. QED
      BY <2>7, <3>1, <3>3, <3>8
  <2>10. Complete(written[k + 1])
    <3>1. word.end # 0
      BY <2>7, <2>8
    <3>2. QED
      BY <1>1, <1>3, <1>4, <1>5, <2>8, <2>9, <3>1
  <2>11. pos' = Len(Texts(SubSeq(written, 1, k))) + Len(Text(written[k + 1]))
    <3>1. pos' = p + Len(t)
      BY <1>7, <1>10, <1>11, <2>2, <2>5
    <3>2. QED
      BY <1>3, <3>1
  <2>12. QED
    BY <1>1, <1>4, <1>10, <2>5, <2>10, <2>11, CompleteReads
<1>16. QED
  BY <1>14, <1>15

-----------------------------------------------------------------------------
(* The theorems                                                             *)

\* Between two requests the reader stands at the beginning of the next one, within a
\* content at the beginning of one of its lines.
THEOREM ReaderIsInductive == Spec => []ReaderInv
<1>1. Init => ReaderInv
  BY InitReads
<1>2. ReaderInv /\ [Next]_vars => ReaderInv'
  <2>1. SUFFICES ASSUME ReaderInv, [Next]_vars PROVE ReaderInv'
    OBVIOUS
  <2>2. CASE ReadHeader
    BY <2>1, <2>2, HeaderReads
  <2>3. CASE InsufficientRequests \/ UnknownRequest \/ NotProperlyQuoted
    BY <2>1, <2>3, DyingReads
  <2>4. CASE ReadServerRequest
    BY <2>1, <2>4, ServerRequestReads
  <2>5. CASE ReadGet
    BY <2>1, <2>5, GetReads
  <2>6. CASE ReadEdit
    BY <2>1, <2>6, EditReads
  <2>7. CASE ReadMoreContent
    BY <2>1, <2>7, MoreContentReads
  <2>8. CASE UNCHANGED vars
    BY <2>1, <2>8, StuttersRead
  <2>9. QED
    BY <2>1, <2>2, <2>3, <2>4, <2>5, <2>6, <2>7, <2>8 DEF Next
<1>3. QED
  BY <1>1, <1>2, PTL DEF Spec

\* Whenever a request is about to be read, all before it were read exactly as they were
\* written, and nothing of them is left in the file (main.c:75).
THEOREM ReaderStaysInStep == Spec => []ReaderInStep
<1>1. ReaderInv => ReaderInStep
  <2>1. SUFFICES ASSUME ReaderInv, pc \in {"request", "done"}
                 PROVE  IsPrefix(got, written) /\ pos = Len(Texts(got))
    BY DEF ReaderInStep
  <2>2. PICK k \in 0..Len(written) : At(k, 0)
    BY <2>1 DEF ReaderInv
  <2>3. /\ written \in Seq(Requests) /\ got = SubSeq(written, 1, k)
        /\ pos = Len(Texts(SubSeq(written, 1, k))) + 0
    BY <2>1, <2>2 DEF ReaderInv, FileHolds, At, Read
  <2>4. Len(got) = k /\ k <= Len(written) /\ SubSeq(got, 1, k) = got
    BY <2>3
  <2>5. IsPrefix(got, written)
    BY <2>3, <2>4 DEF IsPrefix
  <2>6. pos = Len(Texts(got))
    <3>1. PICK H : TextsTo(H, written)
      BY <2>3, TextsOfPrefixes
    <3>2. Texts(SubSeq(written, 1, k)) = H[k] /\ H[k] \in Seq(Alphabet)
      BY <2>2, <3>1 DEF TextsTo
    <3>3. QED
      BY <2>3, <3>2
  <2>7. QED
    BY <2>5, <2>6
<1>2. QED
  BY <1>1, ReaderIsInductive, PTL

\* Reading stops only at a request that is not there as a whole or that no program
\* could know (main.c:58, main.c:75).
THEOREM ReaderDiesOnlyIfBroken == Spec => []DiesOnlyIfBroken
<1>1. ReaderInv => DiesOnlyIfBroken
  BY DEF ReaderInv
<1>2. QED
  BY <1>1, ReaderIsInductive, PTL

-----------------------------------------------------------------------------
(* The ring buffer: its indices wrap around the end of the buffer, and the *)
(* waiting tasks are those of the slots from readIdx on.                   *)

\* An index that has run out of the buffer at most once, brought back into it.
Wrap(x) == IF x < MaxSize THEN x ELSE x - MaxSize

\* The slot of the k-th waiting task of a buffer read from r.
Slot(r, k) == Wrap(r + k - 1)

\* WaitingOwnsHeap of a buffer b with n tasks from r on.
Owns(b, r, n, h) ==
    /\ \A k \in 1..n : b[Slot(r, k)] \in Addresses /\ h[b[Slot(r, k)]] # NULL
    /\ \A k, l \in 1..n : b[Slot(r, k)] = b[Slot(r, l)] => k = l
    /\ \A a \in Addresses : h[a] # NULL => \E k \in 1..n : b[Slot(r, k)] = a

Buffer == [Slots -> Addresses \cup {NULL}]
Heap == [Addresses -> Tasks \cup {NULL}]

\* writeIdx is redundant: it is readIdx moved on by size.
QueueIInv ==
    /\ QueueTypeOK
    /\ phase # "freed" => Owns(buff, readIdx, size, heap) /\ writeIdx = Wrap(readIdx + size)

LEMMA ModuloWraps ==
  ASSUME NEW x \in Nat, x < MaxSize + MaxSize
  PROVE  x % MaxSize = Wrap(x) /\ Wrap(x) \in Slots
<1>1. MaxSize \in Nat \ {0}
  BY MaxSizeAssumption
<1>2. CASE x < MaxSize
  BY <1>1, <1>2 DEF Wrap, Slots
<1>3. CASE x >= MaxSize
  <2> DEFINE y == x - MaxSize
  <2>1. y \in 0..(MaxSize - 1) /\ x = y + MaxSize
    BY <1>1, <1>3
  <2> HIDE DEF y
  <2>2. (y + MaxSize) % MaxSize = y
    BY <1>1, <2>1
  <2>3. QED
    BY <1>1, <1>3, <2>1, <2>2 DEF Wrap, Slots, y
<1>4. QED
  BY <1>1, <1>2, <1>3

LEMMA BeyondWraps ==
  ASSUME NEW i \in Slots
  PROVE  Beyond(i) = Wrap(i + 1) /\ Beyond(i) \in Slots
<1>1. i + 1 \in Nat /\ i + 1 < MaxSize + MaxSize
  BY MaxSizeAssumption DEF Slots
<1>2. QED
  BY <1>1, ModuloWraps DEF Beyond

LEMMA SlotIs ==
  ASSUME NEW r \in Slots, NEW k \in 1..MaxSize
  PROVE  (r + k - 1) % MaxSize = Slot(r, k) /\ Slot(r, k) \in Slots
<1>1. r + k - 1 \in Nat /\ r + k - 1 < MaxSize + MaxSize
  BY MaxSizeAssumption DEF Slots
<1>2. QED
  BY <1>1, ModuloWraps DEF Slot

\* The slots of a round are different ones, and moving on by one shifts them.
LEMMA SlotsOfARound ==
  ASSUME NEW r \in Slots
  PROVE  /\ \A k, l \in 1..MaxSize : Slot(r, k) = Slot(r, l) => k = l
         /\ \A k \in 1..(MaxSize - 1) : Slot(Wrap(r + 1), k) = Slot(r, k + 1)
         /\ \A k \in 0..MaxSize : Wrap(r + k) = Slot(r, k + 1)
         /\ \A k \in 1..MaxSize : Wrap(Wrap(r + 1) + k - 1) = Wrap(r + k)
         /\ Slot(r, 1) = r
BY MaxSizeAssumption DEF Slots, Slot, Wrap

-----------------------------------------------------------------------------
(* Putting a task in and taking one out                                     *)

\* The slot behind the waiting tasks is written, so that none is overwritten;
\* the fresh copy is none of theirs.
LEMMA PutOwns ==
  ASSUME NEW b \in Buffer, NEW r \in Slots, NEW n \in 0..(MaxSize - 1), NEW h \in Heap,
         Owns(b, r, n, h), NEW a \in Addresses, h[a] = NULL, NEW t \in Tasks
  PROVE  Owns([b EXCEPT ![Wrap(r + n)] = a], r, n + 1, [h EXCEPT ![a] = t])
<1> DEFINE b2 == [b EXCEPT ![Wrap(r + n)] = a]
           h2 == [h EXCEPT ![a] = t]
<1>1. n \in Nat /\ MaxSize \in Nat /\ n < MaxSize
  BY MaxSizeAssumption
<1>2. Wrap(r + n) = Slot(r, n + 1) /\ Slot(r, n + 1) \in Slots
  BY <1>1, SlotsOfARound, SlotIs
<1>3. b2[Slot(r, n + 1)] = a
  BY <1>2 DEF Buffer
<1>4. \A k \in 1..n : b2[Slot(r, k)] = b[Slot(r, k)]
  <2>1. \A k \in 1..n : Slot(r, k) \in Slots /\ Slot(r, k) # Slot(r, n + 1)
    BY <1>1, SlotsOfARound, SlotIs
  <2>2. QED
    BY <1>2, <2>1 DEF Buffer
<1>5. h2[a] = t /\ \A c \in Addresses : c # a => h2[c] = h[c]
  BY DEF Heap
<1>6. t # NULL /\ \A k \in 1..(n + 1) : k \in 1..n \/ k = n + 1
  BY <1>1, NoNullAssumption
<1>7. \A k \in 1..n : b[Slot(r, k)] \in Addresses /\ b[Slot(r, k)] # a /\ h[b[Slot(r, k)]] # NULL
  BY DEF Owns
<1> HIDE DEF b2, h2
<1>8. \A k \in 1..(n + 1) : b2[Slot(r, k)] \in Addresses /\ h2[b2[Slot(r, k)]] # NULL
  BY <1>3, <1>4, <1>5, <1>6, <1>7
<1>9. \A k, l \in 1..(n + 1) : b2[Slot(r, k)] = b2[Slot(r, l)] => k = l
  BY <1>3, <1>4, <1>6, <1>7 DEF Owns
<1>10. \A c \in Addresses : h2[c] # NULL => \E k \in 1..(n + 1) : b2[Slot(r, k)] = c
  <2> SUFFICES ASSUME NEW c \in Addresses, h2[c] # NULL
               PROVE  \E k \in 1..(n + 1) : b2[Slot(r, k)] = c
    OBVIOUS
  <2>1. n + 1 \in 1..(n + 1)
    BY <1>1
  <2>2. CASE c = a
    BY <1>3, <2>1, <2>2
  <2>3. CASE c # a
    <3>1. PICK k \in 1..n : b[Slot(r, k)] = c
      BY <1>5, <2>3 DEF Owns
    <3>2. k \in 1..(n + 1) /\ b2[Slot(r, k)] = c
      BY <1>1, <1>4, <3>1
    <3>3. QED
      BY <3>2
  <2>4. QED
    BY <2>2, <2>3
<1>11. QED
  BY <1>8, <1>9, <1>10 DEF Owns, b2, h2

\* The copy that is freed is the one of the task taken out, and no other
\* waiting task names it.
LEMMA TakeOwns ==
  ASSUME NEW b \in Buffer, NEW r \in Slots, NEW n \in 1..MaxSize, NEW h \in Heap,
         Owns(b, r, n, h)
  PROVE  /\ b[r] \in Addresses /\ h[b[r]] \in Tasks
         /\ Owns(b, Wrap(r + 1), n - 1, [h EXCEPT ![b[r]] = NULL])
<1> DEFINE h2 == [h EXCEPT ![b[r]] = NULL]
           r2 == Wrap(r + 1)
<1>1. n \in Nat /\ MaxSize \in Nat /\ n <= MaxSize /\ n >= 1
  BY MaxSizeAssumption
<1>2. Slot(r, 1) = r
  BY SlotsOfARound
<1>3. b[r] \in Addresses /\ h[b[r]] # NULL
  BY <1>1, <1>2 DEF Owns
<1>4. h[b[r]] \in Tasks
  BY <1>3 DEF Heap
<1>5. \A k \in 1..(n - 1) : Slot(r2, k) = Slot(r, k + 1) /\ k + 1 \in 1..n /\ k + 1 # 1
  BY <1>1, SlotsOfARound
<1>6. h2[b[r]] = NULL /\ \A c \in Addresses : c # b[r] => h2[c] = h[c]
  BY <1>3 DEF Heap
<1>7. \A k \in 1..n : k # 1 => b[Slot(r, k)] # b[r]
  BY <1>1, <1>2 DEF Owns
<1> HIDE DEF h2, r2
<1>8. \A k \in 1..(n - 1) : b[Slot(r2, k)] \in Addresses /\ h2[b[Slot(r2, k)]] # NULL
  BY <1>5, <1>6, <1>7 DEF Owns
<1>9. \A k, l \in 1..(n - 1) : b[Slot(r2, k)] = b[Slot(r2, l)] => k = l
  <2> SUFFICES ASSUME NEW k \in 1..(n - 1), NEW l \in 1..(n - 1),
                      b[Slot(r2, k)] = b[Slot(r2, l)]
               PROVE  k = l
    OBVIOUS
  <2>1. k + 1 = l + 1
    BY <1>5 DEF Owns
  <2>2. QED
    BY <1>1, <2>1
<1>10. \A c \in Addresses : h2[c] # NULL => \E k \in 1..(n - 1) : b[Slot(r2, k)] = c
  <2> SUFFICES ASSUME NEW c \in Addresses, h2[c] # NULL
               PROVE  \E k \in 1..(n - 1) : b[Slot(r2, k)] = c
    OBVIOUS
  <2>1. c # b[r] /\ h[c] # NULL
    BY <1>6
  <2>2. PICK k \in 1..n : b[Slot(r, k)] = c
    BY <2>1 DEF Owns
  <2>3. k # 1
    BY <1>2, <2>1, <2>2
  <2>4. k - 1 \in 1..(n - 1) /\ (k - 1) + 1 = k
    BY <1>1, <2>3
  <2>5. b[Slot(r2, k - 1)] = c
    BY <1>5, <2>2, <2>4
  <2>6. QED
    BY <2>4, <2>5
<1>11. QED
  BY <1>3, <1>4, <1>8, <1>9, <1>10 DEF Owns, h2, r2

-----------------------------------------------------------------------------
(* The waiting tasks as a sequence                                          *)

Sequence(b, r, n, h) == [k \in 1..n |-> h[b[Slot(r, k)]]]

LEMMA SequenceTyped ==
  ASSUME NEW b, NEW r, NEW n \in Nat, NEW h \in Heap, Owns(b, r, n, h)
  PROVE  /\ Sequence(b, r, n, h) \in Seq(Tasks) /\ Len(Sequence(b, r, n, h)) = n
         /\ \A k \in 1..n : Sequence(b, r, n, h)[k] = h[b[Slot(r, k)]]
<1> DEFINE s == Sequence(b, r, n, h)
<1>1. \A k \in 1..n : h[b[Slot(r, k)]] \in Tasks
  BY DEF Owns, Heap
<1>2. s \in [1..n -> Tasks]
  BY <1>1 DEF Sequence
<1>3. s \in Seq(Tasks)
  BY <1>2
<1>4. DOMAIN s = 1..n
  BY DEF Sequence
<1> HIDE DEF s
<1>5. Len(s) = n
  BY <1>3, <1>4
<1>6. QED
  BY <1>3, <1>5 DEF s, Sequence

LEMMA PutAppends ==
  ASSUME NEW b \in Buffer, NEW r \in Slots, NEW n \in 0..(MaxSize - 1), NEW h \in Heap,
         Owns(b, r, n, h), NEW a \in Addresses, h[a] = NULL, NEW t \in Tasks
  PROVE  Sequence([b EXCEPT ![Wrap(r + n)] = a], r, n + 1, [h EXCEPT ![a] = t])
            = Append(Sequence(b, r, n, h), t)
<1> DEFINE b2  == [b EXCEPT ![Wrap(r + n)] = a]
           h2  == [h EXCEPT ![a] = t]
           old == Sequence(b, r, n, h)
           new == Sequence(b2, r, n + 1, h2)
<1>1. n \in Nat /\ n + 1 \in Nat /\ MaxSize \in Nat /\ n < MaxSize
  BY MaxSizeAssumption
<1>2. Owns(b2, r, n + 1, h2) /\ h2 \in Heap
  BY PutOwns DEF Heap
<1>3. Wrap(r + n) = Slot(r, n + 1) /\ Slot(r, n + 1) \in Slots
  BY <1>1, SlotsOfARound, SlotIs
<1>4. \A k \in 1..n : Slot(r, k) \in Slots /\ Slot(r, k) # Slot(r, n + 1)
  BY <1>1, SlotsOfARound, SlotIs
<1>5. \A k \in 1..n : h2[b2[Slot(r, k)]] = h[b[Slot(r, k)]]
  <2>1. \A k \in 1..n : b2[Slot(r, k)] = b[Slot(r, k)]
    BY <1>3, <1>4 DEF Buffer
  <2>2. \A k \in 1..n : b[Slot(r, k)] \in Addresses /\ b[Slot(r, k)] # a
    BY DEF Owns
  <2>3. QED
    BY <2>1, <2>2 DEF Heap
<1>6. h2[b2[Slot(r, n + 1)]] = t
  BY <1>3 DEF Buffer, Heap
<1> HIDE DEF b2, h2
<1>7. /\ old \in Seq(Tasks) /\ Len(old) = n
      /\ \A k \in 1..n : old[k] = h[b[Slot(r, k)]]
  BY <1>1, SequenceTyped
<1>8. /\ new \in Seq(Tasks) /\ Len(new) = n + 1
      /\ \A k \in 1..(n + 1) : new[k] = h2[b2[Slot(r, k)]]
  BY <1>1, <1>2, SequenceTyped
<1> HIDE DEF old, new
<1>9. /\ Append(old, t) \in Seq(Tasks) /\ Len(Append(old, t)) = n + 1
      /\ \A k \in 1..n : Append(old, t)[k] = old[k]
      /\ Append(old, t)[n + 1] = t
  BY <1>7, AppendProperties
<1>10. \A k \in 1..(n + 1) : new[k] = Append(old, t)[k]
  <2>1. \A k \in 1..(n + 1) : k \in 1..n \/ k = n + 1
    BY <1>1
  <2>2. QED
    BY <1>5, <1>6, <1>7, <1>8, <1>9, <2>1
<1>11. new = Append(old, t)
  BY <1>8, <1>9, <1>10, SeqEqual
<1>12. QED
  BY <1>11 DEF new, old, b2, h2

LEMMA TakeHandsOut ==
  ASSUME NEW b \in Buffer, NEW r \in Slots, NEW n \in 1..MaxSize, NEW h \in Heap,
         Owns(b, r, n, h)
  PROVE  /\ Sequence(b, r, n, h) # <<>> /\ h[b[r]] = Head(Sequence(b, r, n, h))
         /\ Sequence(b, Wrap(r + 1), n - 1, [h EXCEPT ![b[r]] = NULL])
               = Tail(Sequence(b, r, n, h))
<1> DEFINE h2  == [h EXCEPT ![b[r]] = NULL]
           r2  == Wrap(r + 1)
           old == Sequence(b, r, n, h)
           new == Sequence(b, r2, n - 1, h2)
<1>1. n \in Nat \ {0} /\ n - 1 \in Nat /\ MaxSize \in Nat /\ n <= MaxSize
  BY MaxSizeAssumption
<1>2. b[r] \in Addresses /\ Owns(b, r2, n - 1, h2) /\ h2 \in Heap
  BY TakeOwns DEF Heap
<1>3. Slot(r, 1) = r /\ \A k \in 1..(n - 1) : Slot(r2, k) = Slot(r, k + 1) /\ k + 1 \in 1..n
  BY <1>1, SlotsOfARound
<1>4. /\ old \in Seq(Tasks) /\ Len(old) = n
      /\ \A k \in 1..n : old[k] = h[b[Slot(r, k)]]
  <2> HIDE DEF h2, r2, old, new
  <2>1. n \in Nat
    BY <1>1
  <2>2. /\ Sequence(b, r, n, h) \in Seq(Tasks) /\ Len(Sequence(b, r, n, h)) = n
        /\ \A k \in 1..n : Sequence(b, r, n, h)[k] = h[b[Slot(r, k)]]
    BY <2>1, SequenceTyped
  <2>3. QED
    BY <2>2 DEF old
<1>5. \A k \in 1..(n - 1) : h2[b[Slot(r2, k)]] = old[k + 1]
  <2>1. \A k \in 1..(n - 1) : b[Slot(r, k + 1)] \in Addresses /\ b[Slot(r, k + 1)] # b[r]
    <3>1. \A k \in 1..n : k # 1 => b[Slot(r, k)] # b[Slot(r, 1)] /\ b[Slot(r, k)] \in Addresses
      BY <1>1 DEF Owns
    <3>2. \A k \in 1..(n - 1) : k + 1 \in 1..n /\ k + 1 # 1
      BY <1>1
    <3>3. QED
      BY <1>3, <3>1, <3>2
  <2>2. QED
    BY <1>2, <1>3, <1>4, <2>1 DEF Heap
<1> HIDE DEF h2, r2
<1>6. /\ new \in Seq(Tasks) /\ Len(new) = n - 1
      /\ \A k \in 1..(n - 1) : new[k] = h2[b[Slot(r2, k)]]
  BY <1>1, <1>2, SequenceTyped
<1> HIDE DEF old, new
<1>7. old # <<>> /\ Head(old) = old[1]
  BY <1>1, <1>4
<1>8. /\ Tail(old) \in Seq(Tasks) /\ Len(Tail(old)) = n - 1
      /\ \A k \in 1..(n - 1) : Tail(old)[k] = old[k + 1]
  BY <1>1, <1>4, <1>7, HeadTailProperties
<1>9. \A k \in 1..(n - 1) : new[k] = Tail(old)[k]
  BY <1>5, <1>6, <1>8
<1>10. new = Tail(old)
  BY <1>6, <1>8, <1>9, SeqEqual
<1>11. h[b[r]] = old[1]
  BY <1>1, <1>3, <1>4
<1>12. QED
  BY <1>7, <1>10, <1>11 DEF old, new, h2, r2

-----------------------------------------------------------------------------
(* The invariant and the refinement                                         *)

LEMMA InitIInv == QueueInit => QueueIInv
<1> SUFFICES ASSUME QueueInit PROVE QueueIInv
  OBVIOUS
<1>1. QueueTypeOK
  BY MaxSizeAssumption DEF QueueInit, QueueTypeOK, Slots
<1>2. Owns(buff, readIdx, size, heap)
  BY DEF QueueInit, Owns
<1>3. writeIdx = Wrap(readIdx + size)
  BY MaxSizeAssumption DEF QueueInit, Wrap
<1>4. QED
  BY <1>1, <1>2, <1>3 DEF QueueIInv

LEMMA QueueParts ==
  ASSUME QueueIInv, phase # "freed"
  PROVE  /\ buff \in Buffer /\ heap \in Heap /\ readIdx \in Slots /\ size \in 0..MaxSize
         /\ Owns(buff, readIdx, size, heap) /\ writeIdx = Wrap(readIdx + size)
BY DEF QueueIInv, QueueTypeOK, Buffer, Heap

\* What EnqueueRequest does, in the terms of PutOwns and PutAppends.
LEMMA EnqueueStep ==
  ASSUME QueueIInv, NEW t \in Tasks, EnqueueRequest(t)
  PROVE  /\ size \in 0..(MaxSize - 1) /\ size' = size + 1 /\ readIdx' = readIdx
         /\ writeIdx' = Wrap(readIdx + (size + 1)) /\ writeIdx' \in Slots
         /\ \E a \in Addresses : /\ heap[a] = NULL /\ heap' = [heap EXCEPT ![a] = t]
                                 /\ buff' = [buff EXCEPT ![Wrap(readIdx + size)] = a]
<1>1. /\ phase # "freed" /\ size # MaxSize /\ size' = size + 1 /\ readIdx' = readIdx
      /\ writeIdx' = Beyond(writeIdx)
      /\ \E a \in Addresses : /\ heap[a] = NULL /\ heap' = [heap EXCEPT ![a] = t]
                              /\ buff' = [buff EXCEPT ![writeIdx] = a]
  BY DEF EnqueueRequest, HasRoom
<1>2. /\ readIdx \in Slots /\ size \in 0..MaxSize /\ writeIdx = Wrap(readIdx + size)
      /\ writeIdx \in Slots
  BY <1>1, QueueParts DEF QueueIInv, QueueTypeOK
<1>3. size \in 0..(MaxSize - 1)
  BY <1>1, <1>2, MaxSizeAssumption
<1>4. writeIdx' = Wrap(writeIdx + 1) /\ writeIdx' \in Slots
  BY <1>1, <1>2, BeyondWraps
<1>5. Wrap(writeIdx + 1) = Wrap(readIdx + (size + 1))
  BY <1>2, <1>3, MaxSizeAssumption DEF Wrap, Slots
<1>6. QED
  BY <1>1, <1>2, <1>3, <1>4, <1>5

LEMMA EnqueueIInv ==
  ASSUME QueueIInv, NEW t \in Tasks, EnqueueRequest(t)
  PROVE  QueueIInv'
<1>1. phase = "ready" /\ phase' = "ready" /\ out' = out
  BY DEF EnqueueRequest
<1>2. /\ buff \in Buffer /\ heap \in Heap /\ readIdx \in Slots
      /\ Owns(buff, readIdx, size, heap)
  BY <1>1, QueueParts
<1>3. /\ size \in 0..(MaxSize - 1) /\ size' = size + 1 /\ readIdx' = readIdx
      /\ writeIdx' = Wrap(readIdx' + size') /\ writeIdx' \in Slots
  BY EnqueueStep
<1>4. PICK a \in Addresses : /\ heap[a] = NULL /\ heap' = [heap EXCEPT ![a] = t]
                             /\ buff' = [buff EXCEPT ![Wrap(readIdx + size)] = a]
  BY EnqueueStep
<1>5. Owns(buff', readIdx', size', heap')
  BY <1>2, <1>3, <1>4, PutOwns
<1>6. buff' \in Buffer /\ heap' \in Heap /\ size' \in 0..MaxSize
  <2>1. heap' \in Heap
    BY <1>2, <1>4 DEF Heap
  <2>2. buff' \in Buffer
    BY <1>2, <1>4 DEF Buffer
  <2>3. size' \in 0..MaxSize
    BY <1>3, MaxSizeAssumption
  <2>4. QED
    BY <2>1, <2>2, <2>3
<1>7. QueueTypeOK'
  BY <1>1, <1>2, <1>3, <1>6 DEF QueueIInv, QueueTypeOK, Buffer, Heap
<1>8. QED
  BY <1>3, <1>5, <1>7 DEF QueueIInv

\* What ExecuteTask does, in the terms of TakeOwns and TakeHandsOut.
LEMMA ExecuteStep ==
  ASSUME QueueIInv, ExecuteTask
  PROVE  /\ size \in 1..MaxSize /\ size' = size - 1 /\ readIdx' = Wrap(readIdx + 1)
         /\ readIdx' \in Slots /\ writeIdx' = writeIdx /\ buff' = buff
         /\ writeIdx = Wrap(readIdx' + size')
         /\ out' = heap[buff[readIdx]] /\ heap' = [heap EXCEPT ![buff[readIdx]] = NULL]
<1>1. /\ phase # "freed" /\ size # 0 /\ size' = size - 1 /\ readIdx' = Beyond(readIdx)
      /\ writeIdx' = writeIdx /\ buff' = buff
      /\ out' = heap[buff[readIdx]] /\ heap' = [heap EXCEPT ![buff[readIdx]] = NULL]
  BY DEF ExecuteTask
<1>2. readIdx \in Slots /\ size \in 0..MaxSize /\ writeIdx = Wrap(readIdx + size)
  BY <1>1, QueueParts
<1>3. size \in 1..MaxSize
  BY <1>1, <1>2, MaxSizeAssumption
<1>4. readIdx' = Wrap(readIdx + 1) /\ readIdx' \in Slots
  BY <1>1, <1>2, BeyondWraps
<1>5. Wrap(readIdx + size) = Wrap(Wrap(readIdx + 1) + (size - 1))
  BY <1>2, <1>3, MaxSizeAssumption DEF Wrap, Slots
<1>6. QED
  BY <1>1, <1>2, <1>3, <1>4, <1>5

LEMMA ExecuteIInv ==
  ASSUME QueueIInv, ExecuteTask
  PROVE  QueueIInv'
<1>1. phase = "executing" /\ phase' = phase
  BY DEF ExecuteTask
<1>2. /\ buff \in Buffer /\ heap \in Heap /\ readIdx \in Slots
      /\ Owns(buff, readIdx, size, heap)
  BY <1>1, QueueParts
<1>3. /\ size \in 1..MaxSize /\ size' = size - 1 /\ readIdx' = Wrap(readIdx + 1)
      /\ readIdx' \in Slots /\ writeIdx' = writeIdx /\ buff' = buff
      /\ writeIdx' = Wrap(readIdx' + size')
      /\ out' = heap[buff[readIdx]] /\ heap' = [heap EXCEPT ![buff[readIdx]] = NULL]
  BY ExecuteStep
<1>4. buff[readIdx] \in Addresses /\ out' \in Tasks /\ Owns(buff', readIdx', size', heap')
  BY <1>2, <1>3, TakeOwns
<1>5. heap' \in Heap /\ size' \in 0..MaxSize
  <2>1. heap' \in Heap
    BY <1>2, <1>3 DEF Heap
  <2>2. size' \in 0..MaxSize
    BY <1>3, MaxSizeAssumption
  <2>3. QED
    BY <2>1, <2>2
<1>6. QueueTypeOK'
  BY <1>1, <1>2, <1>3, <1>4, <1>5 DEF QueueIInv, QueueTypeOK, Buffer, Heap
<1>7. QED
  BY <1>3, <1>4, <1>6 DEF QueueIInv

LEMMA FreeIInv ==
  ASSUME QueueIInv, FreeRequests
  PROVE  QueueIInv'
<1>1. heap' \in [Addresses -> Tasks \cup {NULL}]
  BY DEF QueueIInv, QueueTypeOK, FreeRequests
<1>2. readIdx' \in Slots /\ writeIdx' \in Slots /\ size' \in 0..MaxSize
  BY MaxSizeAssumption DEF FreeRequests, Slots
<1>3. QED
  BY <1>1, <1>2 DEF QueueIInv, QueueTypeOK, FreeRequests

LEMMA NextIInv == QueueIInv /\ [QueueNext]_queueVars => QueueIInv'
<1> SUFFICES ASSUME QueueIInv, [QueueNext]_queueVars PROVE QueueIInv'
  OBVIOUS
<1>1. ASSUME NEW t \in Tasks, EnqueueRequest(t) PROVE QueueIInv'
  BY <1>1, EnqueueIInv
<1>2. CASE ExecuteTask
  BY <1>2, ExecuteIInv
<1>3. CASE FreeRequests
  BY <1>3, FreeIInv
<1>4. CASE ExecuteQueue \/ QueueExecuted
  BY <1>4 DEF QueueIInv, QueueTypeOK, ExecuteQueue, QueueExecuted
<1>5. CASE UNCHANGED queueVars
  BY <1>5 DEF QueueIInv, QueueTypeOK, queueVars
<1>6. QED
  BY <1>1, <1>2, <1>3, <1>4, <1>5 DEF QueueNext

THEOREM Invariance == QueueSpec => []QueueIInv
<1>1. QED
  BY InitIInv, NextIInv, PTL DEF QueueSpec

\* Every index stays in the buffer and every variable keeps its type.
THEOREM TypeCorrect == QueueSpec => []QueueTypeOK
<1>1. QueueIInv => QueueTypeOK
  BY DEF QueueIInv
<1>2. QED
  BY <1>1, Invariance, PTL

LEMMA WaitingIs ==
  ASSUME QueueIInv, phase # "freed", NEW k \in 1..size
  PROVE  Waiting(k) = buff[Slot(readIdx, k)]
<1>1. readIdx \in Slots /\ k \in 1..MaxSize
  BY QueueParts, MaxSizeAssumption
<1>2. QED
  BY <1>1, SlotIs DEF Waiting

\* No copy of a request is read or freed after it was freed, and none is leaked
\* while the server lives, for any number of rounds of the indices.
THEOREM WaitingTasksOwnTheHeap == QueueSpec => []WaitingOwnsHeap
<1>1. ASSUME QueueIInv PROVE WaitingOwnsHeap
  <2> SUFFICES ASSUME phase # "freed"
               PROVE  /\ \A k \in 1..size : Waiting(k) \in Addresses /\ heap[Waiting(k)] # NULL
                      /\ \A k, l \in 1..size : Waiting(k) = Waiting(l) => k = l
                      /\ \A a \in Addresses :
                            heap[a] # NULL => \E k \in 1..size : Waiting(k) = a
    BY DEF WaitingOwnsHeap
  <2>1. \A k \in 1..size : Waiting(k) = buff[Slot(readIdx, k)]
    BY <1>1, WaitingIs
  <2>2. Owns(buff, readIdx, size, heap)
    BY <1>1, QueueParts
  <2>3. QED
    BY <2>1, <2>2 DEF Owns
<1>2. QED
  BY <1>1, Invariance, PTL

\* The loop of q_free_request goes from read_idx as many slots as there are waiting
\* tasks, but none at all if they fill the buffer.
LEMMA SlotsVisited ==
  ASSUME QueueIInv, phase # "freed"
  PROVE  /\ size < MaxSize => \A k \in 1..size : Slot(readIdx, k) \in Visited
         /\ size = MaxSize => Visited = {}
<1>1. /\ readIdx \in Slots /\ size \in 0..MaxSize /\ MaxSize \in Nat \ {0}
      /\ writeIdx = Wrap(readIdx + size)
  BY QueueParts, MaxSizeAssumption
<1>2. (writeIdx + MaxSize - readIdx) % MaxSize = IF size = MaxSize THEN 0 ELSE size
  <2> DEFINE x == writeIdx + MaxSize - readIdx
  <2>1. /\ x \in Nat /\ x < MaxSize + MaxSize
        /\ Wrap(x) = IF size = MaxSize THEN 0 ELSE size
    BY <1>1 DEF Wrap, Slots
  <2> HIDE DEF x
  <2>2. x % MaxSize = Wrap(x)
    BY <2>1, ModuloWraps
  <2>3. QED
    BY <2>1, <2>2 DEF x
<1>3. ASSUME size < MaxSize, NEW k \in 1..size
      PROVE  Slot(readIdx, k) \in Visited
  <2>1. k - 1 \in Slots /\ k - 1 < size /\ k \in 1..MaxSize /\ readIdx + (k - 1) = readIdx + k - 1
    BY <1>1, <1>3 DEF Slots
  <2>2. (readIdx + (k - 1)) % MaxSize = Slot(readIdx, k)
    BY <1>1, <2>1, SlotIs
  <2>3. (writeIdx + MaxSize - readIdx) % MaxSize = size
    BY <1>1, <1>2, <1>3
  <2>4. QED
    BY <2>1, <2>2, <2>3 DEF Visited, VisitedUpTo
<1>4. ASSUME size = MaxSize
      PROVE  Visited = {}
  <2>1. (writeIdx + MaxSize - readIdx) % MaxSize = 0
    BY <1>2, <1>4
  <2>2. \A j \in Slots : ~ (j < 0)
    BY <1>1 DEF Slots
  <2>3. QED
    BY <2>1, <2>2 DEF Visited, VisitedUpTo
<1>5. QED
  BY <1>3, <1>4

\* Freeing a queue frees the copies of all waiting tasks, or of none if it is full.
THEOREM FreeIsAllOrNothing == QueueSpec => OnlyAFullQueueLeaks
<1>1. ASSUME QueueIInv, FreeRequests
      PROVE  heap' = IF size = MaxSize THEN heap ELSE [a \in Addresses |-> NULL]
  <2>1. /\ size \in 0..MaxSize /\ MaxSize \in Nat \ {0} /\ phase # "freed"
        /\ Owns(buff, readIdx, size, heap)
    BY <1>1, QueueParts, MaxSizeAssumption DEF FreeRequests
  <2>2. heap' = [a \in Addresses |-> IF \E i \in Visited : buff[i] = a THEN NULL ELSE heap[a]]
    BY <1>1 DEF FreeRequests
  <2>3. CASE size = MaxSize
    <3>1. Visited = {}
      BY <1>1, <2>1, <2>3, SlotsVisited
    <3>2. heap \in [Addresses -> Tasks \cup {NULL}]
      BY <1>1 DEF QueueIInv, QueueTypeOK
    <3>3. QED
      BY <2>2, <2>3, <3>1, <3>2
  <2>4. CASE size # MaxSize
    <3>1. ASSUME NEW a \in Addresses, heap[a] # NULL
          PROVE  \E i \in Visited : buff[i] = a
      <4>1. PICK k \in 1..size : buff[Slot(readIdx, k)] = a
        BY <2>1, <3>1 DEF Owns
      <4>2. size < MaxSize
        BY <2>1, <2>4
      <4>3. \A l \in 1..size : Slot(readIdx, l) \in Visited
        BY <1>1, <2>1, <4>2, SlotsVisited
      <4>4. QED
        BY <4>1, <4>3
    <3>2. QED
      BY <2>2, <2>4, <3>1
  <2>5. QED
    BY <2>3, <2>4
<1>2. QueueIInv /\ [QueueNext]_queueVars
         => [FreeRequests =>
               heap' = IF size = MaxSize THEN heap ELSE [a \in Addresses |-> NULL]]_queueVars
  BY <1>1
<1>3. QED
  BY <1>2, Invariance, PTL DEF QueueSpec, OnlyAFullQueueLeaks

-----------------------------------------------------------------------------
(* The refinement                                                           *)

LEMMA WaitingTasksIs ==
  ASSUME QueueIInv, phase # "freed"
  PROVE  WaitingTasks = Sequence(buff, readIdx, size, heap)
BY WaitingIs DEF WaitingTasks, Sequence

LEMMA InitImplements == QueueInit => Fifo!Init
BY DEF QueueInit, Fifo!Init, WaitingTasks

LEMMA EnqueueImplements ==
  ASSUME QueueIInv, NEW t \in Tasks, EnqueueRequest(t)
  PROVE  Fifo!Enqueue(t)
<1>1. phase = "ready" /\ phase' = "ready" /\ out' = out
  BY DEF EnqueueRequest
<1>2. /\ buff \in Buffer /\ heap \in Heap /\ readIdx \in Slots
      /\ Owns(buff, readIdx, size, heap)
  BY <1>1, QueueParts
<1>3. size \in 0..(MaxSize - 1) /\ size' = size + 1 /\ readIdx' = readIdx
  BY EnqueueStep
<1>4. PICK a \in Addresses : /\ heap[a] = NULL /\ heap' = [heap EXCEPT ![a] = t]
                             /\ buff' = [buff EXCEPT ![Wrap(readIdx + size)] = a]
  BY EnqueueStep
<1>5. Sequence(buff', readIdx', size', heap') = Append(Sequence(buff, readIdx, size, heap), t)
  BY <1>2, <1>3, <1>4, PutAppends
<1>6. WaitingTasks = Sequence(buff, readIdx, size, heap)
  BY <1>1, WaitingTasksIs
<1>7. WaitingTasks' = Sequence(buff', readIdx', size', heap')
  <2>1. QueueIInv'
    BY EnqueueIInv
  <2>2. /\ readIdx' \in Slots /\ size' \in 0..MaxSize
    BY <2>1 DEF QueueIInv, QueueTypeOK
  <2>3. \A k \in 1..size' : (readIdx' + k - 1) % MaxSize = Slot(readIdx', k)
    BY <2>2, SlotIs, MaxSizeAssumption
  <2>4. QED
    BY <2>3 DEF WaitingTasks, Waiting, Sequence
<1>8. Len(WaitingTasks) < MaxSize
  <2>1. Len(WaitingTasks) = size
    BY <1>2, <1>3, <1>6, SequenceTyped
  <2>2. QED
    BY <1>3, <2>1, MaxSizeAssumption
<1>9. QED
  BY <1>1, <1>5, <1>6, <1>7, <1>8 DEF Fifo!Enqueue

LEMMA ExecuteImplements ==
  ASSUME QueueIInv, ExecuteTask
  PROVE  Fifo!HandOut
<1>1. phase = "executing" /\ phase' = "executing"
  BY DEF ExecuteTask
<1>2. /\ buff \in Buffer /\ heap \in Heap /\ readIdx \in Slots
      /\ Owns(buff, readIdx, size, heap)
  BY <1>1, QueueParts
<1>3. /\ size \in 1..MaxSize /\ size' = size - 1 /\ readIdx' = Wrap(readIdx + 1)
      /\ buff' = buff
      /\ out' = heap[buff[readIdx]] /\ heap' = [heap EXCEPT ![buff[readIdx]] = NULL]
  BY ExecuteStep
<1>4. /\ Sequence(buff, readIdx, size, heap) # <<>>
      /\ out' = Head(Sequence(buff, readIdx, size, heap))
      /\ Sequence(buff', readIdx', size', heap') = Tail(Sequence(buff, readIdx, size, heap))
  BY <1>2, <1>3, TakeHandsOut
<1>5. WaitingTasks = Sequence(buff, readIdx, size, heap)
  BY <1>1, WaitingTasksIs
<1>6. WaitingTasks' = Sequence(buff', readIdx', size', heap')
  <2>1. QueueIInv'
    BY ExecuteIInv
  <2>2. /\ readIdx' \in Slots /\ size' \in 0..MaxSize
    BY <2>1 DEF QueueIInv, QueueTypeOK
  <2>3. \A k \in 1..size' : (readIdx' + k - 1) % MaxSize = Slot(readIdx', k)
    BY <2>2, SlotIs, MaxSizeAssumption
  <2>4. QED
    BY <2>3 DEF WaitingTasks, Waiting, Sequence
<1>7. QED
  BY <1>1, <1>4, <1>5, <1>6 DEF Fifo!HandOut

LEMMA FreeImplements ==
  ASSUME FreeRequests
  PROVE  Fifo!Destroy
BY DEF FreeRequests, Fifo!Destroy, WaitingTasks

LEMMA NextImplements == QueueIInv /\ [QueueNext]_queueVars => [Fifo!Next]_(Fifo!vars)
<1> SUFFICES ASSUME QueueIInv, [QueueNext]_queueVars PROVE Fifo!Next \/ UNCHANGED Fifo!vars
  OBVIOUS
<1>1. ASSUME NEW t \in Tasks, EnqueueRequest(t) PROVE Fifo!Next
  <2>1. phase # "freed"
    BY <1>1 DEF EnqueueRequest
  <2>2. QED
    BY <1>1, <2>1, EnqueueImplements DEF Fifo!Next
<1>2. CASE ExecuteTask
  <2>1. phase # "freed"
    BY <1>2 DEF ExecuteTask
  <2>2. QED
    BY <1>2, <2>1, ExecuteImplements DEF Fifo!Next
<1>3. CASE FreeRequests
  <2>1. phase # "freed"
    BY <1>3 DEF FreeRequests
  <2>2. QED
    BY <1>3, <2>1, FreeImplements DEF Fifo!Next
<1>4. CASE ExecuteQueue \/ QueueExecuted \/ UNCHANGED queueVars
  BY <1>4 DEF ExecuteQueue, QueueExecuted, queueVars, Fifo!vars, WaitingTasks, Waiting
<1>5. QED
  BY <1>1, <1>2, <1>3, <1>4 DEF QueueNext

\* The ring buffer implements the bounded first-in first-out sequence that the
\* modules of the server take it for.
THEOREM RingBufferImplementsTaskQueue == QueueSpec => ImplementsTaskQueue
<1>1. QED
  BY Invariance, InitImplements, NextImplements, PTL DEF QueueSpec, ImplementsTaskQueue, Fifo!Spec
=============================================================================
