-------------------------- MODULE ExpressionsProofs --------------------------
(***************************************************************************)
(* The searches of CloseExpression and ReverseCloseExpression find the     *)
(* bracket that matches the one they start from, in every text.            *)
(*                                                                         *)
(* Of all the places that a search has looked at, some wait on its stack   *)
(* and the other brackets are paired with each other, no pair around one   *)
(* that waits.  However the text up to some place may be paired, what the  *)
(* search has paired is paired the same way in it: so nothing matches the  *)
(* origin while it waits, nor ever after a bracket that does not fit.      *)
(***************************************************************************)
EXTENDS Expressions, SequenceTheorems, WellFoundedInduction, FiniteSetTheorems, TLAPS

-----------------------------------------------------------------------------
(* Counting upwards                                                        *)

\* A set of numbers without a least one is empty.
LEMMA NoFirst ==
  ASSUME NEW I \in SUBSET Nat, \A i \in I : \E j \in I : j < i
  PROVE  I = {}
<1>1. SUFFICES ASSUME I # {} PROVE FALSE
  OBVIOUS
<1>2. PICK i \in I : \A j \in I : ~ (<<j, i>> \in OpToRel(<, Nat))
  BY <1>1, WFMin, NatLessThanWellFounded
<1>3. PICK j \in I : j < i
  OBVIOUS
<1>4. <<j, i>> \in OpToRel(<, Nat)
  BY <1>3 DEF OpToRel
<1>5. QED
  BY <1>2, <1>4

\* A set of numbers with 0 that has each one's successor up to n holds all up to n.
LEMMA Climb ==
  ASSUME NEW n \in Nat, NEW S, 0 \in S, \A i \in 0..(n - 1) : i \in S => i + 1 \in S
  PROVE  \A i \in 0..n : i \in S
<1> DEFINE I == {i \in 0..n : i \notin S}
<1>1. \A i \in I : i - 1 \in I /\ i - 1 < i
  <2> SUFFICES ASSUME NEW i \in I PROVE i - 1 \in I /\ i - 1 < i
    OBVIOUS
  <2>1. i \in Nat /\ i # 0 /\ i <= n
    OBVIOUS
  <2>2. i - 1 \in 0..(n - 1) /\ (i - 1) + 1 = i /\ i - 1 \in 0..n /\ i - 1 < i
    BY <2>1
  <2>3. QED
    BY <2>2
<1>2. I = {}
  <2>1. I \in SUBSET Nat
    OBVIOUS
  <2>2. \A i \in I : \E j \in I : j < i
    BY <1>1
  <2> HIDE DEF I
  <2>3. QED
    BY <2>1, <2>2, NoFirst
<1>3. QED
  BY <1>2

-----------------------------------------------------------------------------
(* The order of the places                                                  *)

LinesAreLines == lines \in Seq(Seq(Characters))

\* In the direction of the search, p comes before q.
Sooner(f, p, q) == p # q /\ IF f THEN Before(p, q) ELSE Before(q, p)

\* What a place is.
LEMMA PlaceIs ==
  ASSUME LinesAreLines, NEW p \in Places
  PROVE  /\ p = Position(p.line, p.pos)
         /\ Len(lines) \in Nat /\ p.line \in 1..Len(lines) /\ lines[p.line] \in Seq(Characters)
         /\ Len(lines[p.line]) \in Nat /\ p.pos \in 1..Len(lines[p.line])
         /\ p.line \in Nat /\ p.pos \in Nat
<1>1. PICK n \in DOMAIN lines : \E i \in DOMAIN lines[n] : p = Position(n, i)
  BY DEF Places
<1>2. PICK i \in DOMAIN lines[n] : p = Position(n, i)
  BY <1>1
<1>3. p.line = n /\ p.pos = i
  BY <1>2 DEF Position
<1>4. Len(lines) \in Nat /\ n \in 1..Len(lines)
  BY <1>1 DEF LinesAreLines
<1>5. lines[n] \in Seq(Characters)
  <2>1. PICK C : C = Seq(Characters)
    OBVIOUS
  <2>2. lines \in Seq(C)
    BY <2>1 DEF LinesAreLines
  <2>3. QED
    BY <1>4, <2>1, <2>2
<1>6. Len(lines[n]) \in Nat /\ i \in 1..Len(lines[n])
  BY <1>2, <1>5
<1>7. QED
  BY <1>2, <1>3, <1>4, <1>5, <1>6

\* The places are in one order in either direction.
LEMMA Order ==
  ASSUME LinesAreLines, NEW f \in BOOLEAN, NEW p \in Places, NEW q \in Places, NEW r \in Places
  PROVE  /\ ~ Sooner(f, p, p)
         /\ Sooner(f, p, q) => ~ Sooner(f, q, p)
         /\ Sooner(f, p, q) /\ Sooner(f, q, r) => Sooner(f, p, r)
         /\ p = q \/ Sooner(f, p, q) \/ Sooner(f, q, p)
<1>1. /\ p.line \in Nat /\ p.pos \in Nat /\ q.line \in Nat /\ q.pos \in Nat
      /\ r.line \in Nat /\ r.pos \in Nat
  BY PlaceIs
<1>2. /\ p.line = q.line /\ p.pos = q.pos => p = q
      /\ p.line = r.line /\ p.pos = r.pos => p = r
  BY PlaceIs
<1>3. QED
  BY <1>1, <1>2 DEF Sooner, Before

\* In the order of the file this is Before.
LEMMA SoonerIs ==
  ASSUME LinesAreLines, NEW f \in BOOLEAN, NEW p \in Places, NEW q \in Places
  PROVE  /\ Sooner(TRUE, p, q) <=> p # q /\ Before(p, q)
         /\ Before(p, q) <=> p = q \/ Sooner(TRUE, p, q)
         /\ Sooner(f, p, q) <=> Sooner(~ f, q, p)
<1>1. p.line \in Nat /\ p.pos \in Nat
  BY PlaceIs
<1>2. QED
  BY <1>1 DEF Sooner, Before

\* Some place of a set is the first one in the direction of the search.
LEMMA FirstPlace ==
  ASSUME LinesAreLines, NEW f \in BOOLEAN, NEW S \in SUBSET Places, S # {}
  PROVE  \E p \in S : \A q \in S : ~ Sooner(f, q, p)
<1> DEFINE Up(p) == IF f THEN p.line ELSE Len(lines) - p.line
           I == {Up(p) : p \in S}
<1>1. \A p \in S : /\ p.line \in Nat /\ p.pos \in Nat /\ Up(p) \in Nat
                   /\ Len(lines) \in Nat /\ p.line <= Len(lines)
  BY PlaceIs
<1>2. PICK n \in I : \A i \in I : ~ i < n
  <2>1. I \in SUBSET Nat /\ I # {}
    BY <1>1
  <2> HIDE DEF I
  <2>2. QED
    BY <2>1, NoFirst
<1> DEFINE T == {p \in S : Up(p) = n}
           Right(p) == IF f THEN p.pos ELSE Len(lines[p.line]) - p.pos
           J == {Right(p) : p \in T}
<1>3. \A p \in T : p.pos \in Nat /\ Right(p) \in Nat
  BY PlaceIs
<1>4. PICK k \in J : \A j \in J : ~ j < k
  <2>1. T # {}
    BY <1>2
  <2>2. J \in SUBSET Nat /\ J # {}
    BY <1>3, <2>1
  <2> HIDE DEF J
  <2>3. QED
    BY <2>2, NoFirst
<1>5. PICK p \in T : Right(p) = k
  BY <1>4
<1>6. ASSUME NEW q \in S, Sooner(f, q, p) PROVE FALSE
  <2>1. /\ ~ Up(q) < Up(p) /\ Up(p) = n
        /\ Up(q) = n => ~ Right(q) < Right(p)
    BY <1>2, <1>4, <1>5
  <2>2. /\ p.line \in Nat /\ q.line \in Nat /\ p.pos \in Nat /\ q.pos \in Nat
        /\ Len(lines) \in Nat /\ p.line <= Len(lines) /\ q.line <= Len(lines)
    BY <1>1
  <2>3. Len(lines[p.line]) \in Nat
    BY PlaceIs
  <2>4. CASE f
    <3>1. Before(q, p) /\ q # p
      BY <1>6, <2>4 DEF Sooner
    <3>2. q.line = p.line /\ q.pos = p.pos
      BY <2>1, <2>2, <2>4, <3>1 DEF Before
    <3>3. q = p
      BY <3>2, PlaceIs
    <3>4. QED
      BY <3>1, <3>3
  <2>5. CASE ~ f
    <3>1. Before(p, q) /\ q # p
      BY <1>6, <2>5 DEF Sooner
    <3>2. q.line = p.line
      BY <2>1, <2>2, <2>5, <3>1 DEF Before
    <3>3. q.pos = p.pos
      BY <2>1, <2>2, <2>3, <2>5, <3>1, <3>2 DEF Before
    <3>4. q = p
      BY <3>2, <3>3, PlaceIs
    <3>5. QED
      BY <3>1, <3>4
  <2>6. QED
    BY <2>4, <2>5
<1>7. QED
  BY <1>5, <1>6

-----------------------------------------------------------------------------
(* Pairs of brackets, in either direction                                   *)

\* What a search puts on its stack, and what it looks for.
Opening(f) == IF f THEN Openers ELSE Closers
Closing(f) == IF f THEN Closers ELSE Openers
Angle(f) == IF f THEN "<" ELSE ">"

Fits(f, a, b) == a \in Opening(f) /\ b \in Closing(f) /\ (IF f THEN <<a, b>> ELSE <<b, a>>) \in Pairs

\* Pairing, as a search in one direction meets the brackets.
Paired(f, P, m) ==
    /\ m \in [P -> P]
    /\ \A p \in P : m[m[p]] = p
    /\ \A p \in P :
         CharAt(p) \in Opening(f) => Sooner(f, p, m[p]) /\ Fits(f, CharAt(p), CharAt(m[p]))
    /\ \A p \in P : CharAt(p) \in Closing(f) => CharAt(m[p]) \in Opening(f)
    /\ \A p, q \in P :
         CharAt(p) \in Opening(f) /\ Sooner(f, p, q) /\ Sooner(f, q, m[p])
         => Sooner(f, p, m[q]) /\ Sooner(f, m[q], m[p])

\* What opens in one direction closes in the other, and nothing does both.
LEMMA KindsAre ==
  ASSUME NEW f \in BOOLEAN
  PROVE  /\ Opening(~ f) = Closing(f) /\ Closing(~ f) = Opening(f)
         /\ Opening(f) \cup Closing(f) = Openers \cup Closers
         /\ \A c \in Opening(f) : c \notin Closing(f) /\ c # "<" /\ c # ">" /\ c # ";"
         /\ \A c \in Closing(f) : c # "<" /\ c # ">" /\ c # ";"
         /\ \A a, b : Fits(f, a, b) <=> Fits(~ f, b, a)
<1>1. CASE f
  BY <1>1 DEF Opening, Closing, Openers, Closers, Fits
<1>2. CASE ~ f
  BY <1>2 DEF Opening, Closing, Openers, Closers, Fits
<1>3. QED
  BY <1>1, <1>2

\* Pairs are pairs in either direction.
LEMMA PairedBack ==
  ASSUME LinesAreLines, NEW f \in BOOLEAN, NEW P \in SUBSET Places, NEW m,
         \A p \in P : CharAt(p) \in Openers \cup Closers, Paired(f, P, m)
  PROVE  Paired(~ f, P, m)
<1>1. PICK O, C : O = Opening(f) /\ C = Closing(f) /\ O = Closing(~ f) /\ C = Opening(~ f)
  BY KindsAre
<1>2. \A p \in P : CharAt(p) \in O \cup C /\ (CharAt(p) \in O => CharAt(p) \notin C)
  BY <1>1, KindsAre
<1>3. /\ \A p \in P : m[p] \in P /\ m[m[p]] = p
      /\ \A p \in P : CharAt(p) \in O => Sooner(f, p, m[p]) /\ Fits(f, CharAt(p), CharAt(m[p]))
      /\ \A p \in P : CharAt(p) \in C => CharAt(m[p]) \in O
      /\ \A p, q \in P : CharAt(p) \in O /\ Sooner(f, p, q) /\ Sooner(f, q, m[p])
                         => Sooner(f, p, m[q]) /\ Sooner(f, m[q], m[p])
  BY <1>1 DEF Paired
<1>4. \A p, q \in P : Sooner(f, p, q) <=> Sooner(~ f, q, p)
  BY SoonerIs
<1>5. ASSUME NEW p \in P, CharAt(p) \in C
      PROVE  Sooner(~ f, p, m[p]) /\ Fits(~ f, CharAt(p), CharAt(m[p]))
  <2>1. /\ m[p] \in P /\ m[m[p]] = p
        /\ Sooner(f, m[p], m[m[p]]) /\ Fits(f, CharAt(m[p]), CharAt(m[m[p]]))
    BY <1>3, <1>5
  <2>2. QED
    BY <1>4, <2>1, KindsAre
<1>6. ASSUME NEW p \in P, CharAt(p) \in O PROVE CharAt(m[p]) \in C
  BY <1>1, <1>3, <1>6 DEF Fits
<1>7. ASSUME NEW p \in P, NEW q \in P, CharAt(p) \in C, Sooner(~ f, p, q), Sooner(~ f, q, m[p])
      PROVE  Sooner(~ f, p, m[q]) /\ Sooner(~ f, m[q], m[p])
  <2>1. m[p] \in P /\ m[q] \in P /\ CharAt(m[p]) \in O /\ m[m[p]] = p
    BY <1>3, <1>7
  <2>2. Sooner(f, m[p], q) /\ Sooner(f, q, p)
    BY <1>4, <1>7, <2>1
  <2>3. Sooner(f, m[p], m[q]) /\ Sooner(f, m[q], p)
    BY <1>3, <2>1, <2>2
  <2>4. QED
    BY <1>4, <2>1, <2>3
<1>8. m \in [P -> P]
  BY DEF Paired
<1>9. QED
  BY <1>1, <1>3, <1>5, <1>6, <1>7, <1>8 DEF Paired

\* What the reference calls a pairing.
LEMMA PairingIs ==
  ASSUME LinesAreLines, NEW f \in BOOLEAN, NEW P \in SUBSET Places, NEW m \in [P -> P],
         \A p \in P : CharAt(p) \in Openers \cup Closers
  PROVE  Pairing(P, m) <=> Paired(f, P, m)
<1>1. \A p, q \in P : /\ Before(p, q) <=> p = q \/ Sooner(TRUE, p, q)
                      /\ p = q \/ Sooner(TRUE, p, q) \/ Sooner(TRUE, q, p)
                      /\ Sooner(TRUE, p, q) => ~ Sooner(TRUE, q, p) /\ p # q
  BY SoonerIs, Order
<1>2. \A c \in Openers : c \notin Closers
  BY DEF Openers, Closers
<1>3. \A a, b : <<a, b>> \in Pairs /\ a \in Openers \cup Closers => a \in Openers /\ b \in Closers
  BY DEF Pairs, Openers, Closers
<1>4. ASSUME Pairing(P, m) PROVE Paired(TRUE, P, m)
  <2>1. /\ \A p \in P : m[p] \in P /\ m[m[p]] = p
        /\ \A p \in P : Before(p, m[p]) => <<CharAt(p), CharAt(m[p])>> \in Pairs
        /\ \A p, q \in P :
             Before(p, q) /\ Before(q, m[p]) => Before(p, m[q]) /\ Before(m[q], m[p])
    BY <1>4 DEF Pairing
  <2>2. ASSUME NEW p \in P, CharAt(p) \in Openers
        PROVE  Sooner(TRUE, p, m[p]) /\ <<CharAt(p), CharAt(m[p])>> \in Pairs /\ CharAt(m[p]) \in Closers
    <3>1. m[p] \in P /\ m[m[p]] = p
      BY <2>1
    <3>2. ~ Before(m[p], p)
      BY <1>2, <1>3, <2>1, <2>2, <3>1
    <3>3. Before(p, m[p]) /\ p # m[p]
      BY <1>1, <3>1, <3>2
    <3>4. <<CharAt(p), CharAt(m[p])>> \in Pairs
      BY <2>1, <3>3
    <3>5. QED
      BY <1>1, <1>3, <2>2, <3>1, <3>3, <3>4
  <2>3. ASSUME NEW p \in P, CharAt(p) \in Closers PROVE CharAt(m[p]) \in Openers
    <3>1. m[p] \in P /\ m[m[p]] = p
      BY <2>1
    <3>2. ~ Before(p, m[p])
      BY <1>2, <1>3, <2>1, <2>3
    <3>3. Before(m[p], p)
      BY <1>1, <3>1, <3>2
    <3>4. QED
      BY <1>3, <2>1, <3>1, <3>3
  <2>4. ASSUME NEW p \in P, NEW q \in P, CharAt(p) \in Openers, Sooner(TRUE, p, q),
               Sooner(TRUE, q, m[p])
        PROVE  Sooner(TRUE, p, m[q]) /\ Sooner(TRUE, m[q], m[p])
    <3>1. m[p] \in P /\ m[q] \in P /\ m[m[q]] = q /\ m[m[p]] = p
      BY <2>1
    <3>2. Before(p, m[q]) /\ Before(m[q], m[p])
      BY <1>1, <2>1, <2>4, <3>1
    <3>3. p # m[q] /\ m[q] # m[p]
      BY <1>1, <2>4, <3>1
    <3>4. QED
      BY <1>1, <3>1, <3>2, <3>3
  <2>5. QED
    BY <2>1, <2>2, <2>3, <2>4 DEF Paired, Fits, Opening, Closing
<1>5. ASSUME Paired(TRUE, P, m) PROVE Pairing(P, m)
  <2>1. /\ \A p \in P : m[p] \in P /\ m[m[p]] = p
        /\ \A p \in P : CharAt(p) \in Openers =>
             Sooner(TRUE, p, m[p]) /\ <<CharAt(p), CharAt(m[p])>> \in Pairs
        /\ \A p \in P : CharAt(p) \in Closers => CharAt(m[p]) \in Openers
        /\ \A p, q \in P : CharAt(p) \in Openers /\ Sooner(TRUE, p, q) /\ Sooner(TRUE, q, m[p])
                           => Sooner(TRUE, p, m[q]) /\ Sooner(TRUE, m[q], m[p])
    BY <1>5 DEF Paired, Fits, Opening, Closing
  <2>2. ASSUME NEW p \in P, Before(p, m[p]) PROVE CharAt(p) \in Openers
    <3>1. CASE CharAt(p) \in Closers
      <4>1. m[p] \in P /\ m[m[p]] = p /\ CharAt(m[p]) \in Openers
        BY <2>1, <3>1
      <4>2. Sooner(TRUE, m[p], p)
        BY <2>1, <4>1
      <4>3. QED
        BY <1>1, <2>2, <4>1, <4>2
    <3>2. QED
      BY <3>1
  <2>3. ASSUME NEW p \in P, NEW q \in P, Before(p, q), Before(q, m[p])
        PROVE  Before(p, m[q]) /\ Before(m[q], m[p])
    <3>1. m[p] \in P /\ m[q] \in P /\ m[m[p]] = p /\ m[m[q]] = q
      BY <2>1
    <3>2. CASE q = p
      BY <1>1, <2>3, <3>1, <3>2
    <3>3. CASE q = m[p]
      BY <1>1, <2>3, <3>1, <3>3
    <3>4. CASE q # p /\ q # m[p]
      <4>1. Sooner(TRUE, p, q) /\ Sooner(TRUE, q, m[p])
        BY <1>1, <2>3, <3>1, <3>4
      <4>2. CharAt(p) \in Openers
        <5>1. Sooner(TRUE, p, m[p])
          BY <3>1, <4>1, Order
        <5>2. QED
          BY <1>1, <2>2, <3>1, <5>1
      <4>3. QED
        BY <1>1, <2>1, <3>1, <4>1, <4>2
    <3>5. QED
      BY <3>2, <3>3, <3>4
  <2>4. QED
    BY <2>1, <2>2, <2>3 DEF Pairing
<1>6. Paired(TRUE, P, m) <=> Paired(f, P, m)
  <2>1. CASE f
    BY <2>1
  <2>2. CASE ~ f
    <3>1. Paired(TRUE, P, m) => Paired(~ TRUE, P, m)
      BY PairedBack
    <3>2. Paired(FALSE, P, m) => Paired(~ FALSE, P, m)
      BY PairedBack
    <3>3. QED
      BY <2>2, <3>1, <3>2
  <2>3. QED
    BY <2>1, <2>2
<1>7. QED
  BY <1>4, <1>5, <1>6

-----------------------------------------------------------------------------
(* A stack and the brackets behind the origin                               *)

\* D is what a search has looked at: all places from the origin on up to some place.
Prefix(f, D) ==
    /\ D \subseteq Places
    /\ \A d \in D : ~ Sooner(f, d, origin)
    /\ \A d \in D, p \in Places : ~ Sooner(f, p, origin) /\ Sooner(f, p, d) => p \in D

\* The stack holds what was found at the places w, in this order; the other brackets of D
\* are paired by m, and no pair is around a bracket that waits.
WaitsBy(f, D, st, w, M, m) ==
    /\ st \in Seq(Characters) /\ M \subseteq Brackets(D) /\ Paired(f, M, m)
    /\ \A i \in 1..Len(st) : /\ w[i] \in D /\ w[i] \notin M /\ CharAt(w[i]) = st[i]
                             /\ st[i] \in Opening(f) \cup {Angle(f)}
    /\ \A i, j \in 1..Len(st) : i < j => Sooner(f, w[i], w[j])
    /\ \A p \in Brackets(D) : p \in M \/ \E i \in 1..Len(st) : p = w[i]
    /\ \A p \in M, i \in 1..Len(st) :
         CharAt(p) \in Opening(f) /\ st[i] \in Opening(f)
         => ~ (Sooner(f, p, w[i]) /\ Sooner(f, w[i], m[p]))
    /\ st # <<>> => w[1] = origin

Waits(f, D, st) == \E w, M, m : WaitsBy(f, D, st, w, M, m)

\* The brackets from the origin to q.
BracketsTo(f, q) == {p \in Places : /\ CharAt(p) \in Openers \cup Closers
                                    /\ ~ Sooner(f, p, origin) /\ ~ Sooner(f, q, p)}

\* What was looked at and what lies up to q agree as far as both go.
LEMMA PrefixIs ==
  ASSUME LinesAreLines, NEW f \in BOOLEAN, NEW D, Prefix(f, D), NEW q \in Places
  PROVE  /\ \A c \in D, b \in BracketsTo(f, q) : Sooner(f, b, c) => b \in D
         /\ \A c \in BracketsTo(f, q), b \in Brackets(D) : Sooner(f, b, c) => b \in BracketsTo(f, q)
         /\ q \in D => BracketsTo(f, q) \subseteq D
<1>1. /\ D \subseteq Places /\ \A d \in D : ~ Sooner(f, d, origin)
      /\ \A d \in D, p \in Places : ~ Sooner(f, p, origin) /\ Sooner(f, p, d) => p \in D
  BY DEF Prefix
<1>2. \A b \in BracketsTo(f, q) : b \in Places /\ ~ Sooner(f, b, origin) /\ ~ Sooner(f, q, b)
  BY DEF BracketsTo
<1>3. ASSUME NEW c \in BracketsTo(f, q), NEW b \in Brackets(D), Sooner(f, b, c)
      PROVE  b \in BracketsTo(f, q)
  <2>1. b \in D /\ CharAt(b) \in Openers \cup Closers /\ b \in Places /\ ~ Sooner(f, b, origin)
    BY <1>1 DEF Brackets
  <2>2. ~ Sooner(f, q, b)
    BY <1>2, <1>3, <2>1, Order
  <2>3. QED
    BY <2>1, <2>2 DEF BracketsTo
<1>4. ASSUME q \in D, NEW b \in BracketsTo(f, q) PROVE b \in D
  <2>1. b = q \/ Sooner(f, b, q)
    BY <1>2, Order
  <2>2. QED
    BY <1>1, <1>2, <1>4, <2>1
<1>5. QED
  BY <1>1, <1>2, <1>3, <1>4

\* What closes in D is paired by the search as it is by anyone else.
LEMMA PairsAgree ==
  ASSUME LinesAreLines, NEW f \in BOOLEAN, NEW D, Prefix(f, D),
         NEW st, NEW w, NEW M, NEW m, WaitsBy(f, D, st, w, M, m),
         NEW q \in Places, NEW n, Paired(f, BracketsTo(f, q), n)
  PROVE  \A c \in D \cap BracketsTo(f, q) :
            CharAt(c) \in Closing(f) => c \in M /\ n[c] = m[c]
<1> DEFINE Q == BracketsTo(f, q)
           C == {c \in D \cap Q : CharAt(c) \in Closing(f) /\ n[c] # m[c]}
<1>1. PICK O, E : /\ O = Opening(f) /\ E = Closing(f) /\ O \cup E = Openers \cup Closers
                  /\ \A x \in O : x \notin E
  BY KindsAre
<1>2. \A c \in D : CharAt(c) \in E => c \in M
  <2> SUFFICES ASSUME NEW c \in D, CharAt(c) \in E PROVE c \in M
    OBVIOUS
  <2>1. c \in Brackets(D)
    BY <1>1 DEF Brackets
  <2>2. \A i \in 1..Len(st) : c # w[i]
    <3>1. \A i \in 1..Len(st) : CharAt(w[i]) \in O \cup {Angle(f)}
      BY <1>1 DEF WaitsBy
    <3>2. CharAt(c) \notin O \cup {Angle(f)}
      BY <1>1, KindsAre DEF Angle
    <3>3. QED
      BY <3>1, <3>2
  <2>3. QED
    BY <2>1, <2>2 DEF WaitsBy
<1>3. /\ Q \subseteq Places /\ D \subseteq Places
      /\ \A c \in Q : CharAt(c) \in O \cup E
  BY <1>1 DEF BracketsTo, Prefix
<1>4. /\ \A c \in D, b \in Q : Sooner(f, b, c) => b \in D
      /\ \A c \in Q, b \in Brackets(D) : Sooner(f, b, c) => b \in Q
  BY PrefixIs
<1>5. M \subseteq Brackets(D) /\ M \subseteq D /\ M \subseteq Places
  BY <1>3 DEF WaitsBy, Brackets
<1>6. /\ \A p \in M : m[p] \in M /\ m[m[p]] = p
      /\ \A p \in M : CharAt(p) \in O => Sooner(f, p, m[p]) /\ CharAt(m[p]) \in E
      /\ \A p \in M : CharAt(p) \in E => CharAt(m[p]) \in O
      /\ \A p, b \in M : CharAt(p) \in O /\ Sooner(f, p, b) /\ Sooner(f, b, m[p])
                         => Sooner(f, p, m[b]) /\ Sooner(f, m[b], m[p])
  BY <1>1 DEF WaitsBy, Paired, Fits
<1>7. /\ \A p \in Q : n[p] \in Q /\ n[n[p]] = p
      /\ \A p \in Q : CharAt(p) \in O => Sooner(f, p, n[p]) /\ CharAt(n[p]) \in E
      /\ \A p \in Q : CharAt(p) \in E => CharAt(n[p]) \in O
      /\ \A p, b \in Q : CharAt(p) \in O /\ Sooner(f, p, b) /\ Sooner(f, b, n[p])
                         => Sooner(f, p, n[b]) /\ Sooner(f, n[b], n[p])
  BY <1>1 DEF Paired, Fits
<1>8. ASSUME C # {} PROVE FALSE
  <2>1. C \in SUBSET Places
    BY <1>3
  <2>2. PICK c \in C : \A b \in C : ~ Sooner(f, b, c)
    <3> HIDE DEF C
    <3>1. QED
      BY <1>8, <2>1, FirstPlace
  <2>3. c \in D /\ c \in Q /\ c \in M /\ CharAt(c) \in E /\ n[c] # m[c]
    BY <1>1, <1>2, <2>2
  <2>4. PICK o, a : o = m[c] /\ a = n[c]
    OBVIOUS
  <2>5. /\ o \in M /\ m[o] = c /\ CharAt(o) \in O /\ Sooner(f, o, c)
        /\ a \in Q /\ n[a] = c /\ CharAt(a) \in O /\ Sooner(f, a, c)
    BY <1>6, <1>7, <2>3, <2>4
  <2>6. o \in Q /\ a \in D
    BY <1>4, <1>5, <2>3, <2>5
  <2>7. \A b \in D \cap Q : CharAt(b) \in E /\ Sooner(f, b, c) => n[b] = m[b]
    BY <1>1, <2>2
  <2>8. o # a /\ o \in Places /\ a \in Places /\ c \in Places
    BY <1>3, <1>5, <2>3, <2>4, <2>5
  <2>9. CASE Sooner(f, o, a)
    <3>1. a \in Brackets(D)
      BY <1>1, <2>5, <2>6 DEF Brackets
    <3>2. a \in M
      <4>1. SUFFICES ASSUME NEW i \in 1..Len(st), a = w[i] PROVE FALSE
        BY <3>1 DEF WaitsBy
      <4>2. CharAt(w[i]) = st[i]
        BY DEF WaitsBy
      <4>3. st[i] \in Opening(f) /\ CharAt(o) \in Opening(f) /\ o \in M
        BY <1>1, <2>5, <4>1, <4>2
      <4>4. ~ (Sooner(f, o, w[i]) /\ Sooner(f, w[i], m[o]))
        BY <4>3 DEF WaitsBy
      <4>5. QED
        BY <2>5, <2>9, <4>1, <4>4
    <3>3. m[a] \in M /\ CharAt(m[a]) \in E /\ Sooner(f, m[a], c) /\ m[m[a]] = a
      BY <1>6, <2>5, <2>9, <3>2
    <3>4. m[a] \in D \cap Q
      BY <1>4, <1>5, <2>3, <3>3
    <3>5. n[m[a]] = a
      BY <2>7, <3>3, <3>4
    <3>6. n[n[m[a]]] = m[a]
      BY <1>7, <3>4
    <3>7. m[a] = c
      BY <2>5, <3>5, <3>6
    <3>8. QED
      BY <2>8, <3>3, <3>7, Order
  <2>10. CASE Sooner(f, a, o)
    <3>1. Sooner(f, n[o], c) /\ n[o] \in Q /\ CharAt(n[o]) \in E /\ n[n[o]] = o
      BY <1>7, <2>5, <2>6, <2>10
    <3>2. n[o] \in D
      BY <1>4, <2>3, <3>1
    <3>3. m[n[o]] = o /\ n[o] \in M
      BY <1>1, <1>2, <2>7, <3>1, <3>2
    <3>4. m[m[n[o]]] = n[o]
      BY <1>6, <3>3
    <3>5. n[o] = c
      BY <2>5, <3>3, <3>4
    <3>6. QED
      BY <2>8, <3>1, <3>5, Order
  <2>11. QED
    BY <2>8, <2>9, <2>10, Order
<1>9. QED
  BY <1>1, <1>2, <1>8

\* While something waits, no text that was looked at is balanced.
LEMMA NotYet ==
  ASSUME LinesAreLines, NEW f \in BOOLEAN, NEW D, Prefix(f, D), NEW st, st # <<>>, Waits(f, D, st),
         CharAt(origin) \in Opening(f), NEW q \in D, NEW n
  PROVE  ~ Paired(f, BracketsTo(f, q), n)
<1> SUFFICES ASSUME Paired(f, BracketsTo(f, q), n) PROVE FALSE
  OBVIOUS
<1>1. PICK w, M, m : WaitsBy(f, D, st, w, M, m)
  BY DEF Waits
<1>2. q \in Places /\ D \subseteq Places
  BY DEF Prefix
<1>3. 1 \in 1..Len(st)
  BY <1>1 DEF WaitsBy
<1>4. origin \in D /\ origin \notin M
  BY <1>1, <1>3 DEF WaitsBy
<1>5. origin \in BracketsTo(f, q)
  <2>1. ~ Sooner(f, q, origin) /\ origin \in Places
    BY <1>2, <1>4 DEF Prefix
  <2>2. ~ Sooner(f, origin, origin)
    BY DEF Sooner
  <2>3. CharAt(origin) \in Openers \cup Closers
    BY KindsAre
  <2>4. QED
    BY <2>1, <2>2, <2>3 DEF BracketsTo
<1>6. PICK c : c = n[origin]
  OBVIOUS
<1>7. c \in BracketsTo(f, q) /\ CharAt(c) \in Closing(f) /\ n[c] = origin
  BY <1>5, <1>6 DEF Paired, Fits
<1>8. c \in D
  BY <1>2, <1>7, PrefixIs
<1>9. c \in M /\ n[c] = m[c]
  BY <1>1, <1>2, <1>7, <1>8, PairsAgree
<1>10. m[c] \in M
  BY <1>1, <1>9 DEF WaitsBy, Paired
<1>11. QED
  BY <1>4, <1>7, <1>9, <1>10

-----------------------------------------------------------------------------
(* A step of the search                                                     *)

\* The place x is the next one behind those of D.
FollowsOn(f, D, x) ==
    /\ Prefix(f, D) /\ x \in Places /\ x \notin D /\ Prefix(f, D \cup {x})
    /\ \A d \in D : Sooner(f, d, x)

\* What is no bracket changes nothing.
LEMMA Passed ==
  ASSUME NEW f \in BOOLEAN, NEW D, NEW x, NEW st, NEW w, NEW M, NEW m, WaitsBy(f, D, st, w, M, m),
         CharAt(x) \notin Openers \cup Closers
  PROVE  WaitsBy(f, D \cup {x}, st, w, M, m)
<1>1. Brackets(D \cup {x}) = Brackets(D)
  BY DEF Brackets
<1>2. QED
  BY <1>1 DEF WaitsBy

\* Angle brackets on top may be taken off.
LEMMA Dropped ==
  ASSUME NEW f \in BOOLEAN, NEW D, NEW st, NEW w, NEW M, NEW m, WaitsBy(f, D, st, w, M, m),
         NEW k \in 0..Len(st), \A i \in (k + 1)..Len(st) : st[i] = Angle(f)
  PROVE  WaitsBy(f, D, SubSeq(st, 1, k), w, M, m)
<1>1. PICK S : S = Characters
  OBVIOUS
<1>2. st \in Seq(S) /\ Len(st) \in Nat
  BY <1>1 DEF WaitsBy
<1>3. PICK t : t = SubSeq(st, 1, k)
  OBVIOUS
<1>4. t \in Seq(S) /\ Len(t) = k /\ \A i \in 1..k : t[i] = st[i]
  BY <1>2, <1>3
<1>5. 1..k \subseteq 1..Len(st)
  BY <1>2
<1>6. ASSUME NEW p \in Brackets(D), p \notin M PROVE \E i \in 1..k : p = w[i]
  <2>1. PICK i \in 1..Len(st) : p = w[i]
    BY <1>6 DEF WaitsBy
  <2>2. CharAt(p) = st[i] /\ CharAt(p) \in Openers \cup Closers
    BY <2>1 DEF WaitsBy, Brackets
  <2>3. st[i] # Angle(f)
    BY <2>2 DEF Openers, Closers, Angle
  <2>4. ~ i \in (k + 1)..Len(st)
    BY <2>3
  <2>5. i \in 1..k
    BY <1>2, <2>4
  <2>6. QED
    BY <2>1, <2>5
<1>7. t # <<>> => st # <<>>
  BY <1>2, <1>4
<1>8. WaitsBy(f, D, t, w, M, m)
  <2>1. t \in Seq(Characters) /\ M \subseteq Brackets(D) /\ Paired(f, M, m)
    BY <1>1, <1>4 DEF WaitsBy
  <2>2. \A i \in 1..k : /\ w[i] \in D /\ w[i] \notin M /\ CharAt(w[i]) = t[i]
                        /\ t[i] \in Opening(f) \cup {Angle(f)}
    BY <1>4, <1>5 DEF WaitsBy
  <2>3. \A i, j \in 1..k : i < j => Sooner(f, w[i], w[j])
    BY <1>5 DEF WaitsBy
  <2>4. \A p \in M, i \in 1..k :
          CharAt(p) \in Opening(f) /\ t[i] \in Opening(f)
          => ~ (Sooner(f, p, w[i]) /\ Sooner(f, w[i], m[p]))
    BY <1>4, <1>5 DEF WaitsBy
  <2>5. t # <<>> => w[1] = origin
    BY <1>7 DEF WaitsBy
  <2>6. QED
    BY <1>4, <1>6, <2>1, <2>2, <2>3, <2>4, <2>5 DEF WaitsBy
<1>9. QED
  BY <1>3, <1>8

\* What opens, or seems to, waits from now on.
LEMMA Pushed ==
  ASSUME LinesAreLines, NEW f \in BOOLEAN, NEW D, NEW x, FollowsOn(f, D, x),
         NEW st, NEW w, NEW M, NEW m, WaitsBy(f, D, st, w, M, m), st = <<>> => x = origin,
         CharAt(x) \in Opening(f) \cup {Angle(f)}, CharAt(x) \in Characters
  PROVE  \E v : WaitsBy(f, D \cup {x}, Append(st, CharAt(x)), v, M, m)
<1>1. PICK S : S = Characters
  OBVIOUS
<1>2. st \in Seq(S) /\ Len(st) \in Nat
  BY <1>1 DEF WaitsBy
<1>3. PICK t, N : t = Append(st, CharAt(x)) /\ N = Len(st)
  OBVIOUS
<1>4. /\ t \in Seq(S) /\ Len(t) = N + 1 /\ N \in Nat
      /\ \A i \in 1..N : t[i] = st[i]
      /\ t[N + 1] = CharAt(x)
  BY <1>1, <1>2, <1>3
<1>5. PICK v : v = [i \in 1..(N + 1) |-> IF i \in 1..N THEN w[i] ELSE x]
  OBVIOUS
<1>6. /\ v[N + 1] = x /\ \A i \in 1..N : v[i] = w[i]
      /\ \A i \in 1..(N + 1) : i \in 1..N \/ i = N + 1
  BY <1>4, <1>5
<1>7. D \subseteq Places /\ x \in Places /\ x \notin D /\ \A d \in D : Sooner(f, d, x)
  BY DEF FollowsOn, Prefix
<1>8. M \subseteq D /\ \A p \in M : m[p] \in D
  BY DEF WaitsBy, Paired, Brackets
<1>9. M \subseteq Brackets(D \cup {x})
  BY DEF WaitsBy, Brackets
<1>10. \A i \in 1..(N + 1) : /\ v[i] \in D \cup {x} /\ v[i] \notin M /\ CharAt(v[i]) = t[i]
                             /\ t[i] \in Opening(f) \cup {Angle(f)}
  <2>1. \A i \in 1..N : /\ w[i] \in D /\ w[i] \notin M /\ CharAt(w[i]) = st[i]
                        /\ st[i] \in Opening(f) \cup {Angle(f)}
    BY <1>3 DEF WaitsBy
  <2>2. QED
    BY <1>4, <1>6, <1>7, <1>8, <2>1
<1>11. ASSUME NEW i \in 1..(N + 1), NEW j \in 1..(N + 1), i < j PROVE Sooner(f, v[i], v[j])
  <2>1. i \in 1..N
    BY <1>4, <1>11
  <2>2. w[i] \in D /\ (j \in 1..N => Sooner(f, w[i], w[j]))
    BY <1>3, <1>11, <2>1 DEF WaitsBy
  <2>3. QED
    BY <1>6, <1>7, <2>1, <2>2
<1>12. ASSUME NEW p \in Brackets(D \cup {x}), p \notin M PROVE \E i \in 1..(N + 1) : p = v[i]
  <2>1. CASE p = x
    BY <1>4, <1>6, <2>1
  <2>2. CASE p # x
    <3>1. p \in Brackets(D)
      BY <2>2 DEF Brackets
    <3>2. PICK i \in 1..N : p = w[i]
      BY <1>3, <1>12, <3>1 DEF WaitsBy
    <3>3. i \in 1..(N + 1) /\ v[i] = p
      BY <1>4, <1>6, <3>2
    <3>4. QED
      BY <3>3
  <2>3. QED
    BY <2>1, <2>2
<1>13. ASSUME NEW p \in M, NEW i \in 1..(N + 1), CharAt(p) \in Opening(f), t[i] \in Opening(f),
              Sooner(f, p, v[i]), Sooner(f, v[i], m[p])
       PROVE  FALSE
  <2>1. CASE i = N + 1
    <3>1. Sooner(f, x, m[p]) /\ Sooner(f, m[p], x)
      BY <1>6, <1>7, <1>8, <1>13, <2>1
    <3>2. m[p] \in Places
      BY <1>7, <1>8
    <3>3. QED
      BY <1>7, <3>1, <3>2, Order
  <2>2. CASE i \in 1..N
    <3>1. Sooner(f, p, w[i]) /\ Sooner(f, w[i], m[p]) /\ st[i] \in Opening(f)
      BY <1>4, <1>6, <1>13, <2>2
    <3>2. QED
      BY <1>3, <1>13, <2>2, <3>1 DEF WaitsBy
  <2>3. QED
    BY <1>6, <2>1, <2>2
<1>14. v[1] = origin
  <2>1. CASE N = 0
    <3>1. st = <<>>
      BY <1>2, <1>3, <2>1, EmptySeq
    <3>2. QED
      BY <1>6, <2>1, <3>1
  <2>2. CASE N # 0
    <3>1. st # <<>> /\ 1 \in 1..N
      BY <1>2, <1>3, <1>4, <2>2
    <3>2. QED
      BY <1>6, <3>1 DEF WaitsBy
  <2>3. QED
    BY <2>1, <2>2
<1>15. Paired(f, M, m)
  BY DEF WaitsBy
<1>16. WaitsBy(f, D \cup {x}, t, v, M, m)
  <2>1. t \in Seq(Characters) /\ 1..Len(t) = 1..(N + 1)
    BY <1>1, <1>4
  <2>2. \A p \in Brackets(D \cup {x}) : p \in M \/ \E i \in 1..(N + 1) : p = v[i]
    BY <1>12
  <2>3. \A p \in M, i \in 1..(N + 1) :
          CharAt(p) \in Opening(f) /\ t[i] \in Opening(f)
          => ~ (Sooner(f, p, v[i]) /\ Sooner(f, v[i], m[p]))
    BY <1>13
  <2>4. \A i, j \in 1..(N + 1) : i < j => Sooner(f, v[i], v[j])
    BY <1>11
  <2>5. QED
    BY <1>9, <1>10, <1>14, <1>15, <2>1, <2>2, <2>3, <2>4 DEF WaitsBy
<1>17. QED
  BY <1>3, <1>16

\* Where nothing was looked at, nothing waits.
LEMMA NothingYet ==
  ASSUME LinesAreLines, NEW f \in BOOLEAN
  PROVE  \E w, M, m : WaitsBy(f, {}, <<>>, w, M, m)
<1>1. PICK e : e = [p \in {} |-> p]
  OBVIOUS
<1>2. Paired(f, {}, e)
  BY <1>1 DEF Paired
<1>3. Brackets({}) = {}
  BY DEF Brackets
<1>4. <<>> \in Seq(Characters) /\ Len(<<>>) = 0
  BY EmptySeq
<1>5. 1..Len(<<>>) = {}
  BY <1>4
<1>6. PICK z : z = <<>>
  OBVIOUS
<1>7. WaitsBy(f, {}, z, e, {}, e)
  BY <1>2, <1>3, <1>4, <1>5, <1>6 DEF WaitsBy
<1>8. QED
  BY <1>6, <1>7

\* What fits the bracket on top is paired with it.
LEMMA Popped ==
  ASSUME LinesAreLines, NEW f \in BOOLEAN, NEW D, NEW x, FollowsOn(f, D, x),
         NEW st, NEW w, NEW M, NEW m, WaitsBy(f, D, st, w, M, m), st # <<>>,
         Fits(f, Last(st), CharAt(x))
  PROVE  \E A, a : WaitsBy(f, D \cup {x}, Front(st), w, A, a)
<1>1. PICK S : S = Characters
  OBVIOUS
<1>2. st \in Seq(S) /\ Len(st) \in Nat /\ Len(st) # 0
  <2>1. st \in Seq(S)
    BY <1>1 DEF WaitsBy
  <2>2. QED
    BY <2>1, EmptySeq
<1>3. PICK t, N : t = Front(st) /\ N = Len(st) - 1
  OBVIOUS
<1>4. /\ N \in Nat /\ Len(st) = N + 1 /\ t \in Seq(S) /\ Len(t) = N
      /\ \A i \in 1..N : t[i] = st[i]
      /\ Last(st) = st[N + 1]
      /\ N + 1 \in 1..(N + 1)
      /\ 1..N \subseteq 1..(N + 1)
  <2>1. N \in Nat /\ Len(st) = N + 1
    BY <1>2, <1>3
  <2>2. t = SubSeq(st, 1, N)
    BY <1>3 DEF Front
  <2>3. t \in Seq(S) /\ Len(t) = N /\ \A i \in 1..N : t[i] = st[i]
    BY <1>2, <2>1, <2>2
  <2>4. Last(st) = st[N + 1]
    BY <2>1 DEF Last
  <2>5. QED
    BY <2>1, <2>3, <2>4
<1>5. PICK O, C : /\ O = Opening(f) /\ C = Closing(f) /\ O \cup C = Openers \cup Closers
                  /\ \A c \in O : c \notin C
  BY KindsAre
<1>6. /\ D \subseteq Places /\ x \in Places /\ x \notin D /\ \A d \in D : Sooner(f, d, x)
  BY DEF FollowsOn, Prefix
<1>7. /\ M \subseteq Brackets(D) /\ Paired(f, M, m)
      /\ \A i \in 1..(N + 1) : /\ w[i] \in D /\ w[i] \notin M /\ CharAt(w[i]) = st[i]
                               /\ st[i] \in O \cup {Angle(f)}
      /\ \A i, j \in 1..(N + 1) : i < j => Sooner(f, w[i], w[j])
      /\ \A p \in Brackets(D) : p \in M \/ \E i \in 1..(N + 1) : p = w[i]
      /\ \A p \in M, i \in 1..(N + 1) :
           CharAt(p) \in O /\ st[i] \in O => ~ (Sooner(f, p, w[i]) /\ Sooner(f, w[i], m[p]))
      /\ w[1] = origin
  BY <1>4, <1>5 DEF WaitsBy
<1>8. PICK o : o = w[N + 1]
  OBVIOUS
<1>9. /\ o \in D /\ o \notin M /\ CharAt(o) = Last(st) /\ CharAt(o) \in O /\ CharAt(x) \in C
      /\ o \in Places /\ Sooner(f, o, x) /\ o # x /\ Fits(f, CharAt(o), CharAt(x))
  BY <1>4, <1>5, <1>6, <1>7, <1>8 DEF Fits
<1>10. PICK A, a : A = M \cup {o, x} /\ a = [p \in A |-> IF p = o THEN x ELSE IF p = x THEN o ELSE m[p]]
  OBVIOUS
<1>11. /\ M \subseteq D /\ M \subseteq Places /\ x \notin M /\ A \subseteq Places
       /\ \A p \in M : m[p] \in M /\ m[m[p]] = p
       /\ \A p \in M : CharAt(p) \in O => Sooner(f, p, m[p]) /\ Fits(f, CharAt(p), CharAt(m[p]))
       /\ \A p \in M : CharAt(p) \in C => CharAt(m[p]) \in O
       /\ \A p, q \in M : CharAt(p) \in O /\ Sooner(f, p, q) /\ Sooner(f, q, m[p])
                          => Sooner(f, p, m[q]) /\ Sooner(f, m[q], m[p])
       /\ \A p \in M : CharAt(p) \in O \cup C
  BY <1>5, <1>6, <1>7, <1>9, <1>10 DEF Paired, Brackets
<1>12. /\ a[o] = x /\ a[x] = o /\ \A p \in M : a[p] = m[p]
       /\ \A p \in A : p = o \/ p = x \/ p \in M
       /\ a \in [A -> A]
  BY <1>9, <1>10, <1>11
<1>13. Paired(f, A, a)
  <2>1. \A p \in A : a[a[p]] = p
    BY <1>11, <1>12
  <2>2. \A p \in A : CharAt(p) \in O => Sooner(f, p, a[p]) /\ Fits(f, CharAt(p), CharAt(a[p]))
    BY <1>5, <1>9, <1>11, <1>12
  <2>3. \A p \in A : CharAt(p) \in C => CharAt(a[p]) \in O
    BY <1>5, <1>9, <1>11, <1>12
  <2>4. ASSUME NEW p \in A, NEW q \in A, CharAt(p) \in O, Sooner(f, p, q), Sooner(f, q, a[p])
        PROVE  Sooner(f, p, a[q]) /\ Sooner(f, a[q], a[p])
    <3>1. CASE p = o /\ q \in M
      <4>1. m[q] \in M /\ m[m[q]] = q /\ m[q] \in D /\ m[q] \in Places /\ q \in Places
        BY <1>11, <3>1
      <4>2. Sooner(f, m[q], x)
        BY <1>6, <4>1
      <4>3. Sooner(f, o, m[q])
        <5>1. SUFFICES ASSUME Sooner(f, m[q], o) PROVE FALSE
          BY <1>9, <4>1, Order
        <5>2. CharAt(q) \notin O
          <6>1. SUFFICES ASSUME Sooner(f, q, m[q]) PROVE FALSE
            BY <1>11, <3>1
          <6>2. Sooner(f, q, o)
            BY <1>9, <4>1, <5>1, <6>1, Order
          <6>3. QED
            BY <1>9, <2>4, <3>1, <4>1, <6>2, Order
        <5>3. CharAt(m[q]) \in O
          BY <1>11, <3>1, <5>2
        <5>4. st[N + 1] \in O
          BY <1>4, <1>9
        <5>5. ~ (Sooner(f, m[q], o) /\ Sooner(f, o, q))
          BY <1>4, <1>7, <1>8, <4>1, <5>3, <5>4
        <5>6. QED
          BY <2>4, <3>1, <5>1, <5>5
      <4>4. QED
        BY <1>12, <3>1, <4>2, <4>3
    <3>2. CASE p = o /\ q \in {o, x}
      <4>1. ~ Sooner(f, o, o) /\ ~ Sooner(f, x, x)
        BY DEF Sooner
      <4>2. QED
        BY <1>12, <2>4, <3>2, <4>1
    <3>3. CASE p = x
      BY <1>5, <1>9, <2>4, <3>3
    <3>4. CASE p \in M /\ q = o
      <4>1. st[N + 1] \in O
        BY <1>4, <1>9
      <4>2. ~ (Sooner(f, p, o) /\ Sooner(f, o, m[p]))
        BY <1>4, <1>7, <1>8, <2>4, <3>4, <4>1
      <4>3. QED
        BY <1>12, <2>4, <3>4, <4>2
    <3>5. CASE p \in M /\ q = x
      <4>1. m[p] \in D /\ m[p] \in Places /\ a[p] = m[p]
        BY <1>11, <1>12, <3>5
      <4>2. Sooner(f, x, m[p]) /\ Sooner(f, m[p], x)
        BY <1>6, <2>4, <3>5, <4>1
      <4>3. QED
        BY <1>6, <4>1, <4>2, Order
    <3>6. CASE p \in M /\ q \in M
      BY <1>11, <1>12, <2>4, <3>6
    <3>7. QED
      BY <1>12, <3>1, <3>2, <3>3, <3>4, <3>5, <3>6
  <2>5. QED
    BY <1>5, <1>12, <2>1, <2>2, <2>3, <2>4 DEF Paired
<1>14. A \subseteq Brackets(D \cup {x})
  BY <1>5, <1>7, <1>9, <1>10 DEF Brackets
<1>15. \A i \in 1..N : /\ w[i] \in D \cup {x} /\ w[i] \notin A /\ CharAt(w[i]) = t[i]
                       /\ t[i] \in O \cup {Angle(f)} /\ Sooner(f, w[i], o)
  <2> TAKE i \in 1..N
  <2>1. /\ i \in 1..(N + 1) /\ i < N + 1 /\ t[i] = st[i]
    BY <1>4
  <2>2. /\ w[i] \in D /\ w[i] \notin M /\ CharAt(w[i]) = st[i] /\ st[i] \in O \cup {Angle(f)}
        /\ Sooner(f, w[i], o)
    BY <1>4, <1>7, <1>8, <2>1
  <2>3. w[i] # o /\ w[i] # x
    BY <1>6, <2>2 DEF Sooner
  <2>4. QED
    BY <1>10, <2>1, <2>2, <2>3
<1>16. \A i, j \in 1..N : i < j => Sooner(f, w[i], w[j])
  BY <1>4, <1>7
<1>17. \A p \in Brackets(D \cup {x}) : p \in A \/ \E i \in 1..N : p = w[i]
  <2> SUFFICES ASSUME NEW p \in Brackets(D \cup {x}), p # x, p # o, p \notin M
               PROVE  \E i \in 1..N : p = w[i]
    BY <1>10
  <2>1. p \in Brackets(D)
    BY DEF Brackets
  <2>2. PICK i \in 1..(N + 1) : p = w[i]
    BY <1>7, <2>1
  <2>3. i # N + 1
    BY <1>8, <2>2
  <2>4. i \in 1..N
    BY <1>4, <2>3
  <2>5. QED
    BY <2>2, <2>4
<1>18. \A p \in A, i \in 1..N : CharAt(p) \in O /\ t[i] \in O
         => ~ (Sooner(f, p, w[i]) /\ Sooner(f, w[i], a[p]))
  <2> SUFFICES ASSUME NEW p \in A, NEW i \in 1..N, CharAt(p) \in O, t[i] \in O,
                      Sooner(f, p, w[i]), Sooner(f, w[i], a[p])
               PROVE  FALSE
    OBVIOUS
  <2>1. CASE p = o
    <3>1. w[i] \in D /\ w[i] \in Places
      BY <1>4, <1>6, <1>7
    <3>2. QED
      BY <1>9, <1>15, <2>1, <3>1, Order
  <2>2. CASE p = x
    BY <1>5, <1>9, <2>2
  <2>3. CASE p \in M
    <3>1. i \in 1..(N + 1) /\ st[i] \in O /\ a[p] = m[p]
      BY <1>4, <1>12, <2>3
    <3>2. QED
      BY <1>7, <2>3, <3>1
  <2>4. QED
    BY <1>12, <2>1, <2>2, <2>3
<1>19. WaitsBy(f, D \cup {x}, t, w, A, a)
  <2>1. t \in Seq(Characters) /\ 1..Len(t) = 1..N
    BY <1>1, <1>4
  <2>2. QED
    BY <1>5, <1>7, <1>13, <1>14, <1>15, <1>16, <1>17, <1>18, <2>1 DEF WaitsBy
<1>20. QED
  BY <1>3, <1>19

-----------------------------------------------------------------------------
(* What the search tells                                                    *)

\* The origin is a bracket that is searched from in the direction f.
Starts(f) == origin \in Places /\ CharAt(origin) \in Opening(f)

\* No place beyond the origin matches it.
Hopeless == \A q \in Beyond(origin) : ~ Matches(origin, q)

Match(p) == p \in Nearest(origin, {q \in Beyond(origin) : Matches(origin, q)})

\* Beyond the origin is what the search comes to.
LEMMA BeyondIs ==
  ASSUME LinesAreLines, NEW f \in BOOLEAN, Starts(f), NEW q \in Places
  PROVE  q \in Beyond(origin) <=> Sooner(f, origin, q)
<1>1. \A c \in Closers : c \notin Openers
  BY DEF Openers, Closers
<1>2. /\ Sooner(TRUE, origin, q) <=> origin # q /\ Before(origin, q)
      /\ Before(origin, q) <=> origin = q \/ Sooner(TRUE, origin, q)
      /\ Sooner(FALSE, origin, q) <=> Sooner(TRUE, q, origin)
      /\ origin = q \/ Sooner(TRUE, origin, q) \/ Sooner(TRUE, q, origin)
      /\ Sooner(TRUE, origin, q) => ~ Sooner(TRUE, q, origin)
      /\ Sooner(FALSE, origin, q) => origin # q
  <2>1. origin \in Places
    BY DEF Starts
  <2>2. Sooner(FALSE, origin, q) <=> Sooner(~ FALSE, q, origin)
    BY <2>1, SoonerIs
  <2>3. (~ FALSE) = TRUE
    OBVIOUS
  <2>4. Sooner(FALSE, origin, q) => origin # q
    BY DEF Sooner
  <2>5. /\ Sooner(TRUE, origin, q) <=> origin # q /\ Before(origin, q)
        /\ Before(origin, q) <=> origin = q \/ Sooner(TRUE, origin, q)
    BY <2>1, SoonerIs
  <2>6. /\ origin = q \/ Sooner(TRUE, origin, q) \/ Sooner(TRUE, q, origin)
        /\ Sooner(TRUE, origin, q) => ~ Sooner(TRUE, q, origin)
    BY <2>1, Order
  <2>7. QED
    BY <2>2, <2>3, <2>4, <2>5, <2>6
<1>3. CASE f
  <2>1. CharAt(origin) \in Openers /\ f = TRUE
    BY <1>3 DEF Starts, Opening
  <2>2. QED
    BY <1>2, <2>1 DEF Beyond
<1>4. CASE ~ f
  <2>1. CharAt(origin) \in Closers /\ f = FALSE
    BY <1>4 DEF Starts, Opening
  <2>2. CharAt(origin) \notin Openers
    BY <1>1, <2>1
  <2>3. q \in Beyond(origin) <=> origin # q /\ ~ Before(origin, q)
    BY <2>2 DEF Beyond, Before
  <2>4. QED
    BY <1>2, <2>1, <2>3
<1>5. QED
  BY <1>3, <1>4

\* The places from the origin to q.
LEMMA StretchIs ==
  ASSUME LinesAreLines, NEW f \in BOOLEAN, NEW p \in Places, NEW q \in Places, Sooner(f, p, q),
         NEW r \in Places
  PROVE  r \in Stretch(p, q) <=> ~ Sooner(f, r, p) /\ ~ Sooner(f, q, r)
<1>1. /\ p.line \in Nat /\ p.pos \in Nat /\ q.line \in Nat /\ q.pos \in Nat
      /\ r.line \in Nat /\ r.pos \in Nat
  BY PlaceIs
<1>2. /\ p.line = q.line /\ p.pos = q.pos => p = q
      /\ p.line = r.line /\ p.pos = r.pos => p = r
      /\ q.line = r.line /\ q.pos = r.pos => q = r
  BY PlaceIs
<1>3. r \in Stretch(p, q) <=> (Before(p, r) /\ Before(r, q)) \/ (Before(q, r) /\ Before(r, p))
  BY DEF Stretch, Between
<1>4. CASE f
  BY <1>1, <1>2, <1>3, <1>4 DEF Sooner, Before
<1>5. CASE ~ f
  BY <1>1, <1>2, <1>3, <1>5 DEF Sooner, Before
<1>6. QED
  BY <1>4, <1>5

\* A match is a place up to which the brackets can be paired.
LEMMA MatchesIs ==
  ASSUME LinesAreLines, NEW f \in BOOLEAN, Starts(f), NEW q \in Beyond(origin)
  PROVE  Matches(origin, q) <=> \E n : Paired(f, BracketsTo(f, q), n)
<1>1. q \in Places /\ q # origin /\ origin \in Places
  BY DEF Beyond, Starts
<1>2. Sooner(f, origin, q)
  BY <1>1, BeyondIs
<1>3. \A r \in Places : r \in Stretch(origin, q) <=> ~ Sooner(f, r, origin) /\ ~ Sooner(f, q, r)
  BY <1>1, <1>2, StretchIs
<1>4. Stretch(origin, q) \subseteq Places
  BY DEF Stretch, Between
<1>5. Brackets(Stretch(origin, q)) = BracketsTo(f, q)
  BY <1>3, <1>4 DEF Brackets, BracketsTo
<1>6. PICK P : P = BracketsTo(f, q)
  OBVIOUS
<1>7. P \in SUBSET Places /\ \A p \in P : CharAt(p) \in Openers \cup Closers
  BY <1>6 DEF BracketsTo
<1>8. \A n \in [P -> P] : Pairing(P, n) <=> Paired(f, P, n)
  BY <1>7, PairingIs
<1>9. \A n : Paired(f, P, n) => n \in [P -> P]
  BY DEF Paired
<1>10. Balanced(P) <=> \E n : Paired(f, P, n)
  BY <1>8, <1>9 DEF Balanced
<1>11. QED
  BY <1>1, <1>5, <1>6, <1>10 DEF Matches

\* Nothing that was looked at matches while the origin waits.
LEMMA NoMatchYet ==
  ASSUME LinesAreLines, NEW f \in BOOLEAN, Starts(f), NEW D, Prefix(f, D),
         NEW st, st # <<>>, Waits(f, D, st), NEW q \in Beyond(origin), Matches(origin, q)
  PROVE  q \notin D
<1>1. PICK n : Paired(f, BracketsTo(f, q), n)
  BY MatchesIs
<1>2. CharAt(origin) \in Opening(f)
  BY DEF Starts
<1>3. q \in D => ~ Paired(f, BracketsTo(f, q), n)
  BY <1>2, NotYet
<1>4. QED
  BY <1>1, <1>3

\* What comes after those that were looked at is not before the next place.
LEMMA NotBefore ==
  ASSUME LinesAreLines, NEW f \in BOOLEAN, Starts(f), NEW D, NEW x, FollowsOn(f, D, x),
         NEW q \in Beyond(origin), q \notin D
  PROVE  ~ Sooner(f, q, x)
<1>1. q \in Places /\ origin \in Places /\ x \in Places
  BY DEF Beyond, Starts, FollowsOn
<1>2. Sooner(f, origin, q)
  BY <1>1, BeyondIs
<1>3. ~ Sooner(f, q, origin)
  BY <1>1, <1>2, Order
<1>4. Sooner(f, q, x) => q \in D \cup {x}
  BY <1>1, <1>3 DEF FollowsOn, Prefix
<1>5. ~ Sooner(f, x, x)
  BY DEF Sooner
<1>6. QED
  BY <1>4, <1>5

\* A bracket that does not fit the one on top spoils everything from there on.
LEMMA Misfit ==
  ASSUME LinesAreLines, NEW f \in BOOLEAN, Starts(f), NEW D, NEW x, FollowsOn(f, D, x),
         NEW st, st # <<>>, Waits(f, D, st), Last(st) \in Opening(f),
         CharAt(x) \in Closing(f), ~ Fits(f, Last(st), CharAt(x))
  PROVE  Hopeless
<1> SUFFICES ASSUME NEW q \in Beyond(origin), Matches(origin, q) PROVE FALSE
  BY DEF Hopeless
<1>1. PICK Q : Q = BracketsTo(f, q)
  OBVIOUS
<1>2. PICK n : Paired(f, Q, n)
  BY <1>1, MatchesIs
<1>3. PICK w, M, m : WaitsBy(f, D, st, w, M, m)
  BY DEF Waits
<1>4. PICK O, C : /\ O = Opening(f) /\ C = Closing(f) /\ O \cup C = Openers \cup Closers
                  /\ \A c \in O : c \notin C
  BY KindsAre
<1>5. /\ Prefix(f, D) /\ D \subseteq Places /\ x \in Places /\ x \notin D
      /\ \A d \in D : Sooner(f, d, x)
      /\ \A p \in Places : ~ Sooner(f, p, origin) /\ Sooner(f, p, x) => p \in D \cup {x}
      /\ ~ Sooner(f, x, origin)
  BY DEF FollowsOn, Prefix
<1>6. q \in Places /\ origin \in Places
  BY DEF Beyond, Starts
<1>7. q \notin D
  BY <1>5, NoMatchYet
<1>8. ~ Sooner(f, q, x)
  BY <1>7, NotBefore
<1>9. x \in Q
  <2>1. CharAt(x) \in Openers \cup Closers
    BY <1>4
  <2>2. QED
    BY <1>1, <1>5, <1>8, <2>1 DEF BracketsTo
<1>10. \A p \in Brackets(D) : p \in Q
  <2>1. \A b \in Brackets(D) : Sooner(f, b, x) => b \in Q
    BY <1>1, <1>5, <1>6, <1>9, PrefixIs
  <2>2. QED
    BY <1>5, <2>1 DEF Brackets
<1>11. /\ \A p \in Q : n[p] \in Q /\ n[n[p]] = p
       /\ \A p \in Q : CharAt(p) \in O => Sooner(f, p, n[p]) /\ Fits(f, CharAt(p), CharAt(n[p]))
       /\ \A p \in Q : CharAt(p) \in C => CharAt(n[p]) \in O
       /\ \A p, b \in Q : CharAt(p) \in O /\ Sooner(f, p, b) /\ Sooner(f, b, n[p])
                          => Sooner(f, p, n[b]) /\ Sooner(f, n[b], n[p])
  BY <1>2, <1>4 DEF Paired
<1>12. \A p \in Q : CharAt(p) \in O => CharAt(n[p]) \in C
  BY <1>4, <1>11 DEF Fits
<1>13. Q \subseteq Places /\ \A p \in Q : ~ Sooner(f, p, origin) /\ CharAt(p) \in O \cup C
  BY <1>1, <1>4 DEF BracketsTo
<1>14. PICK a : a = n[x]
  OBVIOUS
<1>15. /\ a \in Q /\ n[a] = x /\ CharAt(a) \in O /\ Sooner(f, a, x) /\ a \in D
       /\ Fits(f, CharAt(a), CharAt(x)) /\ a \in Brackets(D)
  <2>1. a \in Q /\ n[a] = x /\ CharAt(a) \in O
    BY <1>4, <1>9, <1>11, <1>14
  <2>2. Sooner(f, a, x) /\ Fits(f, CharAt(a), CharAt(x))
    BY <1>11, <2>1
  <2>3. a # x
    BY <2>2 DEF Sooner
  <2>4. a \in D
    BY <1>5, <1>13, <2>1, <2>2, <2>3
  <2>5. QED
    BY <1>4, <2>1, <2>2, <2>4 DEF Brackets
<1>16. PICK N : N = Len(st)
  OBVIOUS
<1>17. N \in 1..Len(st) /\ N \in Nat /\ Last(st) = st[N]
  <2>1. st \in Seq(Characters)
    BY <1>3 DEF WaitsBy
  <2>2. Len(st) \in Nat /\ Len(st) # 0
    BY <2>1, EmptySeq
  <2>3. QED
    BY <1>16, <2>2 DEF Last
<1>18. PICK t : t = w[N]
  OBVIOUS
<1>19. /\ t \in D /\ t \notin M /\ CharAt(t) = Last(st) /\ CharAt(t) \in O
       /\ t \in Brackets(D) /\ t \in Q /\ Sooner(f, t, x) /\ t \in Places
  <2>1. t \in D /\ t \notin M /\ CharAt(t) = Last(st)
    BY <1>3, <1>17, <1>18 DEF WaitsBy
  <2>2. t \in Brackets(D)
    BY <1>4, <2>1 DEF Brackets
  <2>3. QED
    BY <1>4, <1>5, <1>10, <2>1, <2>2
<1>20. \A c \in D \cap Q : CharAt(c) \in C => c \in M /\ n[c] = m[c]
  <2>1. Paired(f, BracketsTo(f, q), n)
    BY <1>1, <1>2
  <2>2. \A c \in D \cap BracketsTo(f, q) : CharAt(c) \in Closing(f) => c \in M /\ n[c] = m[c]
    BY <1>3, <1>5, <1>6, <2>1, PairsAgree
  <2>3. QED
    BY <1>1, <1>4, <2>2
<1>21. M \subseteq Brackets(D) /\ \A p \in M : m[p] \in M /\ m[m[p]] = p
  BY <1>3 DEF WaitsBy, Paired
<1>22. CASE a = t
  BY <1>15, <1>19, <1>22
<1>23. CASE Sooner(f, a, t)
  <2>1. Sooner(f, a, n[t]) /\ Sooner(f, n[t], x)
    BY <1>11, <1>15, <1>19, <1>23
  <2>2. n[t] \in Q /\ n[n[t]] = t /\ CharAt(n[t]) \in C
    BY <1>11, <1>12, <1>19
  <2>3. n[t] # x
    BY <2>1 DEF Sooner
  <2>4. n[t] \in D
    BY <1>5, <1>13, <2>1, <2>2, <2>3
  <2>5. n[t] \in M /\ n[n[t]] = m[n[t]]
    BY <1>20, <2>2, <2>4
  <2>6. t \in M
    BY <1>21, <2>2, <2>5
  <2>7. QED
    BY <1>19, <2>6
<1>24. CASE Sooner(f, t, a)
  <2>1. a \in M
    <3>1. SUFFICES ASSUME NEW i \in 1..Len(st), a = w[i] PROVE FALSE
      BY <1>3, <1>15 DEF WaitsBy
    <3>2. CASE i = N
      BY <1>18, <1>24, <3>1, <3>2 DEF Sooner
    <3>3. CASE i # N
      <4>1. i < N
        BY <1>16, <1>17, <3>3
      <4>2. Sooner(f, a, t)
        BY <1>3, <1>17, <1>18, <3>1, <4>1 DEF WaitsBy
      <4>3. a \in Places
        BY <1>5, <1>15
      <4>4. QED
        BY <1>19, <1>24, <4>2, <4>3, Order
    <3>4. QED
      BY <3>2, <3>3
  <2>2. m[a] \in M /\ m[m[a]] = a /\ m[a] \in Brackets(D) /\ m[a] \in D
    BY <1>21, <2>1 DEF Brackets
  <2>3. CharAt(m[a]) \in C
    BY <1>3, <1>4, <1>15, <2>1 DEF WaitsBy, Paired, Fits
  <2>4. m[a] \in D \cap Q
    BY <1>10, <2>2
  <2>5. n[m[a]] = a
    BY <1>20, <2>2, <2>3, <2>4
  <2>6. n[n[m[a]]] = m[a]
    BY <1>11, <2>4
  <2>7. m[a] = x
    BY <1>15, <2>5, <2>6
  <2>8. QED
    BY <1>5, <2>2, <2>7
<1>25. QED
  BY <1>5, <1>15, <1>19, <1>22, <1>23, <1>24, Order

\* The bracket that takes the last one off the stack is the nearest match.
LEMMA Matched ==
  ASSUME LinesAreLines, NEW f \in BOOLEAN, Starts(f), NEW D, NEW x, FollowsOn(f, D, x),
         NEW st, st # <<>>, Waits(f, D, st), Waits(f, D \cup {x}, <<>>), x # origin
  PROVE  Match(x)
<1>1. PICK z : z = <<>>
  OBVIOUS
<1>2. PICK w, M, m : WaitsBy(f, D \cup {x}, z, w, M, m)
  BY <1>1 DEF Waits
<1>3. Len(z) = 0 /\ 1..Len(z) = {}
  <2>1. Len(<<>>) = 0
    BY EmptySeq
  <2>2. QED
    BY <1>1, <2>1
<1>4. M = Brackets(D \cup {x}) /\ Paired(f, M, m)
  BY <1>2, <1>3 DEF WaitsBy
<1>5. /\ Prefix(f, D) /\ D \subseteq Places /\ x \in Places /\ Prefix(f, D \cup {x})
      /\ \A d \in D : Sooner(f, d, x)
      /\ \A d \in D \cup {x} : ~ Sooner(f, d, origin)
      /\ origin \in Places
  BY DEF FollowsOn, Prefix, Starts
<1>6. Brackets(D \cup {x}) = BracketsTo(f, x)
  <2>1. ASSUME NEW p \in Brackets(D \cup {x}) PROVE p \in BracketsTo(f, x)
    <3>1. p \in Places /\ p \in D \cup {x} /\ CharAt(p) \in Openers \cup Closers
      BY <1>5 DEF Brackets
    <3>2. ~ Sooner(f, x, p)
      BY <1>5, <3>1, Order
    <3>3. QED
      BY <1>5, <3>1, <3>2 DEF BracketsTo
  <2>2. ASSUME NEW p \in BracketsTo(f, x) PROVE p \in Brackets(D \cup {x})
    <3>1. p \in D \cup {x}
      BY <1>5, PrefixIs
    <3>2. QED
      BY <3>1 DEF Brackets, BracketsTo
  <2>3. QED
    BY <2>1, <2>2
<1>7. x \in Beyond(origin)
  BY <1>5, BeyondIs, Order
<1>8. Matches(origin, x)
  BY <1>4, <1>6, <1>7, MatchesIs
<1>9. ASSUME NEW q \in Beyond(origin), Matches(origin, q) PROVE x \in Stretch(origin, q)
  <2>1. q \in Places
    BY DEF Beyond
  <2>2. Sooner(f, origin, q)
    BY <1>9, <2>1, BeyondIs
  <2>3. q \notin D
    BY <1>5, <1>9, NoMatchYet
  <2>4. ~ Sooner(f, q, x)
    BY <2>3, NotBefore
  <2>5. ~ Sooner(f, x, origin)
    BY <1>5
  <2>6. QED
    BY <1>5, <2>1, <2>2, <2>4, <2>5, StretchIs
<1>10. QED
  BY <1>7, <1>8, <1>9 DEF Match, Nearest

-----------------------------------------------------------------------------
(* What has been read                                                       *)

\* The places from the origin to position i of line n.
Read(f, n, i) ==
    {p \in Places : /\ ~ Sooner(f, p, origin)
                    /\ IF f THEN p.line < n \/ (p.line = n /\ p.pos <= i)
                       ELSE p.line > n \/ (p.line = n /\ p.pos >= i)}

\* A position of a line is a place.
LEMMA PositionIs ==
  ASSUME LinesAreLines, NEW n \in 1..Len(lines), NEW i \in 1..Len(lines[n])
  PROVE  /\ Position(n, i) \in Places /\ Position(n, i).line = n /\ Position(n, i).pos = i
         /\ CharAt(Position(n, i)) = lines[n][i] /\ lines[n][i] \in Characters
         /\ n \in Nat /\ i \in Nat
<1>1. Len(lines) \in Nat /\ n \in DOMAIN lines
  BY DEF LinesAreLines
<1>2. lines[n] \in Seq(Characters)
  <2>1. PICK C : C = Seq(Characters)
    OBVIOUS
  <2>2. lines \in Seq(C)
    BY <2>1 DEF LinesAreLines
  <2>3. QED
    BY <1>1, <2>1, <2>2
<1>3. Len(lines[n]) \in Nat /\ i \in DOMAIN lines[n] /\ lines[n][i] \in Characters
  BY <1>2
<1>4. Position(n, i) \in Places
  BY <1>1, <1>3 DEF Places
<1>5. QED
  BY <1>1, <1>3, <1>4 DEF Position, CharAt

\* What has been read is a beginning of what is to be read.
LEMMA ReadIsPrefix ==
  ASSUME LinesAreLines, NEW f \in BOOLEAN, origin \in Places, NEW n \in Int, NEW j \in Int
  PROVE  Prefix(f, Read(f, n, j))
<1>1. \A p \in Places : p.line \in Nat /\ p.pos \in Nat
  BY PlaceIs
<1>2. ASSUME NEW d \in Read(f, n, j), NEW p \in Places, ~ Sooner(f, p, origin), Sooner(f, p, d)
      PROVE  p \in Read(f, n, j)
  <2>1. d \in Places
    BY DEF Read
  <2>2. CASE f
    BY <1>1, <1>2, <2>1, <2>2 DEF Read, Sooner, Before
  <2>3. CASE ~ f
    BY <1>1, <1>2, <2>1, <2>3 DEF Read, Sooner, Before
  <2>4. QED
    BY <2>2, <2>3
<1>3. QED
  BY <1>2 DEF Prefix, Read

\* A position more is a place more.
LEMMA ReadOn ==
  ASSUME LinesAreLines, NEW f \in BOOLEAN, origin \in Places,
         NEW n \in 1..Len(lines), NEW i \in 1..Len(lines[n]), NEW x, x = Position(n, i),
         ~ Sooner(f, x, origin), NEW k, k = IF f THEN i - 1 ELSE i + 1
  PROVE  /\ FollowsOn(f, Read(f, n, k), x)
         /\ Read(f, n, k) \cup {x} = Read(f, n, i)
<1>1. x \in Places /\ x.line = n /\ x.pos = i /\ n \in Nat /\ i \in Nat /\ k \in Int
  BY PositionIs
<1>2. \A p \in Places : /\ p.line \in Nat /\ p.pos \in Nat
                        /\ p.line = n /\ p.pos = i => p = x
  BY PlaceIs
<1>3. Read(f, n, k) \cup {x} = Read(f, n, i)
  <2>1. ASSUME NEW p \in Places
        PROVE  p \in Read(f, n, k) \cup {x} <=> p \in Read(f, n, i)
    <3>1. CASE f
      <4>1. k = i - 1 /\ p.line \in Nat /\ p.pos \in Nat
        BY <1>2, <3>1
      <4>2. \A j : p \in Read(f, n, j)
                   <=> ~ Sooner(f, p, origin) /\ (p.line < n \/ (p.line = n /\ p.pos <= j))
        BY <3>1 DEF Read
      <4>3. CASE p = x
        <5>1. p.line = n /\ p.pos = i /\ i <= i /\ ~ Sooner(f, p, origin)
          BY <1>1, <4>3
        <5>2. p \in Read(f, n, i)
          BY <4>2, <5>1
        <5>3. QED
          BY <4>3, <5>2
      <4>4. CASE p # x
        <5>1. ~ (p.line = n /\ p.pos = i)
          BY <1>2, <4>4
        <5>2. (p.line = n /\ p.pos <= k) <=> (p.line = n /\ p.pos <= i)
          BY <1>1, <4>1, <5>1
        <5>3. QED
          BY <4>2, <4>4, <5>2
      <4>5. QED
        BY <4>3, <4>4
    <3>2. CASE ~ f
      BY <1>1, <1>2, <3>2 DEF Read
    <3>3. QED
      BY <3>1, <3>2
  <2>2. Read(f, n, k) \cup {x} \subseteq Places /\ Read(f, n, i) \subseteq Places
    BY <1>1 DEF Read
  <2>3. QED
    BY <2>1, <2>2
<1>4. ASSUME NEW j \in Int PROVE Prefix(f, Read(f, n, j))
  <2>1. n \in Int
    BY <1>1
  <2>2. QED
    BY <2>1, ReadIsPrefix
<1>5. x \notin Read(f, n, k)
  BY <1>1 DEF Read
<1>6. ASSUME NEW d \in Read(f, n, k) PROVE Sooner(f, d, x)
  <2>1. d \in Places /\ d # x
    BY <1>5 DEF Read
  <2>2. CASE f
    BY <1>1, <1>2, <2>1, <2>2 DEF Read, Sooner, Before
  <2>3. CASE ~ f
    BY <1>1, <1>2, <2>1, <2>3 DEF Read, Sooner, Before
  <2>4. QED
    BY <2>2, <2>3
<1>7. Prefix(f, Read(f, n, k)) /\ Prefix(f, Read(f, n, k) \cup {x})
  <2>1. k \in Int /\ i \in Int
    BY <1>1
  <2>2. Prefix(f, Read(f, n, k)) /\ Prefix(f, Read(f, n, i))
    BY <1>4, <2>1
  <2>3. QED
    BY <1>3, <2>2
<1>8. QED
  BY <1>1, <1>3, <1>5, <1>6, <1>7 DEF FollowsOn

\* A line ends where the next begins, and nothing is before the origin or behind the file.
LEMMA ReadEnds ==
  ASSUME LinesAreLines, origin \in Places
  PROVE  /\ Read(TRUE, origin.line, origin.pos - 1) = {}
         /\ Read(FALSE, origin.line, origin.pos + 1) = {}
         /\ \A n \in Nat : n < Len(lines) => Read(TRUE, n, Len(lines[n])) = Read(TRUE, n + 1, 0)
         /\ \A n \in 1..Len(lines) :
              Read(FALSE, n, 1) = Read(FALSE, n - 1, Len(lines[n - 1]) + 1)
<1>1. \A p \in Places : /\ p.line \in Nat /\ p.pos \in Nat /\ Len(lines) \in Nat
                        /\ p.line \in 1..Len(lines)
                        /\ Len(lines[p.line]) \in Nat /\ p.pos \in 1..Len(lines[p.line])
                        /\ p.line = origin.line /\ p.pos = origin.pos => p = origin
  BY PlaceIs
<1>2. Read(TRUE, origin.line, origin.pos - 1) = {}
  BY <1>1 DEF Read, Sooner, Before
<1>3. Read(FALSE, origin.line, origin.pos + 1) = {}
  BY <1>1 DEF Read, Sooner, Before
<1>4. ASSUME NEW n \in Nat, n < Len(lines)
      PROVE  Read(TRUE, n, Len(lines[n])) = Read(TRUE, n + 1, 0)
  <2>1. \A p \in Places : p.line < n \/ (p.line = n /\ p.pos <= Len(lines[n]))
                          <=> p.line < n + 1 \/ (p.line = n + 1 /\ p.pos <= 0)
    BY <1>1, <1>4
  <2>2. QED
    BY <2>1 DEF Read
<1>5. ASSUME NEW n \in 1..Len(lines)
      PROVE  Read(FALSE, n, 1) = Read(FALSE, n - 1, Len(lines[n - 1]) + 1)
  <2>1. \A p \in Places : p.line > n \/ (p.line = n /\ p.pos >= 1)
                          <=> p.line > n - 1 \/ (p.line = n - 1 /\ p.pos >= Len(lines[n - 1]) + 1)
    BY <1>1, <1>5
  <2>2. QED
    BY <2>1 DEF Read
<1>6. QED
  BY <1>2, <1>3, <1>4, <1>5

\* Beyond the last place of the file there is none.
LEMMA AllIsRead ==
  ASSUME LinesAreLines, NEW f \in BOOLEAN, Starts(f), NEW q \in Beyond(origin)
  PROVE  q \in IF f THEN Read(TRUE, Len(lines), Len(lines[Len(lines)])) ELSE Read(FALSE, 1, 1)
<1>1. q \in Places /\ origin \in Places
  BY DEF Beyond, Starts
<1>2. ~ Sooner(f, q, origin)
  BY <1>1, BeyondIs, Order
<1>3. /\ q.line \in Nat /\ q.pos \in Nat /\ Len(lines) \in Nat /\ q.line \in 1..Len(lines)
      /\ Len(lines[q.line]) \in Nat /\ q.pos \in 1..Len(lines[q.line])
  BY <1>1, PlaceIs
<1>4. CASE f
  <2>1. PICK L : L = Len(lines[Len(lines)])
    OBVIOUS
  <2>2. q.line < Len(lines) \/ (q.line = Len(lines) /\ q.pos <= L)
    BY <1>3, <2>1
  <2>3. ~ Sooner(TRUE, q, origin)
    BY <1>2, <1>4
  <2>4. q \in Read(TRUE, Len(lines), L)
    BY <1>1, <2>2, <2>3 DEF Read
  <2>5. QED
    BY <1>4, <2>1, <2>4
<1>5. CASE ~ f
  <2>1. ~ Sooner(FALSE, q, origin)
    BY <1>2, <1>5
  <2>2. q.line > 1 \/ (q.line = 1 /\ q.pos >= 1)
    BY <1>3
  <2>3. q \in Read(FALSE, 1, 1)
    BY <1>1, <2>1, <2>2 DEF Read
  <2>4. QED
    BY <1>5, <2>3
<1>6. QED
  BY <1>4, <1>5

-----------------------------------------------------------------------------
(* The scan                                                                 *)

IsScan(s) ==
    /\ s = [stack |-> s.stack, end |-> s.end]
    /\ s.stack \in Seq(Characters) /\ s.end \in Int /\ s.end >= GivenUp

\* The scan goes on, and what is on its stack is what waits.
Going(f, D, s) == IsScan(s) /\ s.end = 0 /\ s.stack # <<>> /\ Waits(f, D, s.stack)

\* The scan, somewhere on line n, tells the truth of what was looked at.
Good(f, D, n, s) ==
    /\ IsScan(s)
    /\ s.end = 0 => Going(f, D, s)
    /\ s.end = GivenUp => Hopeless
    /\ s.end > 0 => Match(Position(n, s.end))

\* The next place is position i of line n.
Ready(f, D, x, n, i) ==
    /\ LinesAreLines /\ Starts(f) /\ FollowsOn(f, D, x)
    /\ x = Position(n, i) /\ i \in Nat \ {0} /\ CharAt(x) \in Characters

\* As long as the scan goes on there is nothing else to say.
LEMMA GoingIsGood ==
  ASSUME NEW f, NEW D, NEW n, NEW s, Going(f, D, s)
  PROVE  Good(f, D, n, s)
<1>1. GivenUp # 0 /\ ~ 0 > 0
  BY DEF GivenUp
<1>2. QED
  BY <1>1 DEF Good, Going

\* At the bottom of the stack is the origin.
LEMMA BottomIs ==
  ASSUME NEW f \in BOOLEAN, Starts(f), NEW D, NEW s, Going(f, D, s)
  PROVE  /\ origin \in D /\ Len(s.stack) \in Nat /\ Len(s.stack) >= 1
         /\ s.stack[1] \in Opening(f) /\ s.stack[1] # Angle(f)
<1>1. PICK st : st = s.stack
  OBVIOUS
<1>2. PICK w, M, m : WaitsBy(f, D, st, w, M, m)
  BY <1>1 DEF Going, Waits
<1>3. st \in Seq(Characters) /\ st # <<>>
  BY <1>1 DEF Going, IsScan
<1>4. Len(st) \in Nat /\ Len(st) # 0
  BY <1>3, EmptySeq
<1>5. 1 \in 1..Len(st) /\ Len(st) >= 1
  BY <1>4
<1>6. w[1] = origin /\ w[1] \in D /\ CharAt(w[1]) = st[1]
  BY <1>2, <1>3, <1>5 DEF WaitsBy
<1>7. CharAt(origin) \in Opening(f)
  BY DEF Starts
<1>8. \A c \in Opening(f) : c # "<" /\ c # ">"
  BY KindsAre
<1>9. QED
  BY <1>1, <1>4, <1>5, <1>6, <1>7, <1>8 DEF Angle

\* What is no bracket leaves the scan as it is.
LEMMA GoPass ==
  ASSUME NEW f \in BOOLEAN, NEW D, NEW x, NEW n, NEW i, Ready(f, D, x, n, i),
         NEW s, Going(f, D, s), CharAt(x) \notin Openers \cup Closers
  PROVE  Going(f, D \cup {x}, s)
<1>1. PICK st : st = s.stack
  OBVIOUS
<1>2. PICK w, M, m : WaitsBy(f, D, st, w, M, m)
  BY <1>1 DEF Going, Waits
<1>3. WaitsBy(f, D \cup {x}, st, w, M, m)
  BY <1>2, Passed
<1>4. Waits(f, D \cup {x}, st)
  BY <1>3 DEF Waits
<1>5. QED
  BY <1>1, <1>4 DEF Going

\* What opens, or seems to, goes onto the stack.
LEMMA GoPush ==
  ASSUME NEW f \in BOOLEAN, NEW D, NEW x, NEW n, NEW i, Ready(f, D, x, n, i),
         NEW s, Going(f, D, s) \/ (D = {} /\ s = Fresh /\ x = origin),
         CharAt(x) \in Opening(f) \cup {Angle(f)}
  PROVE  Going(f, D \cup {x}, Push(s, CharAt(x)))
<1>1. PICK st : st = s.stack
  OBVIOUS
<1>2. PICK S, c : S = Characters /\ c = CharAt(x)
  OBVIOUS
<1>3. /\ s = [stack |-> st, end |-> 0] /\ st \in Seq(S)
      /\ st = <<>> => x = origin
      /\ \E w, M, m : WaitsBy(f, D, st, w, M, m)
  <2>1. CASE Going(f, D, s)
    BY <1>1, <1>2, <2>1 DEF Going, IsScan, Waits
  <2>2. CASE D = {} /\ s = Fresh /\ x = origin
    <3>1. st = <<>> /\ s = [stack |-> st, end |-> 0]
      BY <1>1, <2>2 DEF Fresh
    <3>2. \E w, M, m : WaitsBy(f, {}, <<>>, w, M, m)
      BY NothingYet DEF Ready
    <3>3. st \in Seq(S)
      BY <3>1, EmptySeq
    <3>4. QED
      BY <2>2, <3>1, <3>2, <3>3
  <2>3. QED
    BY <2>1, <2>2
<1>4. PICK w, M, m : WaitsBy(f, D, st, w, M, m)
  BY <1>3
<1>5. LinesAreLines /\ FollowsOn(f, D, x) /\ CharAt(x) \in Characters
  BY DEF Ready
<1>6. \E v : WaitsBy(f, D \cup {x}, Append(st, CharAt(x)), v, M, m)
  BY <1>3, <1>4, <1>5, Pushed
<1>7. PICK t : t = Append(st, c)
  OBVIOUS
<1>8. t \in Seq(S) /\ Len(t) = Len(st) + 1 /\ Len(st) \in Nat
  BY <1>2, <1>3, <1>5, <1>7
<1>9. t # <<>>
  BY <1>8, EmptySeq
<1>10. Waits(f, D \cup {x}, t)
  BY <1>2, <1>6, <1>7 DEF Waits
<1>11. Push(s, CharAt(x)) = [stack |-> t, end |-> 0]
  <2>1. Push(s, CharAt(x)) = [s EXCEPT !.stack = Append(st, c)]
    BY <1>1, <1>2 DEF Push
  <2>2. s = [stack |-> st, end |-> 0]
    BY <1>3
  <2>3. [s EXCEPT !.stack = t] = [stack |-> t, end |-> 0]
    BY <2>2
  <2>4. QED
    BY <1>7, <2>1, <2>3
<1>12. PICK r : r = Push(s, CharAt(x))
  OBVIOUS
<1>13. r = [stack |-> t, end |-> 0] /\ r.stack = t /\ r.end = 0
  BY <1>11, <1>12
<1>14. 0 \in Int /\ 0 >= GivenUp
  BY DEF GivenUp
<1>15. Going(f, D \cup {x}, r)
  BY <1>2, <1>8, <1>9, <1>10, <1>13, <1>14 DEF Going, IsScan
<1>16. QED
  BY <1>12, <1>15

\* The top that is an angle bracket may be taken off, being not the last.
LEMMA GoShorten ==
  ASSUME NEW f \in BOOLEAN, Starts(f), NEW D, NEW s, Going(f, D, s),
         NEW k \in 1..Len(s.stack), \A j \in (k + 1)..Len(s.stack) : s.stack[j] = Angle(f)
  PROVE  Going(f, D, [stack |-> SubSeq(s.stack, 1, k), end |-> 0])
<1>1. PICK st, S : st = s.stack /\ S = Characters
  OBVIOUS
<1>2. PICK w, M, m : WaitsBy(f, D, st, w, M, m)
  BY <1>1 DEF Going, Waits
<1>3. st \in Seq(S) /\ Len(st) \in Nat /\ k \in Nat /\ k >= 1 /\ k <= Len(st)
  BY <1>1 DEF Going, IsScan
<1>4. k \in 0..Len(st) /\ \A j \in (k + 1)..Len(st) : st[j] = Angle(f)
  BY <1>1, <1>3
<1>5. PICK t : t = SubSeq(st, 1, k)
  OBVIOUS
<1>6. t \in Seq(S) /\ Len(t) = k
  BY <1>3, <1>5
<1>7. WaitsBy(f, D, SubSeq(st, 1, k), w, M, m)
  BY <1>2, <1>4, Dropped
<1>8. t # <<>>
  BY <1>3, <1>6, EmptySeq
<1>9. Waits(f, D, t)
  BY <1>5, <1>7 DEF Waits
<1>10. PICK r : r = [stack |-> t, end |-> 0]
  OBVIOUS
<1>11. r = [stack |-> r.stack, end |-> r.end] /\ r.stack = t /\ r.end = 0
  BY <1>10
<1>12. 0 \in Int /\ 0 >= GivenUp
  BY DEF GivenUp
<1>13. Going(f, D, r)
  BY <1>1, <1>6, <1>8, <1>9, <1>11, <1>12 DEF Going, IsScan
<1>14. QED
  BY <1>1, <1>5, <1>10, <1>13

\* A position that a property holds for is the last such position or has one after it.
LEMMA LastOfPositions ==
  ASSUME NEW n \in Nat, NEW I \in SUBSET (0..n), I # {}
  PROVE  Max(I) \in I /\ \A i \in I : i <= Max(I)
<1> DEFINE J == {n - i : i \in I}
<1>1. J \in SUBSET Nat /\ J # {}
  OBVIOUS
<1>2. PICK j \in J : \A k \in J : ~ k < j
  <2> HIDE DEF J
  <2>1. QED
    BY <1>1, NoFirst
<1>3. PICK x \in I : j = n - x
  OBVIOUS
<1>4. \A y \in I : x >= y
  <2> TAKE y \in I
  <2>1. n - y \in J /\ x \in Nat /\ y \in Nat
    OBVIOUS
  <2>2. ~ n - y < n - x
    BY <1>2, <1>3, <2>1
  <2>3. QED
    BY <2>1, <2>2
<1>5. \E z \in I : \A y \in I : z >= y
  BY <1>4
<1>6. PICK z : z = Max(I)
  OBVIOUS
<1>7. z \in I /\ \A y \in I : z >= y
  BY <1>5, <1>6 DEF Max
<1>8. \A y \in I : y <= z
  <2> TAKE y \in I
  <2>1. y \in Int /\ z \in Int /\ z >= y
    BY <1>7
  <2>2. QED
    BY <2>1
<1>9. QED
  BY <1>6, <1>7, <1>8

\* Angle brackets that were none are dropped, and a bracket is on top.
LEMMA GoDrop ==
  ASSUME NEW f \in BOOLEAN, Starts(f), NEW D, NEW s, Going(f, D, s)
  PROVE  /\ Going(f, D, DropOperators(s, Angle(f)))
         /\ Last(DropOperators(s, Angle(f)).stack) \in Opening(f)
<1>1. PICK st, c : st = s.stack /\ c = Angle(f)
  OBVIOUS
<1>2. PICK N : N = Len(st)
  OBVIOUS
<1>3. /\ N \in Nat /\ N >= 1 /\ st[1] \in Opening(f) /\ st[1] # c
      /\ s = [stack |-> st, end |-> 0] /\ st \in Seq(Characters)
  <2>1. Len(s.stack) \in Nat /\ Len(s.stack) >= 1 /\ s.stack[1] \in Opening(f)
        /\ s.stack[1] # Angle(f)
    BY BottomIs
  <2>2. QED
    BY <1>1, <1>2, <2>1 DEF Going, IsScan
<1>4. PICK I : I = {0} \cup {i \in DOMAIN st : st[i] # c}
  OBVIOUS
<1>5. DOMAIN st = 1..N
  BY <1>2, <1>3
<1>6. I \in SUBSET (0..N) /\ I # {} /\ 1 \in I
  BY <1>3, <1>4, <1>5
<1>7. PICK k : k = Max(I)
  OBVIOUS
<1>8. k \in I /\ \A i \in I : i <= k
  BY <1>3, <1>6, <1>7, LastOfPositions
<1>9. k \in 1..N /\ st[k] # c
  <2>1. k >= 1
    BY <1>6, <1>8
  <2>2. k # 0
    BY <2>1
  <2>3. QED
    BY <1>4, <1>5, <1>8, <2>2
<1>10. ASSUME NEW j \in (k + 1)..N PROVE st[j] = c
  <2>1. j \in 1..N /\ ~ j <= k
    BY <1>3, <1>9
  <2>2. j \notin I
    BY <1>8, <2>1
  <2>3. QED
    BY <1>4, <1>5, <2>1, <2>2
<1>11. PICK r, t : t = SubSeq(st, 1, k) /\ r = DropOperators(s, Angle(f))
  OBVIOUS
<1>12. r = [stack |-> t, end |-> 0]
  <2>1. s.stack = st
    BY <1>1
  <2>2. r = [s EXCEPT !.stack = SubSeq(st, 1, Max({0} \cup {i \in DOMAIN st : st[i] # c}))]
    BY <1>1, <1>11, <2>1 DEF DropOperators
  <2>3. r = [s EXCEPT !.stack = t]
    BY <1>4, <1>7, <1>11, <2>2
  <2>4. QED
    BY <1>3, <2>3
<1>13. Going(f, D, r)
  <2>1. k \in 1..Len(s.stack) /\ \A j \in (k + 1)..Len(s.stack) : s.stack[j] = Angle(f)
    BY <1>1, <1>2, <1>9, <1>10
  <2>2. Going(f, D, [stack |-> SubSeq(s.stack, 1, k), end |-> 0])
    BY <2>1, GoShorten
  <2>3. QED
    BY <1>1, <1>11, <1>12, <2>2
<1>14. t[k] = st[k] /\ Len(t) = k
  BY <1>2, <1>3, <1>9, <1>11
<1>15. Last(t) = st[k]
  BY <1>14 DEF Last
<1>16. PICK w, M, m : WaitsBy(f, D, st, w, M, m)
  BY <1>1 DEF Going, Waits
<1>17. st[k] \in Opening(f) \cup {Angle(f)}
  BY <1>2, <1>9, <1>16 DEF WaitsBy
<1>18. QED
  BY <1>1, <1>9, <1>11, <1>12, <1>13, <1>15, <1>17

\* A bracket that fits the one on top takes it off: the last one is the match.
LEMMA GoPop ==
  ASSUME NEW f \in BOOLEAN, NEW D, NEW x, NEW n, NEW i, Ready(f, D, x, n, i),
         NEW s, Going(f, D, s), Fits(f, Last(s.stack), CharAt(x))
  PROVE  Good(f, D \cup {x}, n, PopAt(s, i))
<1>1. PICK st, S : st = s.stack /\ S = Characters
  OBVIOUS
<1>2. PICK w, M, m : WaitsBy(f, D, st, w, M, m)
  BY <1>1 DEF Going, Waits
<1>3. PICK N : N = Len(st)
  OBVIOUS
<1>4. /\ s = [stack |-> st, end |-> 0] /\ st \in Seq(S) /\ st # <<>> /\ N \in Nat /\ N >= 1
      /\ origin \in D
  <2>1. LinesAreLines /\ Starts(f)
    BY DEF Ready
  <2>2. origin \in D /\ Len(s.stack) \in Nat /\ Len(s.stack) >= 1
    BY <2>1, BottomIs
  <2>3. QED
    BY <1>1, <1>3, <2>2 DEF Going, IsScan
<1>5. PICK t : t = Front(st)
  OBVIOUS
<1>6. t \in Seq(S) /\ Len(t) = N - 1
  BY <1>3, <1>4, <1>5 DEF Front
<1>7. /\ LinesAreLines /\ Starts(f) /\ FollowsOn(f, D, x) /\ x = Position(n, i)
      /\ i \in Nat \ {0}
  BY DEF Ready
<1>8. Waits(f, D \cup {x}, t)
  <2>1. Fits(f, Last(st), CharAt(x))
    BY <1>1
  <2>2. \E A, a : WaitsBy(f, D \cup {x}, Front(st), w, A, a)
    BY <1>2, <1>4, <1>7, <2>1, Popped
  <2>3. QED
    BY <1>5, <2>2 DEF Waits
<1>9. PICK r : r = PopAt(s, i)
  OBVIOUS
<1>10. r = [stack |-> t, end |-> IF N = 1 THEN i ELSE 0]
  BY <1>1, <1>3, <1>4, <1>5, <1>9 DEF PopAt
<1>11. r = [stack |-> r.stack, end |-> r.end] /\ r.stack = t /\ r.end = IF N = 1 THEN i ELSE 0
  BY <1>10
<1>12. IsScan(r)
  <2>1. r.end \in Int /\ r.end >= GivenUp
    BY <1>7, <1>11 DEF GivenUp
  <2>2. QED
    BY <1>1, <1>6, <1>11, <2>1 DEF IsScan
<1>13. CASE N = 1
  <2>1. Len(t) = 0
    BY <1>6, <1>13
  <2>2. t = <<>>
    BY <1>6, <2>1, EmptySeq
  <2>3. Waits(f, D, st)
    BY <1>1 DEF Going
  <2>4. Waits(f, D \cup {x}, <<>>)
    BY <1>8, <2>2
  <2>5. x # origin
    BY <1>4, <1>7 DEF FollowsOn
  <2>6. Match(x)
    BY <1>4, <1>7, <2>3, <2>4, <2>5, Matched
  <2>7. r.end = i /\ i # 0 /\ i # GivenUp
    BY <1>7, <1>11, <1>13 DEF GivenUp
  <2>8. Good(f, D \cup {x}, n, r)
    BY <1>7, <1>12, <2>6, <2>7 DEF Good
  <2>9. QED
    BY <1>9, <2>8
<1>14. CASE N # 1
  <2>1. t # <<>>
    BY <1>4, <1>6, <1>14, EmptySeq
  <2>2. r.end = 0
    BY <1>11, <1>14
  <2>3. Going(f, D \cup {x}, r)
    BY <1>8, <1>11, <1>12, <2>1, <2>2 DEF Going
  <2>4. QED
    BY <1>9, <2>3, GoingIsGood
<1>15. QED
  BY <1>13, <1>14

\* An angle bracket on top is never the last one.
LEMMA GoPopAngle ==
  ASSUME NEW f \in BOOLEAN, Starts(f), NEW D, NEW s, Going(f, D, s), TopIs(s, Angle(f)), NEW i
  PROVE  /\ Len(s.stack) # 1
         /\ Going(f, D, PopAt(s, i))
         /\ Going(f, D, [s EXCEPT !.stack = Front(@)])
<1>1. PICK st, c : st = s.stack /\ c = Angle(f)
  OBVIOUS
<1>2. PICK N : N = Len(st)
  OBVIOUS
<1>3. /\ N \in Nat /\ N >= 1 /\ st[1] # c
      /\ s = [stack |-> st, end |-> 0] /\ st \in Seq(Characters)
  <2>1. Len(s.stack) \in Nat /\ Len(s.stack) >= 1 /\ s.stack[1] # Angle(f)
    BY BottomIs
  <2>2. QED
    BY <1>1, <1>2, <2>1 DEF Going, IsScan
<1>4. st[N] = c
  BY <1>1, <1>2 DEF TopIs, Last
<1>5. N # 1
  BY <1>3, <1>4
<1>6. N - 1 \in 1..N /\ \A j \in ((N - 1) + 1)..N : st[j] = c
  <2>1. N - 1 \in 1..N
    BY <1>3, <1>5
  <2>2. ASSUME NEW j \in ((N - 1) + 1)..N PROVE j = N
    BY <1>3
  <2>3. QED
    BY <1>4, <2>1, <2>2
<1>7. PICK t : t = Front(st)
  OBVIOUS
<1>8. t = SubSeq(st, 1, N - 1)
  BY <1>2, <1>7 DEF Front
<1>9. Going(f, D, [stack |-> t, end |-> 0])
  <2>1. PICK k : k = N - 1
    OBVIOUS
  <2>2. k \in 1..Len(s.stack) /\ \A j \in (k + 1)..Len(s.stack) : s.stack[j] = Angle(f)
    BY <1>1, <1>2, <1>6, <2>1
  <2>3. Going(f, D, [stack |-> SubSeq(s.stack, 1, k), end |-> 0])
    BY <2>2, GoShorten
  <2>4. QED
    BY <1>1, <1>8, <2>1, <2>3
<1>10. PopAt(s, i) = [stack |-> t, end |-> 0]
  BY <1>1, <1>2, <1>3, <1>5, <1>7 DEF PopAt
<1>11. [s EXCEPT !.stack = Front(@)] = [stack |-> t, end |-> 0]
  BY <1>1, <1>3, <1>7
<1>12. QED
  BY <1>1, <1>2, <1>5, <1>9, <1>10, <1>11

\* The scan may give up if there is no match.
LEMMA GoGiveUp ==
  ASSUME NEW f, NEW D, NEW E, NEW n, NEW s, Going(f, D, s), Hopeless
  PROVE  Good(f, E, n, GiveUp(s))
<1>1. PICK r : r = GiveUp(s)
  OBVIOUS
<1>2. PICK st : st = s.stack
  OBVIOUS
<1>3. s = [stack |-> st, end |-> 0] /\ st \in Seq(Characters)
  BY <1>2 DEF Going, IsScan
<1>4. r = [stack |-> st, end |-> GivenUp]
  BY <1>1, <1>3 DEF GiveUp
<1>5. r = [stack |-> r.stack, end |-> r.end] /\ r.stack = st /\ r.end = GivenUp
  BY <1>4
<1>6. GivenUp \in Int /\ GivenUp >= GivenUp /\ GivenUp # 0 /\ ~ GivenUp > 0
  BY DEF GivenUp
<1>7. Good(f, E, n, r)
  BY <1>3, <1>5, <1>6 DEF Good, IsScan
<1>8. QED
  BY <1>1, <1>7

\* What a bracket of the other kind does, in either direction.
LEMMA GoClose ==
  ASSUME NEW f \in BOOLEAN, NEW D, NEW x, NEW n, NEW i, Ready(f, D, x, n, i),
         NEW s, Going(f, D, s), CharAt(x) \in Closing(f),
         NEW t, t = DropOperators(s, Angle(f))
  PROVE  /\ Going(f, D, t)
         /\ Fits(f, Last(t.stack), CharAt(x)) => Good(f, D \cup {x}, n, PopAt(t, i))
         /\ ~ Fits(f, Last(t.stack), CharAt(x)) => Good(f, D \cup {x}, n, GiveUp(t))
<1>1. LinesAreLines /\ Starts(f) /\ FollowsOn(f, D, x)
  BY DEF Ready
<1>2. Going(f, D, t) /\ Last(t.stack) \in Opening(f)
  BY <1>1, GoDrop
<1>3. Fits(f, Last(t.stack), CharAt(x)) => Good(f, D \cup {x}, n, PopAt(t, i))
  BY <1>2, GoPop
<1>4. ASSUME ~ Fits(f, Last(t.stack), CharAt(x)) PROVE Good(f, D \cup {x}, n, GiveUp(t))
  <2>1. t.stack # <<>> /\ Waits(f, D, t.stack)
    BY <1>2 DEF Going
  <2>2. PICK st : st = t.stack
    OBVIOUS
  <2>3. Hopeless
    <3>1. /\ st # <<>> /\ Waits(f, D, st) /\ Last(st) \in Opening(f)
          /\ ~ Fits(f, Last(st), CharAt(x))
      BY <1>2, <1>4, <2>1, <2>2
    <3>2. QED
      BY <1>1, <3>1, Misfit
  <2>4. QED
    BY <1>2, <2>3, GoGiveUp
<1>5. QED
  BY <1>2, <1>3, <1>4

\* What a semicolon does, in either direction.
LEMMA GoEnd ==
  ASSUME NEW f \in BOOLEAN, NEW D, NEW x, NEW n, NEW i, Ready(f, D, x, n, i),
         NEW s, Going(f, D, s), CharAt(x) = ";"
  PROVE  Going(f, D \cup {x}, EndStatement(s, Angle(f)))
<1>1. PICK t : t = DropOperators(s, Angle(f))
  OBVIOUS
<1>2. Going(f, D, t)
  BY <1>1, GoDrop DEF Ready
<1>3. EndStatement(s, Angle(f)) = t
  BY <1>1, <1>2 DEF EndStatement, Going
<1>4. CharAt(x) \notin Openers \cup Closers
  BY DEF Openers, Closers
<1>5. Going(f, D \cup {x}, t)
  BY <1>2, <1>4, GoPass
<1>6. QED
  BY <1>3, <1>5

-----------------------------------------------------------------------------
(* The steps of the two searches                                            *)

\* A scan that nothing was read for, at the origin.
AtOrigin(D, x, s) == D = {} /\ s = Fresh /\ x = origin

\* Behind the word there is nothing but white space.
LEMMA BehindOperator ==
  ASSUME NEW line, NEW n \in Nat \ {0}, EndsWithOperator(line, n)
  PROVE  line[n] \in {"operator", " "}
<1>1. PICK k \in 1..n : line[k] = "operator" /\ \A j \in (k + 1)..n : line[j] = " "
  BY DEF EndsWithOperator
<1>2. CASE k = n
  BY <1>1, <1>2
<1>3. CASE k # n
  <2>1. n \in (k + 1)..n
    BY <1>3
  <2>2. QED
    BY <1>1, <2>1
<1>4. QED
  BY <1>2, <1>3

\* FindEnd tells the truth of one place more.
LEMMA ForwardStep ==
  ASSUME NEW D, NEW x, NEW n, NEW i, Ready(TRUE, D, x, n, i), NEW s,
         Good(TRUE, D, n, s) \/ AtOrigin(D, x, s), NEW line, line[i] = CharAt(x)
  PROVE  Good(TRUE, D \cup {x}, n, FindEnd(line, s, i))
<1>1. PICK c : c = CharAt(x)
  OBVIOUS
<1>2. /\ Angle(TRUE) = "<" /\ Opening(TRUE) = Openers /\ Closing(TRUE) = Closers
      /\ \A a, b : Fits(TRUE, a, b) <=> a \in Openers /\ b \in Closers /\ <<a, b>> \in Pairs
  BY DEF Angle, Opening, Closing, Fits
<1>3. /\ \A d \in Openers : d \notin Closers /\ d # "<" /\ d # ">" /\ d # ";"
      /\ \A d \in Closers : d \notin Openers /\ d # "<" /\ d # ">" /\ d # ";"
  BY DEF Openers, Closers
<1>4. line[i] = c /\ TRUE \in BOOLEAN
  BY <1>1
<1>5. PICK r : r = FindEnd(line, s, i)
  OBVIOUS
<1>6. CASE AtOrigin(D, x, s)
  <2>1. c \in Openers
    BY <1>1, <1>2, <1>6 DEF AtOrigin, Ready, Starts
  <2>2. r = Push(s, c)
    BY <1>3, <1>4, <1>5, <1>6, <2>1 DEF FindEnd, AtOrigin, Fresh
  <2>3. Going(TRUE, D \cup {x}, Push(s, CharAt(x)))
    BY <1>1, <1>2, <1>6, <2>1, GoPush DEF AtOrigin
  <2>4. QED
    BY <1>1, <1>5, <2>2, <2>3, GoingIsGood
<1>7. CASE Good(TRUE, D, n, s) /\ s.end # 0
  <2>1. r = s
    BY <1>5, <1>7 DEF FindEnd
  <2>2. Good(TRUE, D \cup {x}, n, s)
    BY <1>7 DEF Good
  <2>3. QED
    BY <1>5, <2>1, <2>2
<1>8. CASE Good(TRUE, D, n, s) /\ s.end = 0
  <2>1. Going(TRUE, D, s) /\ s.end = 0 /\ Starts(TRUE)
    BY <1>8 DEF Good, Ready
  <2>2. CASE c \in Openers
    <3>1. r = Push(s, c)
      BY <1>3, <1>4, <1>5, <2>1, <2>2 DEF FindEnd
    <3>2. Going(TRUE, D \cup {x}, Push(s, CharAt(x)))
      BY <1>1, <1>2, <2>1, <2>2, GoPush
    <3>3. QED
      BY <1>1, <1>5, <3>1, <3>2, GoingIsGood
  <2>3. CASE c = "<"
    <3>1. r = OpenAngle(s, line, i)
      BY <1>3, <1>4, <1>5, <2>1, <2>3 DEF FindEnd
    <3>2. c \notin Openers \cup Closers
      BY <1>3, <2>3
    <3>3. r = s \/ r = Push(s, c) \/ (TopIs(s, "<") /\ r = [s EXCEPT !.stack = Front(@)])
      <4>0. i > 1 /\ line[i - 1] = "<" => ~ EndsWithOperator(line, i - 1)
        <5>1. i \in Nat
          BY DEF Ready
        <5>2. i > 1 => i - 1 \in Nat \ {0}
          BY <5>1
        <5>3. QED
          BY <5>2, BehindOperator
      <4>1. CASE i > 1 /\ line[i - 1] = "<"
        <5>1. r = ShiftLeft(s)
          BY <3>1, <4>1, <4>0 DEF OpenAngle
        <5>2. TopIs(s, "<") => Len(s.stack) # 1
          BY <1>2, <2>1, GoPopAngle
        <5>3. QED
          BY <5>1, <5>2 DEF ShiftLeft
      <4>2. CASE ~ (i > 1 /\ line[i - 1] = "<") /\ i > 1 /\ EndsWithOperator(line, i - 1)
        BY <3>1, <4>2 DEF OpenAngle
      <4>3. CASE ~ (i > 1 /\ line[i - 1] = "<") /\ ~ (i > 1 /\ EndsWithOperator(line, i - 1))
        BY <2>3, <3>1, <4>3 DEF OpenAngle
      <4>4. QED
        BY <4>1, <4>2, <4>3
    <3>4. CASE r = s
      <4>1. Going(TRUE, D \cup {x}, s)
        BY <1>1, <2>1, <3>2, GoPass
      <4>2. QED
        BY <1>5, <3>4, <4>1, GoingIsGood
    <3>5. CASE r = Push(s, c)
      <4>1. Going(TRUE, D \cup {x}, Push(s, CharAt(x)))
        BY <1>1, <1>2, <2>1, <2>3, GoPush
      <4>2. QED
        BY <1>1, <1>5, <3>5, <4>1, GoingIsGood
    <3>6. CASE TopIs(s, "<") /\ r = [s EXCEPT !.stack = Front(@)]
      <4>1. Going(TRUE, D, r)
        BY <1>2, <2>1, <3>6, GoPopAngle
      <4>2. Going(TRUE, D \cup {x}, r)
        BY <1>1, <3>2, <4>1, GoPass
      <4>3. QED
        BY <1>5, <4>2, GoingIsGood
    <3>7. QED
      BY <3>3, <3>4, <3>5, <3>6
  <2>4. CASE c \in Closers
    <3>1. r = CloseBracket(s, c, i)
      BY <1>3, <1>4, <1>5, <2>1, <2>4 DEF FindEnd
    <3>2. PICK t : t = DropOperators(s, Angle(TRUE))
      OBVIOUS
    <3>3. /\ Going(TRUE, D, t)
          /\ Fits(TRUE, Last(t.stack), CharAt(x)) => Good(TRUE, D \cup {x}, n, PopAt(t, i))
          /\ ~ Fits(TRUE, Last(t.stack), CharAt(x)) => Good(TRUE, D \cup {x}, n, GiveUp(t))
      <4>1. CharAt(x) \in Closing(TRUE)
        BY <1>1, <1>2, <2>4
      <4>2. QED
        BY <2>1, <3>2, <4>1, GoClose
    <3>4. t.stack # <<>>
      BY <3>3 DEF Going
    <3>5. Last(t.stack) \in Openers
      BY <1>2, <2>1, <3>2, GoDrop
    <3>6. r = IF Fits(TRUE, Last(t.stack), c) THEN PopAt(t, i) ELSE GiveUp(t)
      BY <1>2, <2>4, <3>1, <3>2, <3>4, <3>5 DEF CloseBracket
    <3>7. QED
      BY <1>1, <1>5, <3>3, <3>6
  <2>5. CASE c = ">"
    <3>1. r = CloseAngle(s, line, i)
      BY <1>3, <1>4, <1>5, <2>1, <2>5 DEF FindEnd
    <3>2. r = s \/ (TopIs(s, "<") /\ r = PopAt(s, i))
      BY <3>1 DEF CloseAngle
    <3>3. Going(TRUE, D, r)
      <4>1. CASE r = s
        BY <2>1, <4>1
      <4>2. CASE TopIs(s, "<") /\ r = PopAt(s, i)
        <5>1. Going(TRUE, D, PopAt(s, i))
          BY <1>2, <2>1, <4>2, GoPopAngle
        <5>2. QED
          BY <4>2, <5>1
      <4>3. QED
        BY <3>2, <4>1, <4>2
    <3>4. c \notin Openers \cup Closers
      BY <1>3, <2>5
    <3>5. Going(TRUE, D \cup {x}, r)
      BY <1>1, <3>3, <3>4, GoPass
    <3>6. QED
      BY <1>5, <3>5, GoingIsGood
  <2>6. CASE c = ";"
    <3>1. r = EndStatement(s, "<")
      BY <1>3, <1>4, <1>5, <2>1, <2>6 DEF FindEnd
    <3>2. Going(TRUE, D \cup {x}, EndStatement(s, Angle(TRUE)))
      BY <1>1, <2>1, <2>6, GoEnd
    <3>3. QED
      BY <1>2, <1>5, <3>1, <3>2, GoingIsGood
  <2>7. CASE c \notin Openers \cup Closers \cup {"<", ">", ";"}
    <3>1. r = s
      BY <1>4, <1>5, <2>7 DEF FindEnd
    <3>2. Going(TRUE, D \cup {x}, s)
      BY <1>1, <2>1, <2>7, GoPass
    <3>3. QED
      BY <1>5, <3>1, <3>2, GoingIsGood
  <2>8. QED
    BY <2>2, <2>3, <2>4, <2>5, <2>6, <2>7
<1>9. QED
  BY <1>6, <1>7, <1>8

\* FindStart tells the truth of one place more.
LEMMA BackwardStep ==
  ASSUME NEW D, NEW x, NEW n, NEW i, Ready(FALSE, D, x, n, i), NEW s,
         Going(FALSE, D, s) \/ AtOrigin(D, x, s), NEW line, line[i] = CharAt(x)
  PROVE  Good(FALSE, D \cup {x}, n, FindStart(line, s, i))
<1>1. PICK c : c = CharAt(x)
  OBVIOUS
<1>2. /\ Angle(FALSE) = ">" /\ Opening(FALSE) = Closers /\ Closing(FALSE) = Openers
      /\ \A a, b : Fits(FALSE, a, b) <=> a \in Closers /\ b \in Openers /\ <<b, a>> \in Pairs
  BY DEF Angle, Opening, Closing, Fits
<1>3. /\ \A d \in Openers : d \notin Closers /\ d # "<" /\ d # ">" /\ d # ";"
      /\ \A d \in Closers : d \notin Openers /\ d # "<" /\ d # ">" /\ d # ";"
  BY DEF Openers, Closers
<1>4. line[i] = c /\ FALSE \in BOOLEAN
  BY <1>1
<1>5. PICK r : r = FindStart(line, s, i)
  OBVIOUS
<1>6. CASE c \in Closers
  <2>1. r = Push(s, c)
    BY <1>3, <1>4, <1>5, <1>6 DEF FindStart
  <2>2. Going(FALSE, D, s) \/ (D = {} /\ s = Fresh /\ x = origin)
    BY DEF AtOrigin
  <2>3. CharAt(x) \in Opening(FALSE) \cup {Angle(FALSE)}
    BY <1>1, <1>2, <1>6
  <2>4. Going(FALSE, D \cup {x}, Push(s, CharAt(x)))
    BY <2>2, <2>3, GoPush
  <2>5. QED
    BY <1>1, <1>5, <2>1, <2>4, GoingIsGood
<1>7. CASE c \notin Closers
  <2>1. Going(FALSE, D, s) /\ Starts(FALSE)
    BY <1>1, <1>2, <1>7 DEF AtOrigin, Ready, Starts
  <2>2. CASE c = ">"
    <3>1. r = s \/ r = Push(s, c)
      BY <1>3, <1>4, <1>5, <2>2 DEF FindStart
    <3>2. Going(FALSE, D \cup {x}, s)
      BY <1>1, <1>3, <2>1, <2>2, GoPass
    <3>3. Going(FALSE, D \cup {x}, Push(s, CharAt(x)))
      BY <1>1, <1>2, <2>1, <2>2, GoPush
    <3>4. QED
      BY <1>1, <1>5, <3>1, <3>2, <3>3, GoingIsGood
  <2>3. CASE c = "<"
    <3>1. r = s \/ (TopIs(s, ">") /\ r = PopAt(s, i))
      BY <1>3, <1>4, <1>5, <2>3 DEF FindStart
    <3>2. Going(FALSE, D, r)
      <4>1. CASE r = s
        BY <2>1, <4>1
      <4>2. CASE TopIs(s, ">") /\ r = PopAt(s, i)
        <5>1. Going(FALSE, D, PopAt(s, i))
          BY <1>2, <2>1, <4>2, GoPopAngle
        <5>2. QED
          BY <4>2, <5>1
      <4>3. QED
        BY <3>1, <4>1, <4>2
    <3>3. Going(FALSE, D \cup {x}, r)
      BY <1>1, <1>3, <2>3, <3>2, GoPass
    <3>4. QED
      BY <1>5, <3>3, GoingIsGood
  <2>4. CASE c \in Openers
    <3>1. r = OpenBracket(s, c, i)
      BY <1>3, <1>4, <1>5, <2>4 DEF FindStart
    <3>2. PICK t : t = DropOperators(s, Angle(FALSE))
      OBVIOUS
    <3>3. /\ Going(FALSE, D, t)
          /\ Fits(FALSE, Last(t.stack), CharAt(x)) => Good(FALSE, D \cup {x}, n, PopAt(t, i))
          /\ ~ Fits(FALSE, Last(t.stack), CharAt(x)) => Good(FALSE, D \cup {x}, n, GiveUp(t))
      <4>1. CharAt(x) \in Closing(FALSE)
        BY <1>1, <1>2, <2>4
      <4>2. QED
        BY <2>1, <3>2, <4>1, GoClose
    <3>4. t.stack # <<>>
      BY <3>3 DEF Going
    <3>5. Last(t.stack) \in Closers
      BY <1>2, <2>1, <3>2, GoDrop
    <3>6. r = IF Fits(FALSE, Last(t.stack), c) THEN PopAt(t, i) ELSE GiveUp(t)
      BY <1>2, <2>4, <3>1, <3>2, <3>4, <3>5 DEF OpenBracket
    <3>7. QED
      BY <1>1, <1>5, <3>3, <3>6
  <2>5. CASE c = ";"
    <3>1. r = EndStatement(s, ">")
      BY <1>3, <1>4, <1>5, <2>5 DEF FindStart
    <3>2. Going(FALSE, D \cup {x}, EndStatement(s, Angle(FALSE)))
      BY <1>1, <2>1, <2>5, GoEnd
    <3>3. QED
      BY <1>2, <1>5, <3>1, <3>2, GoingIsGood
  <2>6. CASE c \notin Openers \cup Closers \cup {"<", ">", ";"}
    <3>1. r = s
      BY <1>4, <1>5, <2>6 DEF FindStart
    <3>2. Going(FALSE, D \cup {x}, s)
      BY <1>1, <2>1, <2>6, GoPass
    <3>3. QED
      BY <1>5, <3>1, <3>2, GoingIsGood
  <2>7. QED
    BY <1>7, <2>2, <2>3, <2>4, <2>5, <2>6
<1>8. QED
  BY <1>6, <1>7

\* What is taken along is no bracket.
LEMMA TakenAlong ==
  ASSUME NEW line \in Seq(Characters), NEW i \in Nat \ {0}, TakesAlong(line, i + 1)
  PROVE  line[i] \notin Openers \cup Closers
<1>1. i + 1 > 1 /\ (i + 1) - 1 = i /\ (i + 1) + 2 = i + 3
  OBVIOUS
<1>2. \/ line[i] = "-" \/ GreaterOrEqual(line, i + 1) \/ EndsWithOperator(line, i)
      \/ line[i] = "<"
  BY <1>1 DEF TakesAlong, ArrowOrOperator
<1>3. GreaterOrEqual(line, i + 1) => line[i] = " "
  <2> SUFFICES ASSUME GreaterOrEqual(line, i + 1) PROVE line[i] = " "
    OBVIOUS
  <2>1. i + 3 <= Len(line) /\ SubSeq(line, i, i + 3) = <<" ", ">", "=", " ">>
    BY <1>1 DEF GreaterOrEqual
  <2>2. PICK S, t, N : S = Characters /\ t = SubSeq(line, i, i + 3) /\ N = Len(line)
    OBVIOUS
  <2>3. line \in Seq(S) /\ i \in 1..N /\ i + 3 \in 1..N /\ N \in Nat
    <3>1. line \in Seq(S)
      BY <2>2
    <3>2. N \in Nat
      BY <2>2, <3>1
    <3>3. i + 3 <= N
      BY <2>1, <2>2
    <3>4. QED
      BY <3>1, <3>2, <3>3
  <2>4. t[1] = line[i]
    <3>1. \A j \in 1..4 : t[j] = line[i + j - 1]
      BY <2>2, <2>3
    <3>2. t[1] = line[i + 1 - 1] /\ i + 1 - 1 = i
      BY <3>1
    <3>3. QED
      BY <3>2
  <2>5. t[1] = " "
    <3>1. t = <<" ", ">", "=", " ">>
      BY <2>1, <2>2
    <3>2. QED
      BY <3>1
  <2>6. QED
    BY <2>4, <2>5
<1>4. EndsWithOperator(line, i) => line[i] \in {"operator", " "}
  BY BehindOperator
<1>5. line[i] \in {"-", " ", "operator", "<"}
  BY <1>2, <1>3, <1>4
<1>6. QED
  BY <1>5 DEF Openers, Closers

-----------------------------------------------------------------------------
(* A line                                                                   *)

\* A search through a line has a scan, and may be about to pass over a character.
SearchStep(f, line, v, i) ==
    IF f THEN [scan |-> FindEnd(line, v.scan, i), along |-> FALSE]
    ELSE IF v.along \/ v.scan.end # 0 THEN [scan |-> v.scan, along |-> FALSE]
    ELSE [scan |-> FindStart(line, v.scan, i), along |-> TakesAlong(line, i)]

\* The position that is looked at in the j-th step.
StepPos(f, o, j) == IF f THEN o + j ELSE o - j

\* The first k steps of a search from position o.
Searches(f, line, s, o, k, h) ==
    /\ h = [j \in 0..k |-> h[j]]
    /\ h[0] = [scan |-> s, along |-> FALSE]
    /\ \A j \in 1..k : h[j] = SearchStep(f, line, h[j - 1], StepPos(f, o, j))

\* A step tells the truth of one place more.
LEMMA StepGoes ==
  ASSUME NEW f \in BOOLEAN, LinesAreLines, Starts(f), NEW n \in 1..Len(lines),
         NEW i \in 1..Len(lines[n]), NEW x, x = Position(n, i), ~ Sooner(f, x, origin),
         NEW k, k = IF f THEN i - 1 ELSE i + 1, NEW v, NEW u, u = SearchStep(f, lines[n], v, i),
         Good(f, Read(f, n, k), n, v.scan) \/ (~ v.along /\ AtOrigin(Read(f, n, k), x, v.scan)),
         v.along => ~ f /\ TakesAlong(lines[n], i + 1)
  PROVE  /\ Good(f, Read(f, n, i), n, u.scan)
         /\ u.along => ~ f /\ TakesAlong(lines[n], i)
<1>1. PICK D, line, s : D = Read(f, n, k) /\ line = lines[n] /\ s = v.scan
  OBVIOUS
<1>2. /\ x \in Places /\ CharAt(x) = line[i] /\ CharAt(x) \in Characters /\ i \in Nat \ {0}
  BY <1>1, PositionIs
<1>3. line \in Seq(Characters)
  <2>1. PICK C : C = Seq(Characters)
    OBVIOUS
  <2>2. lines \in Seq(C)
    BY <2>1 DEF LinesAreLines
  <2>3. QED
    BY <1>1, <2>1, <2>2
<1>4. FollowsOn(f, D, x) /\ D \cup {x} = Read(f, n, i)
  <2>1. origin \in Places
    BY DEF Starts
  <2>2. /\ FollowsOn(f, Read(f, n, k), x)
        /\ Read(f, n, k) \cup {x} = Read(f, n, i)
    BY <2>1, ReadOn
  <2>3. QED
    BY <1>1, <2>2
<1>5. Ready(f, D, x, n, i)
  BY <1>2, <1>4 DEF Ready
<1>6. CASE f
  <2>1. u = [scan |-> FindEnd(line, s, i), along |-> FALSE]
    BY <1>1, <1>6 DEF SearchStep
  <2>2. Good(TRUE, D, n, s) \/ AtOrigin(D, x, s)
    BY <1>1, <1>6
  <2>3. Ready(TRUE, D, x, n, i) /\ line[i] = CharAt(x)
    BY <1>2, <1>5, <1>6
  <2>4. Good(TRUE, D \cup {x}, n, FindEnd(line, s, i))
    BY <2>2, <2>3, ForwardStep
  <2>5. u.scan = FindEnd(line, s, i) /\ ~ u.along
    BY <2>1
  <2>6. QED
    BY <1>4, <1>6, <2>4, <2>5
<1>7. CASE ~ f /\ (v.along \/ s.end # 0)
  <2>1. u = [scan |-> s, along |-> FALSE]
    BY <1>1, <1>7 DEF SearchStep
  <2>2. u.scan = s /\ ~ u.along
    BY <2>1
  <2>3. Good(f, D, n, s)
    BY <1>1, <1>7 DEF AtOrigin, Fresh
  <2>4. Good(f, D \cup {x}, n, s)
    <3>1. CASE s.end # 0
      BY <2>3, <3>1 DEF Good
    <3>2. CASE s.end = 0
      <4>1. Going(f, D, s)
        BY <2>3, <3>2 DEF Good
      <4>2. TakesAlong(line, i + 1)
        BY <1>1, <1>7, <3>2
      <4>3. CharAt(x) \notin Openers \cup Closers
        BY <1>2, <1>3, <4>2, TakenAlong
      <4>4. Going(f, D \cup {x}, s)
        BY <1>5, <4>1, <4>3, GoPass
      <4>5. QED
        BY <4>4, GoingIsGood
    <3>3. QED
      BY <3>1, <3>2
  <2>5. QED
    BY <1>4, <2>2, <2>4
<1>8. CASE ~ f /\ ~ v.along /\ s.end = 0
  <2>1. u = [scan |-> FindStart(line, s, i), along |-> TakesAlong(line, i)]
    BY <1>1, <1>8 DEF SearchStep
  <2>2. Going(FALSE, D, s) \/ AtOrigin(D, x, s)
    BY <1>1, <1>8 DEF Good
  <2>3. Ready(FALSE, D, x, n, i) /\ line[i] = CharAt(x)
    BY <1>2, <1>5, <1>8
  <2>4. Good(FALSE, D \cup {x}, n, FindStart(line, s, i))
    BY <2>2, <2>3, BackwardStep
  <2>5. u.scan = FindStart(line, s, i) /\ u.along = TakesAlong(line, i)
    BY <2>1
  <2>6. QED
    BY <1>1, <1>4, <1>8, <2>4, <2>5
<1>9. QED
  BY <1>1, <1>6, <1>7, <1>8

\* At the end of its steps the search tells the truth of all that it has passed.
LEMMA SearchGoes ==
  ASSUME NEW f \in BOOLEAN, LinesAreLines, Starts(f), NEW n \in 1..Len(lines),
         NEW o \in Nat, NEW k \in Nat, NEW s,
         \/ Good(f, Read(f, n, o), n, s)
         \/ k >= 1 /\ AtOrigin(Read(f, n, o), Position(n, StepPos(f, o, 1)), s),
         IF f THEN o + k <= Len(lines[n]) ELSE o <= Len(lines[n]) + 1 /\ o - k >= 1,
         \A j \in 1..k : ~ Sooner(f, Position(n, StepPos(f, o, j)), origin),
         NEW h, Searches(f, lines[n], s, o, k, h)
  PROVE  Good(f, Read(f, n, StepPos(f, o, k)), n, h[k].scan)
<1> DEFINE Told(j) ==
             /\ \/ Good(f, Read(f, n, StepPos(f, o, j)), n, h[j].scan)
                \/ j = 0 /\ k >= 1 /\ ~ h[0].along
                   /\ AtOrigin(Read(f, n, StepPos(f, o, 0)), Position(n, StepPos(f, o, 1)), h[0].scan)
             /\ h[j].along => ~ f /\ TakesAlong(lines[n], StepPos(f, o, j))
           S == {j \in 0..k : Told(j)}
<1>1. /\ h[0] = [scan |-> s, along |-> FALSE]
      /\ \A j \in 1..k : h[j] = SearchStep(f, lines[n], h[j - 1], StepPos(f, o, j))
  BY DEF Searches
<1>2. Len(lines[n]) \in Nat
  <2>1. PICK C : C = Seq(Characters)
    OBVIOUS
  <2>2. lines \in Seq(C)
    BY <2>1 DEF LinesAreLines
  <2>3. lines[n] \in Seq(Characters)
    BY <2>1, <2>2
  <2>4. QED
    BY <2>3
<1>3. 0 \in S
  <2>1. StepPos(f, o, 0) = o
    BY DEF StepPos
  <2>2. h[0].scan = s /\ ~ h[0].along
    BY <1>1
  <2>3. 0 \in 0..k
    OBVIOUS
  <2>4. Told(0)
    BY <2>1, <2>2
  <2>5. QED
    BY <2>3, <2>4
<1>4. ASSUME NEW j \in 0..(k - 1), j \in S PROVE j + 1 \in S
  <2>1. Told(j)
    BY <1>4
  <2> HIDE DEF S, Told
  <2>2. j + 1 \in 1..k /\ j + 1 \in 0..k /\ (j + 1) - 1 = j /\ j \in Nat
    OBVIOUS
  <2>3. PICK i, p, v, u : /\ i = StepPos(f, o, j + 1) /\ p = StepPos(f, o, j) /\ v = h[j] /\ u = h[j + 1]
    OBVIOUS
  <2>4. i \in 1..Len(lines[n]) /\ p = IF f THEN i - 1 ELSE i + 1
    <3>1. CASE f
      BY <1>2, <2>2, <2>3, <3>1 DEF StepPos
    <3>2. CASE ~ f
      <4>1. i = o - (j + 1) /\ p = o - j /\ o <= Len(lines[n]) + 1 /\ o - k >= 1
        BY <2>3, <3>2 DEF StepPos
      <4>2. PICK L : L = Len(lines[n])
        OBVIOUS
      <4>3. i \in 1..L /\ p = i + 1
        BY <1>2, <2>2, <4>1, <4>2
      <4>4. QED
        BY <3>2, <4>2, <4>3
    <3>3. QED
      BY <3>1, <3>2
  <2>5. u = SearchStep(f, lines[n], v, i)
    BY <1>1, <2>2, <2>3
  <2>6. PICK x : x = Position(n, i)
    OBVIOUS
  <2>7. ~ Sooner(f, x, origin)
    BY <2>2, <2>3, <2>6
  <2>8. \/ Good(f, Read(f, n, p), n, v.scan)
        \/ ~ v.along /\ AtOrigin(Read(f, n, p), x, v.scan)
    <3>1. CASE j = 0
      <4>1. 0 + 1 = 1
        OBVIOUS
      <4>2. QED
        BY <2>1, <2>3, <2>6, <3>1, <4>1 DEF Told
    <3>2. CASE j # 0
      BY <2>1, <2>3, <3>2 DEF Told
    <3>3. QED
      BY <3>1, <3>2
  <2>9. v.along => ~ f /\ TakesAlong(lines[n], i + 1)
    BY <2>1, <2>3, <2>4 DEF Told
  <2>10. /\ Good(f, Read(f, n, i), n, u.scan)
         /\ u.along => ~ f /\ TakesAlong(lines[n], i)
    <3>1. PICK q : q = IF f THEN i - 1 ELSE i + 1
      OBVIOUS
    <3>2. \/ Good(f, Read(f, n, q), n, v.scan)
          \/ ~ v.along /\ AtOrigin(Read(f, n, q), x, v.scan)
      BY <2>4, <2>8, <3>1
    <3>3. i \in 1..Len(lines[n])
      BY <2>4
    <3>4. QED
      BY <2>5, <2>6, <2>7, <2>9, <3>1, <3>2, <3>3, StepGoes
  <2>11. Told(j + 1)
    BY <2>3, <2>10 DEF Told
  <2>12. QED
    BY <2>2, <2>11 DEF S
<1>5. k \in S
  <2> HIDE DEF S
  <2>1. \A j \in 0..k : j \in S
    BY <1>3, <1>4, Climb
  <2>2. QED
    BY <2>1
<1>6. QED
  <2>1. Told(k)
    BY <1>5
  <2>2. CASE k = 0
    <3>1. ~ k >= 1
      BY <2>2
    <3>2. QED
      BY <2>1, <3>1
  <2>3. CASE k # 0
    BY <2>1, <2>3
  <2>4. QED
    BY <2>2, <2>3

\* There is a search of any number of steps.
LEMMA SearchExists ==
  ASSUME NEW f, NEW line, NEW s, NEW o, NEW k \in Nat
  PROVE  \E h : Searches(f, line, s, o, k, h)
<1> DEFINE S == {j \in 0..k : \E h : Searches(f, line, s, o, j, h)}
<1>1. 0 \in S
  <2>1. PICK h : h = [j \in 0..0 |-> [scan |-> s, along |-> FALSE]]
    OBVIOUS
  <2>2. h = [j \in 0..0 |-> h[j]] /\ h[0] = [scan |-> s, along |-> FALSE] /\ 1..0 = {}
    BY <2>1
  <2>3. Searches(f, line, s, o, 0, h)
    BY <2>2 DEF Searches
  <2>4. 0 \in 0..k
    OBVIOUS
  <2>5. QED
    BY <2>3, <2>4
<1>2. ASSUME NEW j \in 0..(k - 1), j \in S PROVE j + 1 \in S
  <2>1. PICK h : Searches(f, line, s, o, j, h)
    BY <1>2
  <2>2. PICK g : g = [i \in 0..(j + 1) |-> IF i = j + 1 THEN SearchStep(f, line, h[j], StepPos(f, o, j + 1))
                                          ELSE h[i]]
    OBVIOUS
  <2>3. j \in Nat /\ j + 1 \in 0..k /\ (j + 1) - 1 = j
    OBVIOUS
  <2>4. g = [i \in 0..(j + 1) |-> g[i]]
    BY <2>2
  <2>5. \A i \in 0..j : g[i] = h[i]
    <3>1. \A i \in 0..j : i \in 0..(j + 1) /\ i # j + 1
      BY <2>3
    <3>2. QED
      BY <2>2, <3>1
  <2>6. g[0] = [scan |-> s, along |-> FALSE]
    <3>1. h[0] = [scan |-> s, along |-> FALSE]
      BY <2>1 DEF Searches
    <3>2. 0 \in 0..j
      BY <2>3
    <3>3. QED
      BY <2>5, <3>1, <3>2
  <2>7. ASSUME NEW i \in 1..(j + 1) PROVE g[i] = SearchStep(f, line, g[i - 1], StepPos(f, o, i))
    <3>1. CASE i = j + 1
      <4>1. g[j + 1] = SearchStep(f, line, h[j], StepPos(f, o, j + 1))
        <5>1. j + 1 \in 0..(j + 1)
          BY <2>3
        <5>2. QED
          BY <2>2, <5>1
      <4>2. g[j] = h[j]
        <5>1. j \in 0..j
          BY <2>3
        <5>2. QED
          BY <2>5, <5>1
      <4>3. QED
        BY <2>3, <3>1, <4>1, <4>2
    <3>2. CASE i # j + 1
      <4>1. i \in 1..j /\ i \in 0..j /\ i - 1 \in 0..j
        BY <2>3, <3>2
      <4>2. h[i] = SearchStep(f, line, h[i - 1], StepPos(f, o, i))
        BY <2>1, <4>1 DEF Searches
      <4>3. QED
        BY <2>5, <4>1, <4>2
    <3>3. QED
      BY <3>1, <3>2
  <2>8. Searches(f, line, s, o, j + 1, g)
    BY <2>4, <2>6, <2>7 DEF Searches
  <2>9. QED
    BY <2>3, <2>8
<1>3. k \in S
  <2> HIDE DEF S
  <2>1. \A j \in 0..k : j \in S
    BY <1>1, <1>2, Climb
  <2>2. QED
    BY <2>1
<1>4. QED
  BY <1>3

\* FindEndOfExpressionInLine is such a search.
LEMMA EndIsSearched ==
  ASSUME NEW line \in Seq(Characters), NEW o \in Nat, NEW k \in Nat, o + k = Len(line), NEW s
  PROVE  \E h : /\ Searches(TRUE, line, s, o, k, h)
                /\ FindEndOfExpressionInLine(line, o + 1, s) = h[k].scan
<1> DEFINE Step(after) == [i \in ((o + 1) - 1)..Len(line) |->
                             IF i < o + 1 THEN s ELSE FindEnd(line, after[i - 1], i)]
           g == CHOOSE after : after = Step(after)
<1>1. Len(line) \in Nat /\ (o + 1) - 1 = o
  OBVIOUS
<1>2. \E after : after = Step(after)
  <2>1. PICK h : Searches(TRUE, line, s, o, k, h)
    BY SearchExists
  <2>2. PICK a : a = [i \in o..Len(line) |-> h[i - o].scan]
    OBVIOUS
  <2>3. ASSUME NEW i \in o..Len(line)
        PROVE  a[i] = IF i < o + 1 THEN s ELSE FindEnd(line, a[i - 1], i)
    <3>1. a[i] = h[i - o].scan /\ i \in Nat
      BY <1>1, <2>2
    <3>2. CASE i = o
      <4>1. i < o + 1 /\ i - o = 0
        BY <3>2
      <4>2. h[0] = [scan |-> s, along |-> FALSE]
        BY <2>1 DEF Searches
      <4>3. QED
        BY <3>1, <4>1, <4>2
    <3>3. CASE i # o
      <4>1. /\ ~ i < o + 1 /\ i - o \in 1..k /\ i - 1 \in o..Len(line)
            /\ (i - o) - 1 = (i - 1) - o /\ o + (i - o) = i
        BY <1>1, <3>1, <3>3
      <4>2. h[i - o] = SearchStep(TRUE, line, h[(i - o) - 1], StepPos(TRUE, o, i - o))
        BY <2>1, <4>1 DEF Searches
      <4>3. a[i - 1] = h[(i - 1) - o].scan
        BY <2>2, <4>1
      <4>4. h[i - o].scan = FindEnd(line, h[(i - o) - 1].scan, i)
        BY <4>1, <4>2 DEF SearchStep, StepPos
      <4>5. QED
        BY <3>1, <4>1, <4>3, <4>4
    <3>4. QED
      BY <3>2, <3>3
  <2>4. a = Step(a)
    BY <1>1, <2>2, <2>3
  <2>5. QED
    BY <2>4
<1>3. g = Step(g)
  BY <1>2
<1>4. FindEndOfExpressionInLine(line, o + 1, s) = g[Len(line)]
  BY DEF FindEndOfExpressionInLine
<1>5. \A i \in o..Len(line) : g[i] = IF i < o + 1 THEN s ELSE FindEnd(line, g[i - 1], i)
  BY <1>1, <1>3
<1> HIDE DEF g, Step
<1>6. PICK h : h = [j \in 0..k |-> [scan |-> g[o + j], along |-> FALSE]]
  OBVIOUS
<1>7. \A j \in 0..k : h[j] = [scan |-> g[o + j], along |-> FALSE] /\ h[j].scan = g[o + j]
  BY <1>6
<1>8. h[0] = [scan |-> s, along |-> FALSE]
  <2>1. o \in o..Len(line) /\ o < o + 1 /\ o + 0 = o /\ 0 \in 0..k
    BY <1>1
  <2>2. g[o] = s
    BY <1>5, <2>1
  <2>3. QED
    BY <1>7, <2>1, <2>2
<1>9. ASSUME NEW j \in 1..k PROVE h[j] = SearchStep(TRUE, line, h[j - 1], StepPos(TRUE, o, j))
  <2>1. /\ o + j \in o..Len(line) /\ ~ o + j < o + 1 /\ j \in 0..k /\ j - 1 \in 0..k
        /\ (o + j) - 1 = o + (j - 1)
    BY <1>1
  <2>2. g[o + j] = FindEnd(line, g[o + (j - 1)], o + j)
    BY <1>5, <2>1
  <2>3. h[j] = [scan |-> FindEnd(line, h[j - 1].scan, o + j), along |-> FALSE]
    BY <1>7, <2>1, <2>2
  <2>4. QED
    BY <2>3 DEF SearchStep, StepPos
<1>10. h = [j \in 0..k |-> h[j]]
  BY <1>6
<1>11. Searches(TRUE, line, s, o, k, h)
  BY <1>8, <1>9, <1>10 DEF Searches
<1>12. h[k].scan = g[Len(line)]
  <2>1. k \in 0..k
    OBVIOUS
  <2>2. h[k].scan = g[o + k]
    BY <1>7, <2>1
  <2>3. QED
    BY <2>2
<1>13. QED
  BY <1>4, <1>11, <1>12

\* So is FindStartOfExpressionInLine, the other way.
LEMMA StartIsSearched ==
  ASSUME NEW line, NEW e \in Nat, NEW s
  PROVE  \E h : /\ Searches(FALSE, line, s, e + 1, e, h)
                /\ FindStartOfExpressionInLine(line, e, s) = h[e].scan
<1> DEFINE Step(before) ==
             [i \in 1..(e + 1) |->
                IF i > e THEN [scan |-> s, along |-> FALSE]
                ELSE IF before[i + 1].along \/ before[i + 1].scan.end # 0
                THEN [scan |-> before[i + 1].scan, along |-> FALSE]
                ELSE [scan |-> FindStart(line, before[i + 1].scan, i), along |-> TakesAlong(line, i)]]
           g == CHOOSE before : before = Step(before)
<1>1. \E before : before = Step(before)
  <2>1. PICK h : Searches(FALSE, line, s, e + 1, e, h)
    BY SearchExists
  <2>2. PICK b : b = [i \in 1..(e + 1) |-> h[(e + 1) - i]]
    OBVIOUS
  <2>3. ASSUME NEW i \in 1..(e + 1)
        PROVE  b[i] = IF i > e THEN [scan |-> s, along |-> FALSE]
                      ELSE SearchStep(FALSE, line, b[i + 1], i)
    <3>1. b[i] = h[(e + 1) - i]
      BY <2>2
    <3>2. CASE i = e + 1
      <4>1. i > e /\ (e + 1) - i = 0
        BY <3>2
      <4>2. h[0] = [scan |-> s, along |-> FALSE]
        BY <2>1 DEF Searches
      <4>3. QED
        BY <3>1, <4>1, <4>2
    <3>3. CASE i # e + 1
      <4>1. /\ ~ i > e /\ (e + 1) - i \in 1..e /\ i + 1 \in 1..(e + 1)
            /\ ((e + 1) - i) - 1 = (e + 1) - (i + 1) /\ (e + 1) - ((e + 1) - i) = i
        BY <3>3
      <4>2. h[(e + 1) - i] = SearchStep(FALSE, line, h[((e + 1) - i) - 1], StepPos(FALSE, e + 1, (e + 1) - i))
        BY <2>1, <4>1 DEF Searches
      <4>3. StepPos(FALSE, e + 1, (e + 1) - i) = i
        BY <4>1 DEF StepPos
      <4>4. b[i + 1] = h[(e + 1) - (i + 1)]
        BY <2>2, <4>1
      <4>5. QED
        BY <3>1, <4>1, <4>2, <4>3, <4>4
    <3>4. QED
      BY <3>2, <3>3
  <2>4. \A i \in 1..(e + 1) :
          SearchStep(FALSE, line, b[i + 1], i)
            = IF b[i + 1].along \/ b[i + 1].scan.end # 0
              THEN [scan |-> b[i + 1].scan, along |-> FALSE]
              ELSE [scan |-> FindStart(line, b[i + 1].scan, i), along |-> TakesAlong(line, i)]
    BY DEF SearchStep
  <2>5. b = Step(b)
    BY <2>2, <2>3, <2>4
  <2>6. QED
    BY <2>5
<1>2. g = Step(g)
  BY <1>1
<1>3. FindStartOfExpressionInLine(line, e, s) = g[1].scan
  BY DEF FindStartOfExpressionInLine
<1>4. \A i \in 1..(e + 1) : g[i] = IF i > e THEN [scan |-> s, along |-> FALSE]
                                   ELSE SearchStep(FALSE, line, g[i + 1], i)
  BY <1>2 DEF SearchStep
<1> HIDE DEF g, Step
<1>5. PICK h : h = [j \in 0..e |-> g[(e + 1) - j]]
  OBVIOUS
<1>6. h[0] = [scan |-> s, along |-> FALSE]
  <2>1. e + 1 \in 1..(e + 1) /\ e + 1 > e /\ (e + 1) - 0 = e + 1 /\ 0 \in 0..e
    OBVIOUS
  <2>2. QED
    BY <1>4, <1>5, <2>1
<1>7. ASSUME NEW j \in 1..e PROVE h[j] = SearchStep(FALSE, line, h[j - 1], StepPos(FALSE, e + 1, j))
  <2>1. /\ (e + 1) - j \in 1..(e + 1) /\ ~ (e + 1) - j > e /\ j \in 0..e /\ j - 1 \in 0..e
        /\ ((e + 1) - j) + 1 = (e + 1) - (j - 1)
    OBVIOUS
  <2>2. g[(e + 1) - j] = SearchStep(FALSE, line, g[(e + 1) - (j - 1)], (e + 1) - j)
    BY <1>4, <2>1
  <2>3. h[j] = g[(e + 1) - j] /\ h[j - 1] = g[(e + 1) - (j - 1)]
    BY <1>5, <2>1
  <2>4. QED
    BY <2>2, <2>3 DEF StepPos
<1>8. h = [j \in 0..e |-> h[j]]
  BY <1>5
<1>9. Searches(FALSE, line, s, e + 1, e, h)
  BY <1>6, <1>7, <1>8 DEF Searches
<1>10. h[e] = g[1]
  <2>1. e \in 0..e /\ (e + 1) - e = 1
    OBVIOUS
  <2>2. QED
    BY <1>5, <2>1
<1>11. QED
  BY <1>3, <1>9, <1>10

\* The position at which a line ends for a search.
LineEnd(f, n) == IF f THEN Len(lines[n]) ELSE 1

\* The rest of the line of the origin.
LEMMA OriginLine ==
  ASSUME LinesAreLines, NEW f \in BOOLEAN, Starts(f), NEW s,
         s = IF f THEN FindEndOfExpressionInLine(lines[origin.line], origin.pos, Fresh)
             ELSE FindStartOfExpressionInLine(lines[origin.line], origin.pos, Fresh)
  PROVE  Good(f, Read(f, origin.line, LineEnd(f, origin.line)), origin.line, s)
<1>1. PICK n, i, line, L : n = origin.line /\ i = origin.pos /\ line = lines[n] /\ L = Len(line)
  OBVIOUS
<1>2. /\ origin \in Places /\ origin = Position(n, i) /\ n \in 1..Len(lines) /\ L \in Nat
      /\ i \in 1..L /\ line \in Seq(Characters) /\ n \in Nat /\ i \in Nat
  <2>1. origin \in Places
    BY DEF Starts
  <2>2. /\ origin = Position(origin.line, origin.pos) /\ origin.line \in 1..Len(lines)
        /\ lines[origin.line] \in Seq(Characters) /\ Len(lines[origin.line]) \in Nat
        /\ origin.pos \in 1..Len(lines[origin.line]) /\ origin.line \in Nat /\ origin.pos \in Nat
    BY <2>1, PlaceIs
  <2>3. QED
    BY <1>1, <2>1, <2>2
<1>3. \A j \in 1..L : /\ Position(n, j).line = n /\ Position(n, j).pos = j
  BY DEF Position
<1>4. /\ Read(TRUE, n, i - 1) = {} /\ Read(FALSE, n, i + 1) = {}
  BY <1>1, <1>2, ReadEnds
<1>5. CASE f
  <2>1. PICK o, k : o = i - 1 /\ k = L - o
    OBVIOUS
  <2>2. o \in Nat /\ k \in Nat /\ o + k = Len(line) /\ o + 1 = i /\ k >= 1 /\ o + k = L
    <3>1. i \in Nat /\ i >= 1 /\ i <= L /\ L \in Nat
      BY <1>2
    <3>2. o \in Nat /\ k \in Nat /\ o + k = L /\ o + 1 = i /\ k >= 1
      BY <2>1, <3>1
    <3>3. QED
      BY <1>1, <3>2
  <2>3. PICK h : /\ Searches(TRUE, line, Fresh, o, k, h)
                 /\ FindEndOfExpressionInLine(line, o + 1, Fresh) = h[k].scan
    <3>1. line \in Seq(Characters) /\ o \in Nat /\ k \in Nat /\ o + k = Len(line)
      BY <1>2, <2>2
    <3>2. \A z : \E g : /\ Searches(TRUE, line, z, o, k, g)
                        /\ FindEndOfExpressionInLine(line, o + 1, z) = g[k].scan
      BY <3>1, EndIsSearched
    <3>3. QED
      BY <3>2
  <2>4. h[k].scan = s
    BY <1>1, <1>5, <2>2, <2>3
  <2>5. AtOrigin(Read(f, n, o), Position(n, StepPos(f, o, 1)), Fresh)
    BY <1>2, <1>4, <1>5, <2>1, <2>2 DEF AtOrigin, StepPos
  <2>6. ASSUME NEW j \in 1..k PROVE ~ Sooner(f, Position(n, StepPos(f, o, j)), origin)
    <3>1. StepPos(f, o, j) = o + j /\ o + j \in 1..L /\ o + j >= i
      BY <1>2, <1>5, <2>2 DEF StepPos
    <3>2. PICK q, p : q = o + j /\ p = Position(n, q)
      OBVIOUS
    <3>3. p.line = n /\ p.pos = q /\ q \in Nat /\ q >= i /\ (q = i => p = origin)
      BY <1>2, <1>3, <3>1, <3>2
    <3>4. ~ Sooner(TRUE, p, origin)
      <4>1. /\ p.line = n /\ p.pos = q /\ origin.line = n /\ origin.pos = i
            /\ n \in Nat /\ i \in Nat /\ q \in Nat /\ q >= i
        BY <1>1, <1>2, <3>3
      <4>2. CASE q = i
        BY <3>3, <4>2 DEF Sooner
      <4>3. CASE q # i
        BY <4>1, <4>3 DEF Sooner, Before
      <4>4. QED
        BY <4>2, <4>3
    <3>5. QED
      BY <1>5, <3>1, <3>2, <3>4
  <2>7. Good(f, Read(f, n, StepPos(f, o, k)), n, h[k].scan)
    <3>1. IF f THEN o + k <= Len(lines[n]) ELSE o <= Len(lines[n]) + 1 /\ o - k >= 1
      BY <1>1, <1>2, <1>5, <2>2
    <3>2. Searches(f, lines[n], Fresh, o, k, h)
      BY <1>1, <1>5, <2>3
    <3>3. QED
      BY <1>2, <2>2, <2>5, <2>6, <3>1, <3>2, SearchGoes
  <2>8. StepPos(f, o, k) = LineEnd(f, n)
    BY <1>1, <1>5, <2>2 DEF StepPos, LineEnd
  <2>9. QED
    BY <1>1, <2>4, <2>7, <2>8
<1>6. CASE ~ f
  <2>1. PICK h : /\ Searches(FALSE, line, Fresh, i + 1, i, h)
                 /\ FindStartOfExpressionInLine(line, i, Fresh) = h[i].scan
    BY <1>2, StartIsSearched
  <2>2. h[i].scan = s
    BY <1>1, <1>6, <2>1
  <2>3. PICK o : o = i + 1
    OBVIOUS
  <2>4. o \in Nat /\ i >= 1 /\ o - 1 = i /\ o <= L + 1 /\ o - i = 1
    BY <1>2, <2>3
  <2>5. AtOrigin(Read(f, n, o), Position(n, StepPos(f, o, 1)), Fresh)
    BY <1>2, <1>4, <1>6, <2>3, <2>4 DEF AtOrigin, StepPos
  <2>6. ASSUME NEW j \in 1..i PROVE ~ Sooner(f, Position(n, StepPos(f, o, j)), origin)
    <3>1. StepPos(f, o, j) = o - j /\ o - j \in 1..L /\ o - j <= i
      BY <1>2, <1>6, <2>3 DEF StepPos
    <3>2. PICK q, p : q = o - j /\ p = Position(n, q)
      OBVIOUS
    <3>3. p.line = n /\ p.pos = q /\ q \in Nat /\ q <= i /\ (q = i => p = origin)
      BY <1>2, <1>3, <3>1, <3>2
    <3>4. ~ Sooner(FALSE, p, origin)
      <4>1. /\ p.line = n /\ p.pos = q /\ origin.line = n /\ origin.pos = i
            /\ n \in Nat /\ i \in Nat /\ q \in Nat /\ q <= i
        BY <1>1, <1>2, <3>3
      <4>2. CASE q = i
        BY <3>3, <4>2 DEF Sooner
      <4>3. CASE q # i
        BY <4>1, <4>3 DEF Sooner, Before
      <4>4. QED
        BY <4>2, <4>3
    <3>5. QED
      BY <1>6, <3>1, <3>2, <3>4
  <2>7. Good(f, Read(f, n, StepPos(f, o, i)), n, h[i].scan)
    <3>1. IF f THEN o + i <= Len(lines[n]) ELSE o <= Len(lines[n]) + 1 /\ o - i >= 1
      BY <1>1, <1>6, <2>4
    <3>2. Searches(f, lines[n], Fresh, o, i, h)
      BY <1>1, <1>6, <2>1, <2>3
    <3>3. QED
      BY <1>2, <2>4, <2>5, <2>6, <3>1, <3>2, SearchGoes
  <2>8. StepPos(f, o, i) = LineEnd(f, n)
    BY <1>6, <2>4 DEF StepPos, LineEnd
  <2>9. QED
    BY <1>1, <2>2, <2>7, <2>8
<1>7. QED
  BY <1>5, <1>6

\* A whole line beyond that of the origin.
LEMMA WholeLine ==
  ASSUME LinesAreLines, NEW f \in BOOLEAN, Starts(f), NEW n \in 1..Len(lines),
         IF f THEN n > origin.line ELSE n < origin.line, NEW s,
         Going(f, Read(f, n, IF f THEN 0 ELSE Len(lines[n]) + 1), s), NEW r,
         r = IF f THEN FindEndOfExpressionInLine(lines[n], 1, s)
             ELSE FindStartOfExpressionInLine(lines[n], Len(lines[n]), s)
  PROVE  Good(f, Read(f, n, LineEnd(f, n)), n, r)
<1>1. PICK line, L : line = lines[n] /\ L = Len(line)
  OBVIOUS
<1>2. line \in Seq(Characters) /\ L \in Nat
  <2>1. PICK C : C = Seq(Characters)
    OBVIOUS
  <2>2. lines \in Seq(C)
    BY <2>1 DEF LinesAreLines
  <2>3. line \in Seq(Characters)
    BY <1>1, <2>1, <2>2
  <2>4. QED
    BY <1>1, <2>3
<1>3. Len(lines) \in Nat /\ n \in Nat /\ origin.line \in Nat /\ origin.pos \in Nat
  BY PlaceIs DEF Starts
<1>4. ASSUME NEW i PROVE ~ Sooner(f, Position(n, i), origin)
  <2>1. Position(n, i).line = n
    BY DEF Position
  <2>2. QED
    BY <1>3, <2>1 DEF Sooner, Before
<1>5. CASE f
  <2>1. PICK h : /\ Searches(TRUE, line, s, 0, L, h)
                 /\ FindEndOfExpressionInLine(line, 0 + 1, s) = h[L].scan
    <3>1. PICK z : z = 0
      OBVIOUS
    <3>2. line \in Seq(Characters) /\ z \in Nat /\ L \in Nat /\ z + L = Len(line)
      BY <1>1, <1>2, <3>1
    <3>3. \A q : \E h : /\ Searches(TRUE, line, q, z, L, h)
                        /\ FindEndOfExpressionInLine(line, z + 1, q) = h[L].scan
      BY <3>2, EndIsSearched
    <3>4. QED
      BY <3>1, <3>3
  <2>2. h[L].scan = r
    <3>1. 0 + 1 = 1
      OBVIOUS
    <3>2. QED
      BY <1>1, <1>5, <2>1, <3>1
  <2>3. PICK o : o = 0
    OBVIOUS
  <2>4. Good(f, Read(f, n, o), n, s)
    BY <1>5, <2>3, GoingIsGood
  <2>5. IF f THEN o + L <= Len(lines[n]) ELSE o <= Len(lines[n]) + 1 /\ o - L >= 1
    BY <1>1, <1>2, <1>5, <2>3
  <2>6. Searches(f, lines[n], s, o, L, h) /\ o \in Nat
    BY <1>1, <1>5, <2>1, <2>3
  <2>7. \A j \in 1..L : ~ Sooner(f, Position(n, StepPos(f, o, j)), origin)
    BY <1>4
  <2>8. Good(f, Read(f, n, StepPos(f, o, L)), n, h[L].scan)
    BY <1>2, <2>4, <2>5, <2>6, <2>7, SearchGoes
  <2>9. StepPos(f, o, L) = LineEnd(f, n)
    BY <1>1, <1>2, <1>5, <2>3 DEF StepPos, LineEnd
  <2>10. QED
    BY <2>2, <2>8, <2>9
<1>6. CASE ~ f
  <2>1. PICK h : /\ Searches(FALSE, line, s, L + 1, L, h)
                 /\ FindStartOfExpressionInLine(line, L, s) = h[L].scan
    BY <1>2, StartIsSearched
  <2>2. h[L].scan = r
    BY <1>1, <1>6, <2>1
  <2>3. PICK o : o = L + 1
    OBVIOUS
  <2>4. Good(f, Read(f, n, o), n, s)
    BY <1>1, <1>6, <2>3, GoingIsGood
  <2>5. IF f THEN o + L <= Len(lines[n]) ELSE o <= Len(lines[n]) + 1 /\ o - L >= 1
    <3>1. o = L + 1 /\ o - L = 1 /\ Len(lines[n]) = L
      BY <1>1, <1>2, <2>3
    <3>2. QED
      BY <1>2, <1>6, <3>1
  <2>6. Searches(f, lines[n], s, o, L, h) /\ o \in Nat
    <3>1. o \in Nat
      BY <1>2, <2>3
    <3>2. Searches(FALSE, line, s, o, L, h)
      BY <2>1, <2>3
    <3>3. QED
      BY <1>1, <1>6, <3>1, <3>2
  <2>7. \A j \in 1..L : ~ Sooner(f, Position(n, StepPos(f, o, j)), origin)
    BY <1>4
  <2>8. Good(f, Read(f, n, StepPos(f, o, L)), n, h[L].scan)
    BY <1>2, <2>4, <2>5, <2>6, <2>7, SearchGoes
  <2>9. StepPos(f, o, L) = LineEnd(f, n)
    BY <1>2, <1>6, <2>3 DEF StepPos, LineEnd
  <2>10. QED
    BY <2>2, <2>8, <2>9
<1>7. QED
  BY <1>5, <1>6

-----------------------------------------------------------------------------
(* The searches                                                             *)

\* The search from the origin stands at the end of line c.
Stands(f, c, s) ==
    /\ Starts(f) /\ c \in 1..Len(lines)
    /\ IF f THEN c >= origin.line ELSE c <= origin.line
    /\ Good(f, Read(f, c, LineEnd(f, c)), c, s)

SearchInv ==
    /\ lines \in Files /\ origin \in Places /\ forward \in BOOLEAN
    /\ \E S : found \in Seq(S)
    /\ found = <<>> => forward = (CharAt(origin) \in Openers \cup {"<"})
    /\ CharAt(origin) \in Openers \cup Closers =>
         /\ found = <<>> /\ phase = "scan" => Stands(forward, current, scan)
         /\ found = <<>> /\ phase = "over" => Hopeless
         /\ found # <<>> => Match(found[1])

\* The file is made of lines of characters.
LEMMA FilesHaveLines ==
  ASSUME lines \in Files
  PROVE  LinesAreLines
BY FilesAssumption DEF LinesAreLines

\* The first search goes the way its bracket opens.
LEMMA OriginStarts ==
  ASSUME origin \in Places, forward = (CharAt(origin) \in Openers \cup {"<"}),
         CharAt(origin) \in Openers \cup Closers
  PROVE  Starts(forward)
<1>1. "<" \notin Closers /\ "<" \notin Openers /\ \A c \in Openers : c \notin Closers
  BY DEF Openers, Closers
<1>2. CASE CharAt(origin) \in Openers
  BY <1>2 DEF Starts, Opening
<1>3. CASE CharAt(origin) \notin Openers
  BY <1>1, <1>3 DEF Starts, Opening
<1>4. QED
  BY <1>2, <1>3

\* What is said of the file and the origin stays said while they stay.
LEMMA SameText ==
  ASSUME lines' = lines, origin' = origin
  PROVE  /\ Places' = Places
         /\ \A p : CharAt(p)' = CharAt(p)
         /\ \A P : Brackets(P)' = Brackets(P)
         /\ Hopeless' <=> Hopeless
         /\ \A p : Match(p)' <=> Match(p)
<1>1. Places' = Places
  BY DEF Places
<1>2. \A p : CharAt(p)' = CharAt(p)
  BY DEF CharAt
<1>3. \A P : Brackets(P)' = Brackets(P)
  BY <1>2 DEF Brackets
<1>4. \A p, q : Between(p, q)' = Between(p, q)
  BY <1>1 DEF Between, Before
<1>5. \A p, q : Stretch(p, q)' = Stretch(p, q)
  BY <1>4 DEF Stretch
<1>6. \A P, m : Pairing(P, m)' <=> Pairing(P, m)
  BY <1>2 DEF Pairing, Before
<1>7. \A P : Balanced(P)' <=> Balanced(P)
  BY <1>6 DEF Balanced
<1>8. \A p, q : Matches(p, q)' <=> Matches(p, q)
  BY <1>3, <1>5, <1>7 DEF Matches
<1>9. \A p : Beyond(p)' = Beyond(p)
  BY <1>1, <1>2 DEF Beyond, Before
<1>10. Hopeless' <=> Hopeless
  BY <1>8, <1>9 DEF Hopeless
<1>11. \A p, S : Nearest(p, S)' = Nearest(p, S)
  BY <1>5 DEF Nearest
<1>12. {q \in Beyond(origin) : Matches(origin, q)}' = {q \in Beyond(origin) : Matches(origin, q)}
  BY <1>8, <1>9
<1>13. \A p : Match(p)' <=> Match(p)
  BY <1>11, <1>12 DEF Match
<1>14. QED
  BY <1>1, <1>2, <1>3, <1>10, <1>13

\* The same for what a search has come to.
LEMMA SameStand ==
  ASSUME lines' = lines, origin' = origin
  PROVE  \A f, c, s : Stands(f, c, s)' <=> Stands(f, c, s)
<1>1. /\ Places' = Places
      /\ \A p : CharAt(p)' = CharAt(p)
      /\ \A P : Brackets(P)' = Brackets(P)
      /\ Hopeless' <=> Hopeless
      /\ \A p : Match(p)' <=> Match(p)
  BY SameText
<1>2. \A f, n, i : Read(f, n, i)' = Read(f, n, i)
  BY <1>1 DEF Read, Sooner, Before
<1>3. \A f, P, m : Paired(f, P, m)' <=> Paired(f, P, m)
  BY <1>1 DEF Paired, Sooner, Before, Opening, Closing, Fits
<1>4. \A f, D, st, w, M, m : WaitsBy(f, D, st, w, M, m)' <=> WaitsBy(f, D, st, w, M, m)
  BY <1>1, <1>3 DEF WaitsBy, Sooner, Before, Opening, Angle
<1>5. \A f, D, st : Waits(f, D, st)' <=> Waits(f, D, st)
  BY <1>4 DEF Waits
<1>6. \A f, D, s : Going(f, D, s)' <=> Going(f, D, s)
  BY <1>5 DEF Going, IsScan
<1>7. \A f, D, n, s : Good(f, D, n, s)' <=> Good(f, D, n, s)
  BY <1>1, <1>6 DEF Good, IsScan, Position
<1>8. \A f : Starts(f)' <=> Starts(f)
  BY <1>1 DEF Starts, Opening
<1>9. \A f, c : LineEnd(f, c)' = LineEnd(f, c)
  BY DEF LineEnd
<1>10. \A f, c, s : Good(f, Read(f, c, LineEnd(f, c)), c, s)' <=> Good(f, Read(f, c, LineEnd(f, c)), c, s)
  BY <1>2, <1>7, <1>9
<1>11. QED
  BY <1>8, <1>10 DEF Stands

\* At first nothing has been searched.
LEMMA SearchStarts ==
  ASSUME SearchInit
  PROVE  SearchInv
<1>1. PICK n \in DOMAIN lines : \E i \in DOMAIN lines[n] :
         /\ origin = Position(n, i) /\ forward = (lines[n][i] \in Openers \cup {"<"})
  BY DEF SearchInit
<1>2. PICK i \in DOMAIN lines[n] :
         /\ origin = Position(n, i) /\ forward = (lines[n][i] \in Openers \cup {"<"})
  BY <1>1
<1>3. lines \in Files /\ found = <<>> /\ phase = "start"
  BY DEF SearchInit
<1>4. origin \in Places
  BY <1>2 DEF Places
<1>5. CharAt(origin) = lines[n][i]
  BY <1>2 DEF CharAt, Position
<1>6. \E S : found \in Seq(S)
  <2>1. found \in Seq({})
    BY <1>3, EmptySeq
  <2>2. QED
    BY <2>1
<1>7. forward \in BOOLEAN
  BY <1>2
<1>8. QED
  BY <1>2, <1>3, <1>4, <1>5, <1>6, <1>7 DEF SearchInv

\* What a step does not touch.
LEMMA SearchStays ==
  ASSUME SearchInv, lines' = lines, origin' = origin, found' = found, forward' = forward,
         CharAt(origin) \in Openers \cup Closers /\ found = <<>> /\ phase' = "scan"
           => Stands(forward, current', scan'),
         CharAt(origin) \in Openers \cup Closers /\ found = <<>> /\ phase' = "over" => Hopeless
  PROVE  SearchInv'
<1>1. /\ Places' = Places
      /\ \A p : CharAt(p)' = CharAt(p)
      /\ Hopeless' <=> Hopeless
      /\ \A p : Match(p)' <=> Match(p)
  BY SameText
<1>2. \A f, c, s : Stands(f, c, s)' <=> Stands(f, c, s)
  BY SameStand
<1>3. lines' \in Files /\ (origin \in Places)' /\ (\E S : found \in Seq(S))' /\ forward' \in BOOLEAN
  BY <1>1 DEF SearchInv
<1>4. CharAt(origin)' = CharAt(origin)
  BY <1>1
<1>5. (found = <<>> => forward = (CharAt(origin) \in Openers \cup {"<"}))'
  BY <1>4 DEF SearchInv
<1>6. CharAt(origin) \in Openers \cup Closers /\ found = <<>> /\ phase' = "scan"
        => Stands(forward, current, scan)'
  BY <1>2
<1>7. CharAt(origin) \in Openers \cup Closers /\ found # <<>> => Match(found[1])'
  BY <1>1 DEF SearchInv
<1>8. QED
  BY <1>1, <1>3, <1>4, <1>5, <1>6, <1>7 DEF SearchInv

\* A search begins at the end of its first line.
LEMMA BeginKeeps ==
  ASSUME SearchInv, BeginSearch
  PROVE  SearchInv'
<1>1. /\ lines' = lines /\ origin' = origin /\ found' = found /\ forward' = forward
      /\ phase' = "scan" /\ current' = Target.line
      /\ scan' = IF forward THEN FindEndOfExpressionInLine(lines[current'], Target.pos, Fresh)
                 ELSE FindStartOfExpressionInLine(lines[current'], Target.pos, Fresh)
  BY DEF BeginSearch
<1>2. ASSUME CharAt(origin) \in Openers \cup Closers, found = <<>>
      PROVE  Stands(forward, current', scan')
  <2>1. LinesAreLines /\ origin \in Places /\ forward \in BOOLEAN /\ Starts(forward)
    BY <1>2, FilesHaveLines, OriginStarts DEF SearchInv
  <2>2. Target = origin
    BY <1>2 DEF Target
  <2>3. PICK f, c, s : f = forward /\ c = current' /\ s = scan'
    OBVIOUS
  <2>4. c = origin.line
    BY <1>1, <2>2, <2>3
  <2>5. s = IF f THEN FindEndOfExpressionInLine(lines[origin.line], origin.pos, Fresh)
            ELSE FindStartOfExpressionInLine(lines[origin.line], origin.pos, Fresh)
    BY <1>1, <2>2, <2>3, <2>4
  <2>6. f \in BOOLEAN /\ Starts(f)
    BY <2>1, <2>3
  <2>7. Good(f, Read(f, origin.line, LineEnd(f, origin.line)), origin.line, s)
    BY <2>1, <2>5, <2>6, OriginLine
  <2>8. origin.line \in 1..Len(lines) /\ origin.line \in Nat
    BY <2>1, PlaceIs
  <2>9. Stands(f, c, s)
    BY <2>4, <2>6, <2>7, <2>8 DEF Stands
  <2>10. QED
    BY <2>3, <2>9
<1>3. phase' # "over"
  BY <1>1
<1>4. QED
  BY <1>1, <1>2, <1>3, SearchStays

\* A search forward goes on with the whole next line.
LEMMA NextKeeps ==
  ASSUME SearchInv, NextLine
  PROVE  SearchInv'
<1>1. /\ lines' = lines /\ origin' = origin /\ found' = found /\ forward' = forward
      /\ phase' = phase /\ current' = current + 1 /\ current < Len(lines)
      /\ scan' = FindEndOfExpressionInLine(lines[current'], 1, scan)
      /\ phase = "scan" /\ scan.end = 0 /\ forward
  BY DEF NextLine, GoesOn
<1>2. ASSUME CharAt(origin) \in Openers \cup Closers, found = <<>>
      PROVE  Stands(forward, current', scan')
  <2>1. LinesAreLines /\ origin \in Places /\ Stands(forward, current, scan)
    BY <1>1, <1>2, FilesHaveLines DEF SearchInv
  <2>2. PICK c, s, r : c = current /\ s = scan /\ r = scan'
    OBVIOUS
  <2>3. Stands(TRUE, c, s)
    <3>1. forward = TRUE
      BY <1>1 DEF SearchInv
    <3>2. QED
      BY <2>1, <2>2, <3>1
  <2>4. /\ Starts(TRUE) /\ c \in 1..Len(lines) /\ c >= origin.line
        /\ Good(TRUE, Read(TRUE, c, LineEnd(TRUE, c)), c, s)
    BY <2>3 DEF Stands
  <2>5. Len(lines) \in Nat /\ origin.line \in Nat
    BY <2>1, PlaceIs
  <2>6. PICK n : n = c + 1
    OBVIOUS
  <2>7. n \in 1..Len(lines) /\ n > origin.line /\ c \in Nat /\ c < Len(lines)
    BY <1>1, <2>2, <2>4, <2>5, <2>6
  <2>8. Read(TRUE, c, Len(lines[c])) = Read(TRUE, n, 0)
    BY <2>1, <2>6, <2>7, ReadEnds
  <2>9. Going(TRUE, Read(TRUE, c, Len(lines[c])), s)
    BY <1>1, <2>2, <2>4 DEF Good, LineEnd
  <2>10. r = FindEndOfExpressionInLine(lines[n], 1, s)
    BY <1>1, <2>2, <2>6
  <2>11. Good(TRUE, Read(TRUE, n, LineEnd(TRUE, n)), n, r)
    <3>1. PICK f : f = TRUE
      OBVIOUS
    <3>2. IF f THEN n > origin.line ELSE n < origin.line
      BY <2>7, <3>1
    <3>3. Going(f, Read(f, n, IF f THEN 0 ELSE Len(lines[n]) + 1), s)
      BY <2>8, <2>9, <3>1
    <3>4. r = IF f THEN FindEndOfExpressionInLine(lines[n], 1, s)
              ELSE FindStartOfExpressionInLine(lines[n], Len(lines[n]), s)
      BY <2>10, <3>1
    <3>5. f \in BOOLEAN /\ Starts(f)
      BY <2>4, <3>1
    <3>6. Good(f, Read(f, n, LineEnd(f, n)), n, r)
      BY <2>1, <2>7, <3>2, <3>3, <3>4, <3>5, WholeLine
    <3>7. QED
      BY <3>1, <3>6
  <2>12. Stands(TRUE, n, r)
    <3>1. n >= origin.line
      BY <2>5, <2>7
    <3>2. PICK f : f = TRUE
      OBVIOUS
    <3>3. /\ Starts(f) /\ n \in 1..Len(lines) /\ n >= origin.line
          /\ Good(f, Read(f, n, LineEnd(f, n)), n, r)
      BY <2>4, <2>7, <2>11, <3>1, <3>2
    <3>4. Stands(f, n, r)
      BY <3>2, <3>3 DEF Stands
    <3>5. QED
      BY <3>2, <3>4
  <2>13. forward = TRUE /\ current' = n
    BY <1>1, <2>2, <2>6 DEF SearchInv
  <2>14. QED
    BY <2>2, <2>12, <2>13
<1>3. phase' # "over"
  BY <1>1
<1>4. QED
  BY <1>1, <1>2, <1>3, SearchStays

\* A search backwards goes on with the whole line in front.
LEMMA PreviousKeeps ==
  ASSUME SearchInv, PreviousLine
  PROVE  SearchInv'
<1>1. /\ lines' = lines /\ origin' = origin /\ found' = found /\ forward' = forward
      /\ phase' = phase /\ current' = current - 1 /\ current > 1
      /\ scan' = FindStartOfExpressionInLine(lines[current'], Len(lines[current']), scan)
      /\ phase = "scan" /\ scan.end = 0 /\ ~ forward
  BY DEF PreviousLine, GoesOn
<1>2. ASSUME CharAt(origin) \in Openers \cup Closers, found = <<>>
      PROVE  Stands(forward, current', scan')
  <2>1. LinesAreLines /\ origin \in Places /\ Stands(forward, current, scan)
    BY <1>1, <1>2, FilesHaveLines DEF SearchInv
  <2>2. PICK c, s, r : c = current /\ s = scan /\ r = scan'
    OBVIOUS
  <2>3. Stands(FALSE, c, s)
    <3>1. forward = FALSE
      BY <1>1 DEF SearchInv
    <3>2. QED
      BY <2>1, <2>2, <3>1
  <2>4. /\ Starts(FALSE) /\ c \in 1..Len(lines) /\ c <= origin.line
        /\ Good(FALSE, Read(FALSE, c, LineEnd(FALSE, c)), c, s)
    BY <2>3 DEF Stands
  <2>5. Len(lines) \in Nat /\ origin.line \in Nat
    BY <2>1, PlaceIs
  <2>6. PICK n : n = c - 1
    OBVIOUS
  <2>7. n \in 1..Len(lines) /\ n < origin.line /\ c \in Nat
    BY <1>1, <2>2, <2>4, <2>5, <2>6
  <2>8. Read(FALSE, c, 1) = Read(FALSE, n, Len(lines[n]) + 1)
    BY <2>1, <2>4, <2>6, ReadEnds
  <2>9. Going(FALSE, Read(FALSE, c, 1), s)
    BY <1>1, <2>2, <2>4 DEF Good, LineEnd
  <2>10. r = FindStartOfExpressionInLine(lines[n], Len(lines[n]), s)
    BY <1>1, <2>2, <2>6
  <2>11. Good(FALSE, Read(FALSE, n, LineEnd(FALSE, n)), n, r)
    <3>1. PICK f : f = FALSE
      OBVIOUS
    <3>2. IF f THEN n > origin.line ELSE n < origin.line
      BY <2>7, <3>1
    <3>3. Going(f, Read(f, n, IF f THEN 0 ELSE Len(lines[n]) + 1), s)
      BY <2>8, <2>9, <3>1
    <3>4. r = IF f THEN FindEndOfExpressionInLine(lines[n], 1, s)
              ELSE FindStartOfExpressionInLine(lines[n], Len(lines[n]), s)
      BY <2>10, <3>1
    <3>5. f \in BOOLEAN /\ Starts(f)
      BY <2>4, <3>1
    <3>6. Good(f, Read(f, n, LineEnd(f, n)), n, r)
      BY <2>1, <2>7, <3>2, <3>3, <3>4, <3>5, WholeLine
    <3>7. QED
      BY <3>1, <3>6
  <2>12. Stands(FALSE, n, r)
    <3>1. n <= origin.line
      BY <2>5, <2>7
    <3>2. PICK f : f = FALSE
      OBVIOUS
    <3>3. /\ Starts(f) /\ n \in 1..Len(lines) /\ n <= origin.line
          /\ Good(f, Read(f, n, LineEnd(f, n)), n, r)
      BY <2>4, <2>7, <2>11, <3>1, <3>2
    <3>4. Stands(f, n, r)
      BY <3>2, <3>3 DEF Stands
    <3>5. QED
      BY <3>2, <3>4
  <2>13. forward = FALSE /\ current' = n
    BY <1>1, <2>2, <2>6 DEF SearchInv
  <2>14. QED
    BY <2>2, <2>12, <2>13
<1>3. phase' # "over"
  BY <1>1
<1>4. QED
  BY <1>1, <1>2, <1>3, SearchStays

\* What the first search finds is the match.
LEMMA FindKeeps ==
  ASSUME SearchInv, Find
  PROVE  SearchInv'
<1>1. /\ lines' = lines /\ origin' = origin /\ forward' = ~ forward
      /\ phase = "scan" /\ scan.end > 0 /\ found' = Append(found, Position(current, scan.end))
  BY DEF Find
<1>2. PICK S : found \in Seq(S)
  BY DEF SearchInv
<1>3. PICK b, p : b = found /\ p = Position(current, scan.end)
  OBVIOUS
<1>4. PICK g : g = Append(b, p)
  OBVIOUS
<1>5. PICK R : R = S \cup {p}
  OBVIOUS
<1>6. /\ b \in Seq(R) /\ p \in R /\ Len(b) \in Nat
  <2>1. b \in Seq(S)
    BY <1>2, <1>3
  <2>2. S \subseteq R /\ p \in R
    BY <1>5
  <2>3. QED
    BY <2>1, <2>2
<1>7. g \in Seq(R) /\ Len(g) = Len(b) + 1 /\ g # <<>>
  <2>1. g \in Seq(R) /\ Len(g) = Len(b) + 1
    BY <1>4, <1>6
  <2>2. Len(g) # 0
    BY <1>6, <2>1
  <2>3. QED
    BY <2>1, <2>2, EmptySeq
<1>8. IF b = <<>> THEN g[1] = p ELSE g[1] = b[1]
  <2>1. CASE b = <<>>
    <3>1. Len(b) = 0
      BY <2>1, EmptySeq
    <3>2. QED
      BY <1>4, <1>6, <2>1, <3>1
  <2>2. CASE b # <<>>
    <3>1. Len(b) # 0
      BY <1>6, <2>2, EmptySeq
    <3>2. 1 \in 1..Len(b)
      BY <1>6, <3>1
    <3>3. QED
      BY <1>4, <1>6, <2>2, <3>2
  <2>3. QED
    BY <2>1, <2>2
<1>9. ASSUME CharAt(origin) \in Openers \cup Closers PROVE Match(g[1])
  <2>1. CASE b = <<>>
    <3>1. Stands(forward, current, scan)
      BY <1>1, <1>3, <1>9, <2>1 DEF SearchInv
    <3>2. Match(Position(current, scan.end))
      BY <1>1, <3>1 DEF Stands, Good
    <3>3. QED
      BY <1>3, <1>8, <2>1, <3>2
  <2>2. CASE b # <<>>
    <3>1. Match(b[1])
      BY <1>3, <1>9, <2>2 DEF SearchInv
    <3>2. QED
      BY <1>8, <2>2, <3>1
  <2>3. QED
    BY <2>1, <2>2
<1>10. /\ Places' = Places
       /\ \A q : CharAt(q)' = CharAt(q)
       /\ \A q : Match(q)' <=> Match(q)
  BY <1>1, SameText
<1>11. found' = g /\ CharAt(origin)' = CharAt(origin)
  BY <1>1, <1>3, <1>4, <1>10
<1>12. lines' \in Files /\ (origin \in Places)' /\ (\E A : found \in Seq(A))' /\ forward' \in BOOLEAN
  BY <1>1, <1>7, <1>10, <1>11 DEF SearchInv
<1>13. CharAt(origin) \in Openers \cup Closers => Match(found[1])'
  BY <1>9, <1>10, <1>11
<1>14. QED
  BY <1>7, <1>11, <1>12, <1>13 DEF SearchInv

\* A search that finds nothing has read all there is, or met a bracket that does not fit.
LEMMA NotFoundKeeps ==
  ASSUME SearchInv, NotFound
  PROVE  SearchInv'
<1>1. /\ lines' = lines /\ origin' = origin /\ found' = found /\ forward' = forward
      /\ phase' = "over"
  BY DEF NotFound
<1>2. ASSUME CharAt(origin) \in Openers \cup Closers, found = <<>> PROVE Hopeless
  <2>1. LinesAreLines /\ origin \in Places /\ forward \in BOOLEAN /\ Starts(forward)
    BY <1>2, FilesHaveLines, OriginStarts DEF SearchInv
  <2>2. Pointed
    <3>1. Target = origin
      BY <1>2 DEF Target
    <3>2. CASE forward
      <4>1. CharAt(origin) \in Openers
        BY <2>1, <3>2 DEF Starts, Opening
      <4>2. CharAt(origin) # "<"
        BY <4>1 DEF Openers
      <4>3. QED
        BY <3>1, <3>2, <4>1, <4>2 DEF Pointed, OpensAt
    <3>3. CASE ~ forward
      <4>1. CharAt(origin) \in Closers
        BY <2>1, <3>3 DEF Starts, Opening
      <4>2. QED
        BY <3>1, <3>3, <4>1 DEF Pointed
    <3>4. QED
      BY <3>2, <3>3
  <2>3. /\ phase = "scan" /\ scan.end <= 0
        /\ ~ (GoesOn /\ current # (IF forward THEN Len(lines) ELSE 1))
    BY <2>2 DEF NotFound
  <2>4. Stands(forward, current, scan)
    BY <1>2, <2>3 DEF SearchInv
  <2>5. PICK f, c, s : f = forward /\ c = current /\ s = scan
    OBVIOUS
  <2>6. Good(f, Read(f, c, LineEnd(f, c)), c, s) /\ Starts(f) /\ f \in BOOLEAN
    BY <2>1, <2>4, <2>5 DEF Stands
  <2>7. CASE s.end # 0
    <3>1. s.end \in Int /\ s.end >= GivenUp /\ s.end <= 0
      BY <2>3, <2>5, <2>6 DEF Good, IsScan
    <3>2. s.end = GivenUp
      BY <2>7, <3>1 DEF GivenUp
    <3>3. QED
      BY <2>6, <3>2 DEF Good
  <2>8. CASE s.end = 0
    <3>1. Going(f, Read(f, c, LineEnd(f, c)), s)
      BY <2>6, <2>8 DEF Good
    <3>2. GoesOn
      BY <2>3, <2>5, <2>8, <3>1 DEF Going, GoesOn
    <3>3. c = IF f THEN Len(lines) ELSE 1
      BY <2>3, <2>5, <3>2
    <3>4. PICK D, st : D = Read(f, c, LineEnd(f, c)) /\ st = s.stack
      OBVIOUS
    <3>5. st # <<>> /\ Waits(f, D, st)
      BY <3>1, <3>4 DEF Going
    <3>6. \A q \in Beyond(origin) : q \in D
      <4> TAKE q \in Beyond(origin)
      <4>1. q \in IF f THEN Read(TRUE, Len(lines), Len(lines[Len(lines)])) ELSE Read(FALSE, 1, 1)
        BY <2>1, <2>6, AllIsRead
      <4>2. CASE f
        BY <3>3, <3>4, <4>1, <4>2 DEF LineEnd
      <4>3. CASE ~ f
        <5>1. f = FALSE
          BY <2>6, <4>3
        <5>2. c = 1 /\ LineEnd(f, c) = 1
          BY <3>3, <4>3 DEF LineEnd
        <5>3. q \in Read(FALSE, 1, 1)
          BY <4>1, <5>1
        <5>4. QED
          BY <3>4, <5>1, <5>2, <5>3
      <4>4. QED
        BY <4>2, <4>3
    <3>7. Prefix(f, D)
      <4>1. c \in 1..Len(lines) /\ Len(lines) \in Nat /\ c \in Int
        BY <2>1, <2>4, <2>5, PlaceIs DEF Stands
      <4>2. LineEnd(f, c) \in Int
        <5>1. PICK C : C = Seq(Characters)
          OBVIOUS
        <5>2. lines \in Seq(C)
          BY <2>1, <5>1 DEF LinesAreLines
        <5>3. lines[c] \in Seq(Characters)
          BY <4>1, <5>1, <5>2
        <5>4. QED
          BY <5>3 DEF LineEnd
      <4>3. QED
        BY <2>1, <2>6, <3>4, <4>1, <4>2, ReadIsPrefix
    <3>8. \A q \in Beyond(origin) : ~ Matches(origin, q)
      BY <2>1, <2>6, <3>5, <3>6, <3>7, NoMatchYet
    <3>9. QED
      BY <3>8 DEF Hopeless
  <2>9. QED
    BY <2>7, <2>8
<1>3. phase' # "scan"
  BY <1>1
<1>4. QED
  BY <1>1, <1>2, <1>3, SearchStays

\* A parenthesis, brace or square bracket is matched by the nearest one with which the
\* text between is balanced, and by none if there is none.
THEOREM BracketsAreMatched == SearchSpec => []BracketsMatch
<1>1. SearchInit => SearchInv
  BY SearchStarts
<1>2. SearchInv /\ [SearchNext]_searchVars => SearchInv'
  <2> SUFFICES ASSUME SearchInv, [SearchNext]_searchVars PROVE SearchInv'
    OBVIOUS
  <2>1. CASE BeginSearch
    BY <2>1, BeginKeeps
  <2>2. CASE NextLine
    BY <2>2, NextKeeps
  <2>3. CASE PreviousLine
    BY <2>3, PreviousKeeps
  <2>4. CASE Find
    BY <2>4, FindKeeps
  <2>5. CASE NotFound
    BY <2>5, NotFoundKeeps
  <2>6. CASE UNCHANGED searchVars
    <3>1. /\ lines' = lines /\ origin' = origin /\ found' = found /\ forward' = forward
          /\ phase' = phase /\ current' = current /\ scan' = scan
      BY <2>6 DEF searchVars
    <3>2. /\ CharAt(origin) \in Openers \cup Closers /\ found = <<>> /\ phase' = "scan"
               => Stands(forward, current', scan')
          /\ CharAt(origin) \in Openers \cup Closers /\ found = <<>> /\ phase' = "over" => Hopeless
      BY <3>1 DEF SearchInv
    <3>3. QED
      BY <3>1, <3>2, SearchStays
  <2>7. QED
    BY <2>1, <2>2, <2>3, <2>4, <2>5, <2>6 DEF SearchNext
<1>3. SearchInv => BracketsMatch
  BY DEF SearchInv, BracketsMatch, Hopeless, Match
<1>4. QED
  BY <1>1, <1>2, <1>3, PTL DEF SearchSpec
=============================================================================
