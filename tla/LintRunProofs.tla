---------------------------- MODULE LintRunProofs ----------------------------
(***************************************************************************)
(* A run of cpplint.py for every sequence of files, command line, layout of*)
(* the configurations and text: the statistics add up to the number that   *)
(* decides the exit status, and every problem is judged as if its file were*)
(* the only one.                                                           *)
(*                                                                         *)
(* The model folds over sets and sequences with the operators of the       *)
(* community modules.  These are recursive functions over subsets, so what a*)
(* fold computes is proved from the existence of a function with the same  *)
(* recursion, without an induction principle.                              *)
(***************************************************************************)
EXTENDS LintRunReference, FiniteSetTheorems, WellFoundedInduction, TLAPS

-----------------------------------------------------------------------------
(* Folds over finite sets.  An induction is the search for a smallest      *)
(* counterexample, which a finite set of sets has.                         *)

\* The element that a fold over a set takes next.
Pick(s) == CHOOSE x \in s : TRUE

\* The smallest of a set of numbers.
LEMMA NoFirst ==
  ASSUME NEW I \in SUBSET Nat, \A i \in I : \E j \in I : j < i
  PROVE  I = {}
<1>1. SUFFICES ASSUME I # {} PROVE FALSE
  OBVIOUS
<1>2. PICK i \in I : \A j \in I : ~ (<<j, i>> \in OpToRel(<, Nat))
  BY <1>1, WFMin, NatLessThanWellFounded
<1>3. PICK j \in I : j < i
  OBVIOUS
<1>4. <<j, i>> \in OpToRel(<, Nat)
  BY <1>3 DEF OpToRel
<1>5. QED
  BY <1>2, <1>4

\* A set of finite sets that has a smaller one for each of its own is empty.
LEMMA NoSmallest ==
  ASSUME NEW S, IsFiniteSet(S), NEW D \in SUBSET SUBSET S,
         \A s \in D : \E t \in D : t \subseteq s /\ t # s
  PROVE  D = {}
<1> DEFINE I == {Cardinality(s) : s \in D}
<1>1. \A s \in D : IsFiniteSet(s) /\ Cardinality(s) \in Nat
  BY FS_Subset, FS_CardinalityType
<1>2. \A i \in I : \E j \in I : j < i
  <2>1. TAKE i \in I
  <2>2. PICK s \in D : i = Cardinality(s)
    OBVIOUS
  <2>3. PICK t \in D : t \subseteq s /\ t # s
    OBVIOUS
  <2>4. Cardinality(t) <= Cardinality(s) /\ Cardinality(t) # Cardinality(s)
    BY <1>1, <2>3, FS_Subset
  <2>5. Cardinality(t) < i
    BY <1>1, <2>2, <2>4
  <2>6. QED
    BY <2>5
<1>3. I \in SUBSET Nat
  BY <1>1
<1>4. I = {}
  <2> HIDE DEF I
  <2> QED
    BY <1>2, <1>3, NoFirst
<1>5. QED
  BY <1>4

\* A set that is picked from gets smaller.
LEMMA PickTakesOne ==
  ASSUME NEW s, s # {}
  PROVE  Pick(s) \in s /\ s \ {Pick(s)} \subseteq s /\ s \ {Pick(s)} # s
BY DEF Pick

\* g folds op over all subsets of S, with the element pick[s] of s the last one.
Picks(pick, S) == \A s \in SUBSET S : s # {} => pick[s] \in s

Folding(g, op, base, pick, S) ==
    \A s \in SUBSET S : g[s] = IF s = {} THEN base ELSE op[<<pick[s], g[s \ {pick[s]}]>>]

\* A fold over a finite set exists: a counterexample would have a smaller one.
LEMMA FoldExists ==
  ASSUME NEW S, IsFiniteSet(S), NEW V, NEW base \in V, NEW op \in [S \X V -> V],
         NEW pick, Picks(pick, S)
  PROVE  \E g \in [SUBSET S -> V] : Folding(g, op, base, pick, S)
<1> DEFINE Upto(n) == {s \in SUBSET S : Cardinality(s) <= n}
           Folds(g, n) == \A s \in Upto(n) :
                             g[s] = IF s = {} THEN base ELSE op[<<pick[s], g[s \ {pick[s]}]>>]
           I == {n \in Nat : ~ \E g \in [Upto(n) -> V] : Folds(g, n)}
<1>1. \A s \in SUBSET S : IsFiniteSet(s) /\ Cardinality(s) \in Nat
  BY FS_Subset, FS_CardinalityType
<1>2. \A s \in SUBSET S : s # {} => /\ pick[s] \in S /\ s \ {pick[s]} \in SUBSET S
                                    /\ Cardinality(s \ {pick[s]}) = Cardinality(s) - 1
  BY <1>1, FS_RemoveElement DEF Picks
<1>3. 0 \notin I
  <2>1. \A s \in Upto(0) : s = {}
    BY <1>1, FS_EmptySet
  <2>2. [s \in Upto(0) |-> base] \in [Upto(0) -> V] /\ Folds([s \in Upto(0) |-> base], 0)
    BY <2>1
  <2>3. QED
    BY <2>2
<1>4. ASSUME NEW n \in Nat, n \notin I
      PROVE  n + 1 \notin I
  <2>1. PICK g \in [Upto(n) -> V] : Folds(g, n)
    BY <1>4
  <2> DEFINE f == [s \in Upto(n + 1) |->
                     IF s = {} THEN base ELSE op[<<pick[s], g[s \ {pick[s]}]>>]]
  <2>2. \A s \in Upto(n + 1) : s # {} => pick[s] \in S /\ s \ {pick[s]} \in Upto(n)
    BY <1>1, <1>2
  <2>3. \A s \in Upto(n) : s \in Upto(n + 1) /\ f[s] = g[s]
    BY <1>1, <2>1
  <2>4. f \in [Upto(n + 1) -> V]
    BY <2>2
  <2>5. Folds(f, n + 1)
    BY <2>2, <2>3
  <2>6. QED
    BY <2>4, <2>5
<1>5. \A i \in I : i - 1 \in I /\ i - 1 < i
  <2> SUFFICES ASSUME NEW i \in I PROVE i - 1 \in I /\ i - 1 < i
    OBVIOUS
  <2>1. i \in Nat /\ i # 0
    BY <1>3
  <2>2. i - 1 \in Nat /\ (i - 1) + 1 = i
    BY <2>1
  <2>3. i - 1 \in I
    BY <1>4, <2>2
  <2> HIDE DEF I
  <2>4. i - 1 < i
    BY <2>1
  <2>5. QED
    BY <2>3, <2>4
<1>6. I = {}
  <2>1. I \in SUBSET Nat
    OBVIOUS
  <2>2. \A i \in I : \E j \in I : j < i
    BY <1>5
  <2> HIDE DEF I
  <2>3. QED
    BY <2>1, <2>2, NoFirst
<1>7. Cardinality(S) \in Nat /\ Upto(Cardinality(S)) = SUBSET S
  BY <1>1, FS_Subset
<1>8. PICK g \in [Upto(Cardinality(S)) -> V] : Folds(g, Cardinality(S))
  BY <1>6, <1>7
<1>9. g \in [SUBSET S -> V]
  BY <1>7
<1>10. \A s \in SUBSET S : s \in Upto(Cardinality(S))
  BY <1>7
<1>11. Folding(g, op, base, pick, S)
  BY <1>8, <1>10 DEF Folding
<1>12. QED
  BY <1>9, <1>11

-----------------------------------------------------------------------------
(* Sums.                                                                   *)

\* The sum of e over S.
Sum(e, S) == FoldSet(LAMBDA c, sum : e[c] + sum, 0, S)

\* g is that sum for every subset of S.
Summing(g, e, S) ==
    /\ \A s \in SUBSET S : g[s] = IF s = {} THEN 0 ELSE e[Pick(s)] + g[s \ {Pick(s)}]
    /\ \A T \in SUBSET S : Sum(e, T) = g[T]

\* Such a sum exists, and the library's fold is it.
LEMMA SumIs ==
  ASSUME NEW S, IsFiniteSet(S), NEW e, \A x \in S : e[x] \in Nat
  PROVE  \E g \in [SUBSET S -> Nat] : Summing(g, e, S)
<1> DEFINE op == [p \in S \X Nat |-> e[p[1]] + p[2]]
           pick == [s \in SUBSET S |-> Pick(s)]
<1>1. op \in [S \X Nat -> Nat]
  OBVIOUS
<1>2. PICK g \in [SUBSET S -> Nat] : Folding(g, op, 0, pick, S)
  <2> HIDE DEF op
  <2>1. Picks(pick, S)
    BY PickTakesOne DEF Picks
  <2> HIDE DEF pick
  <2>2. 0 \in Nat
    OBVIOUS
  <2>3. QED
    BY <1>1, <2>2, FoldExists, <2>1
<1>3. \A s \in SUBSET S : g[s] = IF s = {} THEN 0 ELSE e[Pick(s)] + g[s \ {Pick(s)}]
  <2>1. TAKE s \in SUBSET S
  <2>2. CASE s = {}
    BY <1>2, <2>2 DEF Folding
  <2>3. CASE s # {}
    <3>1. Pick(s) \in S /\ s \ {Pick(s)} \in SUBSET S
      BY <2>3, PickTakesOne
    <3>2. op[<<Pick(s), g[s \ {Pick(s)}]>>] = e[Pick(s)] + g[s \ {Pick(s)}]
      BY <3>1
    <3> HIDE DEF op
    <3>3. QED
      BY <1>2, <2>3, <3>2 DEF Folding
  <2>4. QED
    BY <2>2, <2>3
<1>4. ASSUME NEW T \in SUBSET S
      PROVE  Sum(e, T) = g[T]
  <2> DEFINE Step(f) == [s \in SUBSET T |-> IF s = {} THEN 0 ELSE e[Pick(s)] + f[s \ {Pick(s)}]]
             h == CHOOSE f : f = Step(f)
             k == [s \in SUBSET T |-> g[s]]
             apart == {s \in SUBSET T : h[s] # g[s]}
  <2>1. \A s \in SUBSET T : s # {} => s \ {Pick(s)} \in SUBSET T /\ s \ {Pick(s)} # s
    BY PickTakesOne
  <2>2. k = Step(k)
    BY <1>3, <2>1
  <2>3. h = Step(h)
    BY <2>2
  <2>4. Sum(e, T) = h[T]
    BY DEF Sum, FoldSet, MapThenFoldSet, Pick
  <2> HIDE DEF h
  <2>5. \A s \in SUBSET T : h[s] = IF s = {} THEN 0 ELSE e[Pick(s)] + h[s \ {Pick(s)}]
    BY <2>3
  <2>6. \A s \in apart : \E t \in apart : t \subseteq s /\ t # s
    <3>1. TAKE s \in apart
    <3>2. s # {} /\ s \ {Pick(s)} \in apart
      BY <1>3, <2>1, <2>5
    <3>3. QED
      BY <2>1, <3>2
  <2>7. IsFiniteSet(T) /\ apart \in SUBSET SUBSET T
    BY FS_Subset
  <2>8. apart = {}
    <3> HIDE DEF apart
    <3>1. QED
      BY <2>6, <2>7, NoSmallest
  <2>9. QED
    BY <2>4, <2>8
<1>5. \A T \in SUBSET S : Sum(e, T) = g[T]
  BY <1>4
<1>6. QED
  BY <1>3, <1>5 DEF Summing

\* The sum over no elements, and over one more than the rest.
LEMMA SumPicks ==
  ASSUME NEW S, IsFiniteSet(S), NEW e, \A x \in S : e[x] \in Nat
  PROVE  /\ Sum(e, S) \in Nat
         /\ S = {} => Sum(e, S) = 0
         /\ S # {} => Sum(e, S) = e[Pick(S)] + Sum(e, S \ {Pick(S)})
<1>1. PICK g \in [SUBSET S -> Nat] : Summing(g, e, S)
  BY SumIs
<1>2. S \in SUBSET S /\ S \ {Pick(S)} \in SUBSET S
  OBVIOUS
<1>3. Sum(e, S) = g[S] /\ Sum(e, S \ {Pick(S)}) = g[S \ {Pick(S)}]
  BY <1>1, <1>2 DEF Summing
<1>4. g[S] \in Nat
  BY <1>2
<1>5. g[S] = IF S = {} THEN 0 ELSE e[Pick(S)] + g[S \ {Pick(S)}]
  BY <1>1, <1>2 DEF Summing
<1>6. QED
  BY <1>3, <1>4, <1>5

\* The order of the summands does not matter.
LEMMA SumTakes ==
  ASSUME NEW S, IsFiniteSet(S), NEW e, \A x \in S : e[x] \in Nat, NEW x \in S
  PROVE  Sum(e, S) = e[x] + Sum(e, S \ {x})
<1> DEFINE Odd(s, y) == Sum(e, s) # e[y] + Sum(e, s \ {y})
           odd == {s \in SUBSET S : \E y \in s : Odd(s, y)}
<1>1. \A s \in SUBSET S : /\ IsFiniteSet(s) /\ Sum(e, s) \in Nat
                          /\ s # {} => Sum(e, s) = e[Pick(s)] + Sum(e, s \ {Pick(s)})
  <2> TAKE s \in SUBSET S
  <2>1. IsFiniteSet(s) /\ \A y \in s : e[y] \in Nat
    BY FS_Subset
  <2>2. QED
    BY <2>1, SumPicks
<1>2. ASSUME NEW s \in odd
      PROVE  \E t \in odd : t \subseteq s /\ t # s
  <2>1. PICK y \in s : Odd(s, y)
    OBVIOUS
  <2> DEFINE p == Pick(s)
  <2>2. p \in s /\ Sum(e, s) = e[p] + Sum(e, s \ {p})
    BY <1>1, <2>1, PickTakesOne
  <2>3. p # y
    BY <2>1, <2>2
  <2>4. /\ y \in s \ {p} /\ s \ {p} \in SUBSET S /\ s \ {p} # s
        /\ p \in s \ {y} /\ s \ {y} \in SUBSET S /\ s \ {y} # s
    BY <2>2, <2>3
  <2>5. CASE Odd(s \ {p}, y)
    BY <2>4, <2>5
  <2>6. CASE Odd(s \ {y}, p)
    BY <2>4, <2>6
  <2>7. CASE ~ Odd(s \ {p}, y) /\ ~ Odd(s \ {y}, p)
    <3>1. (s \ {p}) \ {y} = (s \ {y}) \ {p} /\ (s \ {p}) \ {y} \in SUBSET S
      OBVIOUS
    <3>2. Sum(e, (s \ {p}) \ {y}) \in Nat /\ e[p] \in Nat /\ e[y] \in Nat
      BY <1>1, <2>2, <3>1
    <3>3. /\ Sum(e, s \ {p}) = e[y] + Sum(e, (s \ {p}) \ {y})
          /\ Sum(e, s \ {y}) = e[p] + Sum(e, (s \ {p}) \ {y})
      BY <2>7, <3>1
    <3>4. Sum(e, s) = e[y] + Sum(e, s \ {y})
      BY <2>2, <3>2, <3>3
    <3>5. QED
      BY <2>1, <3>4
  <2>8. QED
    BY <2>5, <2>6, <2>7
<1>3. odd = {}
  <2>1. odd \in SUBSET SUBSET S /\ \A s \in odd : \E t \in odd : t \subseteq s /\ t # s
    BY <1>2
  <2> HIDE DEF odd
  <2>2. QED
    BY <2>1, NoSmallest
<1>4. S \in SUBSET S /\ S \notin odd
  BY <1>3
<1>5. QED
  BY <1>4

\* Functions that agree have the same sum.
LEMMA SumSame ==
  ASSUME NEW S, IsFiniteSet(S), NEW e, \A x \in S : e[x] \in Nat,
         NEW f, \A x \in S : f[x] = e[x]
  PROVE  Sum(f, S) = Sum(e, S)
<1> DEFINE apart == {s \in SUBSET S : Sum(f, s) # Sum(e, s)}
<1>1. \A s \in SUBSET S :
        /\ s = {} => Sum(e, s) = 0 /\ Sum(f, s) = 0
        /\ s # {} => /\ Sum(e, s) = e[Pick(s)] + Sum(e, s \ {Pick(s)})
                     /\ Sum(f, s) = f[Pick(s)] + Sum(f, s \ {Pick(s)})
  <2> TAKE s \in SUBSET S
  <2>1. IsFiniteSet(s) /\ (\A x \in s : e[x] \in Nat) /\ (\A x \in s : f[x] \in Nat)
    BY FS_Subset
  <2>2. QED
    BY <2>1, SumPicks
<1>2. ASSUME NEW s \in apart
      PROVE  \E t \in apart : t \subseteq s /\ t # s
  <2>1. s # {}
    BY <1>1
  <2>2. Pick(s) \in s /\ s \ {Pick(s)} \subseteq s /\ s \ {Pick(s)} # s
    BY <2>1, PickTakesOne
  <2>3. f[Pick(s)] = e[Pick(s)]
    BY <2>2
  <2>4. s \ {Pick(s)} \in apart
    BY <1>1, <2>1, <2>2, <2>3
  <2>5. QED
    BY <2>2, <2>4
<1>3. apart = {}
  <2>1. apart \in SUBSET SUBSET S /\ \A s \in apart : \E t \in apart : t \subseteq s /\ t # s
    BY <1>2
  <2> HIDE DEF apart
  <2>2. QED
    BY <2>1, NoSmallest
<1>4. QED
  BY <1>3

-----------------------------------------------------------------------------
(* The statistics by category.                                             *)

\* The statistics with some of the categories C, their total, and what becomes of
\* them when the problems P are counted.
Tallies(C) == UNION {[D -> Nat] : D \in SUBSET C}
Total(t) == Sum(t, DOMAIN t)
Tally(e, P) == FoldSet(LAMBDA p, tally : IncrementErrorCount(tally, p.category), e, P)

\* A problem more is one more in the statistics, of a known category or a new one.
LEMMA IncrementAdds ==
  ASSUME NEW C, IsFiniteSet(C), NEW t \in Tallies(C), NEW c, CategoryCounted(c) \in C
  PROVE  /\ IncrementErrorCount(t, c) \in Tallies(C)
         /\ Total(IncrementErrorCount(t, c)) = Total(t) + 1
<1> DEFINE D == DOMAIN t
           k == CategoryCounted(c)
           u == IncrementErrorCount(t, c)
<1>1. D \in SUBSET C /\ IsFiniteSet(D) /\ \A x \in D : t[x] \in Nat
  <2>1. PICK E \in SUBSET C : t \in [E -> Nat]
    BY DEF Tallies
  <2>2. QED
    BY <2>1, FS_Subset
<1>2. /\ DOMAIN u = D \cup {k}
      /\ \A x \in D \cup {k} :
            u[x] = (IF x \in D THEN t[x] ELSE 0) + (IF x = k THEN 1 ELSE 0)
      /\ u = [x \in D \cup {k} |-> u[x]]
  BY DEF IncrementErrorCount
<1> HIDE DEF u, k, D
<1>3. \A x \in D \cup {k} : u[x] \in Nat
  BY <1>1, <1>2
<1>4. u \in Tallies(C)
  <2>1. D \cup {k} \in SUBSET C
    BY <1>1 DEF k
  <2>2. u \in [D \cup {k} -> Nat]
    BY <1>2, <1>3
  <2>3. QED
    BY <2>1, <2>2 DEF Tallies
<1>5. (D \cup {k}) \ {k} = D \ {k} /\ IsFiniteSet(D \cup {k}) /\ IsFiniteSet(D \ {k})
  BY <1>1, FS_AddElement, FS_RemoveElement
<1>6. Sum(u, D \cup {k}) = u[k] + Sum(u, D \ {k})
  <2>1. k \in D \cup {k}
    OBVIOUS
  <2>2. QED
    BY <1>3, <1>5, <2>1, SumTakes
<1>7. Sum(u, D \ {k}) = Sum(t, D \ {k}) /\ Sum(t, D \ {k}) \in Nat
  <2>1. \A x \in D \ {k} : u[x] = t[x] /\ t[x] \in Nat
    BY <1>1, <1>2
  <2>2. QED
    BY <1>5, <2>1, SumSame, SumPicks
<1>8. CASE k \in D
  <2>1. Sum(t, D) = t[k] + Sum(t, D \ {k}) /\ t[k] \in Nat
    BY <1>1, <1>8, SumTakes
  <2>2. u[k] = t[k] + 1
    BY <1>2, <1>8
  <2>3. Sum(u, D \cup {k}) = Sum(t, D) + 1
    BY <1>6, <1>7, <2>1, <2>2
  <2>4. QED
    BY <1>2, <1>4, <2>3 DEF Total, u, D
<1>9. CASE k \notin D
  <2>1. D \ {k} = D /\ u[k] = 1
    BY <1>2, <1>9
  <2>2. Sum(u, D \cup {k}) = Sum(t, D) + 1
    BY <1>6, <1>7, <2>1
  <2>3. QED
    BY <1>2, <1>4, <2>2 DEF Total, u, D
<1>10. QED
  BY <1>8, <1>9

\* g counts the problems of every subset of P.
Tallying(g, e, P) ==
    /\ \A s \in SUBSET P :
          g[s] = IF s = {} THEN e ELSE IncrementErrorCount(g[s \ {Pick(s)}], Pick(s).category)
    /\ Tally(e, P) = g[P]

\* Such a count exists, and the library's fold is it.
LEMMA TallyIs ==
  ASSUME NEW P, IsFiniteSet(P), NEW C, IsFiniteSet(C), NEW e \in Tallies(C),
         \A p \in P : CategoryCounted(p.category) \in C
  PROVE  \E g \in [SUBSET P -> Tallies(C)] : Tallying(g, e, P)
<1> DEFINE V == Tallies(C)
           op == [q \in P \X V |-> IncrementErrorCount(q[2], q[1].category)]
           pick == [s \in SUBSET P |-> Pick(s)]
<1>1. op \in [P \X V -> V]
  BY IncrementAdds
<1>2. PICK g \in [SUBSET P -> V] : Folding(g, op, e, pick, P)
  <2> HIDE DEF op
  <2>1. Picks(pick, P)
    BY PickTakesOne DEF Picks
  <2> HIDE DEF pick
  <2>2. QED
    BY <1>1, FoldExists, <2>1
<1>3. \A s \in SUBSET P :
        g[s] = IF s = {} THEN e ELSE IncrementErrorCount(g[s \ {Pick(s)}], Pick(s).category)
  <2>1. TAKE s \in SUBSET P
  <2>2. CASE s = {}
    BY <1>2, <2>2 DEF Folding
  <2>3. CASE s # {}
    <3>1. Pick(s) \in P /\ s \ {Pick(s)} \in SUBSET P
      BY <2>3, PickTakesOne
    <3>2. op[<<Pick(s), g[s \ {Pick(s)}]>>] =
             IncrementErrorCount(g[s \ {Pick(s)}], Pick(s).category)
      BY <3>1
    <3> HIDE DEF op
    <3>3. QED
      BY <1>2, <2>3, <3>2 DEF Folding
  <2>4. QED
    BY <2>2, <2>3
<1>4. Tally(e, P) = g[P]
  <2> DEFINE Step(f) == [s \in SUBSET P |->
                           IF s = {} THEN e
                           ELSE IncrementErrorCount(f[s \ {Pick(s)}], Pick(s).category)]
             h == CHOOSE f : f = Step(f)
             apart == {s \in SUBSET P : h[s] # g[s]}
  <2>1. \A s \in SUBSET P : s # {} => s \ {Pick(s)} \in SUBSET P /\ s \ {Pick(s)} # s
    BY PickTakesOne
  <2>2. g = Step(g)
    BY <1>3
  <2>3. h = Step(h)
    BY <2>2
  <2>4. Tally(e, P) = h[P]
    BY DEF Tally, FoldSet, MapThenFoldSet, Pick
  <2> HIDE DEF h
  <2>5. \A s \in SUBSET P :
          h[s] = IF s = {} THEN e ELSE IncrementErrorCount(h[s \ {Pick(s)}], Pick(s).category)
    BY <2>3
  <2>6. \A s \in apart : \E t \in apart : t \subseteq s /\ t # s
    <3>1. TAKE s \in apart
    <3>2. s # {} /\ s \ {Pick(s)} \in apart
      BY <1>3, <2>1, <2>5
    <3>3. QED
      BY <2>1, <3>2
  <2>7. apart \in SUBSET SUBSET P
    OBVIOUS
  <2>8. apart = {}
    <3> HIDE DEF apart
    <3>1. QED
      BY <2>6, <2>7, NoSmallest
  <2>9. QED
    BY <2>4, <2>8
<1>5. QED
  BY <1>3, <1>4 DEF Tallying

\* The problems that are counted are added to the total.
LEMMA TallyAdds ==
  ASSUME NEW P, IsFiniteSet(P), NEW C, IsFiniteSet(C), NEW e \in Tallies(C),
         \A p \in P : CategoryCounted(p.category) \in C
  PROVE  Tally(e, P) \in Tallies(C) /\ Total(Tally(e, P)) = Total(e) + Cardinality(P)
<1>1. PICK g \in [SUBSET P -> Tallies(C)] : Tallying(g, e, P)
  BY TallyIs
<1>2. Total(e) \in Nat
  <2>1. PICK D \in SUBSET C : e \in [D -> Nat]
    BY DEF Tallies
  <2>2. IsFiniteSet(DOMAIN e) /\ \A x \in DOMAIN e : e[x] \in Nat
    BY <2>1, FS_Subset
  <2>3. QED
    BY <2>2, SumPicks DEF Total
<1> DEFINE odd == {s \in SUBSET P : Total(g[s]) # Total(e) + Cardinality(s)}
<1>3. ASSUME NEW s \in odd
      PROVE  \E t \in odd : t \subseteq s /\ t # s
  <2>1. s # {}
    <3>1. g[{}] = e
      BY <1>1 DEF Tallying
    <3>2. Total(e) + Cardinality({}) = Total(e)
      BY <1>2, FS_EmptySet
    <3>3. QED
      BY <3>1, <3>2
  <2> DEFINE p == Pick(s)
             t == s \ {p}
  <2>2. p \in s /\ t \in SUBSET P /\ t \subseteq s /\ t # s /\ IsFiniteSet(s)
    BY <2>1, PickTakesOne, FS_Subset
  <2>3. g[s] = IncrementErrorCount(g[t], p.category)
    BY <1>1, <2>1 DEF Tallying
  <2>4. Total(g[s]) = Total(g[t]) + 1
    <3>1. g[t] \in Tallies(C) /\ CategoryCounted(p.category) \in C
      BY <2>2
    <3>2. QED
      BY <2>3, <3>1, IncrementAdds
  <2>5. Cardinality(s) \in Nat /\ Cardinality(t) = Cardinality(s) - 1
    BY <2>2, FS_CardinalityType, FS_RemoveElement
  <2>6. t \in odd
    BY <1>2, <2>2, <2>4, <2>5
  <2>7. QED
    BY <2>2, <2>6
<1>4. odd = {}
  <2>1. odd \in SUBSET SUBSET P /\ \A s \in odd : \E t \in odd : t \subseteq s /\ t # s
    BY <1>3
  <2> HIDE DEF odd
  <2>2. QED
    BY <2>1, NoSmallest
<1>5. P \in SUBSET P /\ Tally(e, P) = g[P]
  BY <1>1 DEF Tallying
<1>6. QED
  BY <1>4, <1>5

-----------------------------------------------------------------------------
(* Folds over sequences.                                                   *)

\* The last of the first i positions.
LEMMA MaxOfPrefix ==
  ASSUME NEW i \in Nat, i # 0
  PROVE  Max(1..i) = i /\ (1..i) \ {i} = 1..(i - 1) /\ 1..i # {}
<1>1. i \in 1..i /\ \A y \in 1..i : i >= y
  OBVIOUS
<1>2. \A x \in 1..i : (\A y \in 1..i : x >= y) => x = i
  OBVIOUS
<1>3. Max(1..i) = i
  BY <1>1, <1>2 DEF Max
<1>4. QED
  BY <1>1, <1>3

\* A finite set of positions has a last one.
LEMMA MaxPicks ==
  ASSUME NEW n \in Nat
  PROVE  Picks([s \in SUBSET (1..n) |-> Max(s)], 1..n)
<1> SUFFICES ASSUME NEW s \in SUBSET (1..n), s # {} PROVE Max(s) \in s
  BY DEF Picks
<1> DEFINE above == {k \in Nat : \E x \in s : k = n - x}
<1>1. PICK k \in above : \A j \in above : ~ (j < k)
  <2>1. above # {} /\ above \in SUBSET Nat
    <3>1. PICK x \in s : TRUE
      OBVIOUS
    <3>2. n - x \in above
      BY <3>1
    <3>3. QED
      BY <3>2
  <2> HIDE DEF above
  <2>2. ~ \A k \in above : \E j \in above : j < k
    BY <2>1, NoFirst
  <2>3. QED
    BY <2>2
<1>2. PICK x \in s : k = n - x
  OBVIOUS
<1>3. \A y \in s : x >= y
  <2>1. TAKE y \in s
  <2>2. n - y \in above /\ x \in 1..n /\ y \in 1..n
    OBVIOUS
  <2>3. ~ (n - y < n - x)
    BY <1>1, <1>2, <2>2
  <2>4. QED
    BY <2>2, <2>3
<1>4. QED
  BY <1>3 DEF Max

\* A fold from the left, position by position.
LEMMA FoldLeftExists ==
  ASSUME NEW n \in Nat, NEW V, NEW base \in V, NEW op \in [(1..n) \X V -> V]
  PROVE  \E g \in [SUBSET (1..n) -> V] :
            Folding(g, op, base, [s \in SUBSET (1..n) |-> Max(s)], 1..n)
<1> DEFINE pick == [s \in SUBSET (1..n) |-> Max(s)]
<1>1. Picks(pick, 1..n)
  BY MaxPicks
<1>2. IsFiniteSet(1..n)
  BY FS_Interval
<1> HIDE DEF pick
<1>3. QED
  BY <1>1, <1>2, FoldExists DEF pick

-----------------------------------------------------------------------------
(* What a sequence of filters says of a category.                           *)

Mentions(fs, c) == \E i \in DOMAIN fs : Matches(fs[i], c)

\* The last filter that mentions it switches it off.
SwitchesOff(fs, c) ==
    \E i \in DOMAIN fs : /\ Matches(fs[i], c) /\ fs[i].sign = "-"
                         /\ \A j \in DOMAIN fs : j > i => ~ Matches(fs[j], c)

\* _ShouldPrintError goes through all filters, and the last one that matches decides.
LEMMA LastFilterDecides ==
  ASSUME NEW F, NEW fs \in Seq(F), NEW c
  PROVE  IsFiltered(fs, c) <=> SwitchesOff(fs, c)
<1> DEFINE n == Len(fs)
           op == [q \in (1..n) \X BOOLEAN |->
                    IF Matches(fs[q[1]], c) THEN fs[q[1]].sign = "-" ELSE q[2]]
           pick == [s \in SUBSET (1..n) |-> Max(s)]
           Step(f) == [s \in SUBSET (1..n) |->
                         IF s = {} THEN FALSE
                         ELSE IF Matches(fs[Max(s)], c) THEN fs[Max(s)].sign = "-"
                         ELSE f[s \ {Max(s)}]]
           h == CHOOSE f : f = Step(f)
<1>1. n \in Nat /\ DOMAIN fs = 1..n
  OBVIOUS
<1>2. PICK g \in [SUBSET (1..n) -> BOOLEAN] : Folding(g, op, FALSE, pick, 1..n)
  <2>1. op \in [(1..n) \X BOOLEAN -> BOOLEAN] /\ FALSE \in BOOLEAN
    OBVIOUS
  <2> HIDE DEF op
  <2>2. QED
    BY <1>1, <2>1, FoldLeftExists
<1>3. g = Step(g)
  <2>1. \A s \in SUBSET (1..n) :
          g[s] = IF s = {} THEN FALSE
                 ELSE IF Matches(fs[Max(s)], c) THEN fs[Max(s)].sign = "-"
                 ELSE g[s \ {Max(s)}]
    <3>1. TAKE s \in SUBSET (1..n)
    <3>2. CASE s = {}
      BY <1>2, <3>2 DEF Folding
    <3>3. CASE s # {}
      <4>1. Max(s) \in 1..n /\ s \ {Max(s)} \in SUBSET (1..n)
        BY <1>1, <3>3, MaxPicks DEF Picks
      <4>2. g[s] = op[<<Max(s), g[s \ {Max(s)}]>>]
        BY <1>2, <3>3 DEF Folding
      <4>3. g[s \ {Max(s)}] \in BOOLEAN
        BY <4>1
      <4>4. QED
        BY <3>3, <4>1, <4>2, <4>3
    <3>4. QED
      BY <3>2, <3>3
  <2>2. QED
    BY <2>1
<1>4. h = Step(h)
  BY <1>3
<1>5. IsFiltered(fs, c) = h[1..n]
  BY <1>1 DEF IsFiltered, FoldLeft, MapThenFoldSet
<1> HIDE DEF h, op
<1>6. h[1..0] = FALSE
  BY <1>4
<1>7. ASSUME NEW i \in 1..n
      PROVE  h[1..i] = IF Matches(fs[i], c) THEN fs[i].sign = "-" ELSE h[1..(i - 1)]
  <2>1. 1..i \in SUBSET (1..n) /\ i \in Nat /\ i # 0
    BY <1>1
  <2>2. Max(1..i) = i /\ (1..i) \ {i} = 1..(i - 1) /\ 1..i # {}
    BY <2>1, MaxOfPrefix
  <2>3. h[1..i] = Step(h)[1..i]
    BY <1>4
  <2>4. QED
    BY <2>1, <2>2, <2>3
<1> DEFINE Off(i) == \E j \in 1..i : /\ Matches(fs[j], c) /\ fs[j].sign = "-"
                                    /\ \A k \in 1..i : k > j => ~ Matches(fs[k], c)
           Right(i) == h[1..i] = Off(i)
           wrong == {i \in 0..n : ~ Right(i)}
<1>8. Right(0)
  <2>1. Off(0) = FALSE
    OBVIOUS
  <2> HIDE DEF Off
  <2>2. QED
    BY <1>6, <2>1
<1>9. ASSUME NEW i \in 1..n, Right(i - 1)
      PROVE  Right(i)
  <2>1. i - 1 \in Nat /\ i \in 1..i /\ 1..i = 1..(i - 1) \cup {i} /\ \A k \in 1..(i - 1) : i > k
    BY <1>1
  <2>2. CASE Matches(fs[i], c)
    <3>1. Off(i) <=> fs[i].sign = "-"
      BY <2>1, <2>2
    <3>2. h[1..i] = (fs[i].sign = "-")
      BY <1>7, <2>2
    <3> HIDE DEF Off
    <3>3. Off(i) \in BOOLEAN
      BY DEF Off
    <3>4. QED
      BY <3>1, <3>2, <3>3
  <2>3. CASE ~ Matches(fs[i], c)
    <3>1. Off(i) <=> Off(i - 1)
      BY <2>1, <2>3
    <3>2. h[1..i] = h[1..(i - 1)]
      BY <1>7, <2>3
    <3>3. Off(i) \in BOOLEAN /\ Off(i - 1) \in BOOLEAN
      OBVIOUS
    <3> HIDE DEF Off
    <3>4. QED
      BY <1>9, <3>1, <3>2, <3>3
  <2>4. QED
    BY <2>2, <2>3
<1> HIDE DEF Right
<1>10. \A i \in wrong : \E j \in wrong : j < i
  <2>1. TAKE i \in wrong
  <2>2. i \in 1..n /\ i - 1 \in 0..n /\ i - 1 < i
    BY <1>1, <1>8
  <2>3. QED
    BY <1>9, <2>2
<1>11. wrong = {}
  <2>1. wrong \in SUBSET Nat
    BY <1>1
  <2> HIDE DEF wrong
  <2>2. QED
    BY <1>10, <2>1, NoFirst
<1>12. Right(n)
  BY <1>1, <1>11
<1>13. Off(n) <=> SwitchesOff(fs, c)
  BY <1>1 DEF SwitchesOff
<1> HIDE DEF Off
<1>14. QED
  BY <1>5, <1>12, <1>13 DEF Right

\* Of two sequences of filters the second one decides where it says anything.
LEMMA MoreFilters ==
  ASSUME NEW F, NEW fs \in Seq(F), NEW gs \in Seq(F), NEW c
  PROVE  /\ fs \o gs \in Seq(F)
         /\ Mentions(fs \o gs, c) <=> Mentions(fs, c) \/ Mentions(gs, c)
         /\ SwitchesOff(fs \o gs, c) <=>
               SwitchesOff(gs, c) \/ (~ Mentions(gs, c) /\ SwitchesOff(fs, c))
<1> DEFINE m == Len(fs)
           n == Len(gs)
           both == fs \o gs
<1>1. /\ m \in Nat /\ n \in Nat /\ both \in Seq(F)
      /\ DOMAIN fs = 1..m /\ DOMAIN gs = 1..n /\ DOMAIN both = 1..(m + n)
      /\ \A i \in 1..m : both[i] = fs[i]
      /\ \A i \in 1..n : both[m + i] = gs[i]
  OBVIOUS
<1> HIDE DEF m, n, both
<1>2. \A i \in 1..(m + n) : i \in 1..m \/ (i - m \in 1..n /\ m + (i - m) = i)
  BY <1>1
<1>3. (\A i \in 1..m : i \in 1..(m + n)) /\ (\A i \in 1..n : m + i \in 1..(m + n))
  BY <1>1
<1>4. Mentions(both, c) <=> Mentions(fs, c) \/ Mentions(gs, c)
  <2>1. Mentions(both, c) <=> \E i \in 1..(m + n) : Matches(both[i], c)
    BY <1>1 DEF Mentions
  <2>2. Mentions(fs, c) <=> \E i \in 1..m : Matches(fs[i], c)
    BY <1>1 DEF Mentions
  <2>3. Mentions(gs, c) <=> \E i \in 1..n : Matches(gs[i], c)
    BY <1>1 DEF Mentions
  <2>4. QED
    BY <1>1, <1>2, <1>3, <2>1, <2>2, <2>3
<1>5. SwitchesOff(gs, c) => SwitchesOff(both, c)
  <2>1. SUFFICES ASSUME NEW i \in 1..n, Matches(gs[i], c), gs[i].sign = "-",
                        \A j \in 1..n : j > i => ~ Matches(gs[j], c)
                 PROVE  SwitchesOff(both, c)
    BY <1>1 DEF SwitchesOff
  <2>2. m + i \in 1..(m + n) /\ both[m + i] = gs[i]
    BY <1>1, <1>3
  <2>3. ASSUME NEW j \in 1..(m + n), j > m + i
        PROVE  ~ Matches(both[j], c)
    <3>1. j \notin 1..m
      BY <1>1, <2>3
    <3>2. j - m \in 1..n /\ m + (j - m) = j /\ j - m > i
      BY <1>1, <1>2, <2>3, <3>1
    <3>3. both[j] = gs[j - m]
      BY <1>1, <3>2
    <3>4. QED
      BY <2>1, <3>2, <3>3
  <2>4. QED
    BY <1>1, <2>1, <2>2, <2>3 DEF SwitchesOff
<1>6. ~ Mentions(gs, c) /\ SwitchesOff(fs, c) => SwitchesOff(both, c)
  <2>1. SUFFICES ASSUME ~ Mentions(gs, c),
                        NEW i \in 1..m, Matches(fs[i], c), fs[i].sign = "-",
                        \A j \in 1..m : j > i => ~ Matches(fs[j], c)
                 PROVE  SwitchesOff(both, c)
    BY <1>1 DEF SwitchesOff
  <2>2. i \in 1..(m + n) /\ both[i] = fs[i]
    BY <1>1, <1>3
  <2>3. ASSUME NEW j \in 1..(m + n), j > i
        PROVE  ~ Matches(both[j], c)
    <3>1. CASE j \in 1..m
      BY <1>1, <2>1, <2>3, <3>1
    <3>2. CASE j \notin 1..m
      <4>1. j - m \in 1..n /\ both[j] = gs[j - m]
        BY <1>1, <1>2, <3>2
      <4>2. QED
        BY <1>1, <2>1, <4>1 DEF Mentions
    <3>3. QED
      BY <3>1, <3>2
  <2>4. QED
    BY <1>1, <2>1, <2>2, <2>3 DEF SwitchesOff
<1>7. SwitchesOff(both, c) => SwitchesOff(gs, c) \/ (~ Mentions(gs, c) /\ SwitchesOff(fs, c))
  <2>1. SUFFICES ASSUME NEW i \in 1..(m + n), Matches(both[i], c), both[i].sign = "-",
                        \A j \in 1..(m + n) : j > i => ~ Matches(both[j], c)
                 PROVE  SwitchesOff(gs, c) \/ (~ Mentions(gs, c) /\ SwitchesOff(fs, c))
    BY <1>1 DEF SwitchesOff
  <2>2. CASE i \in 1..m
    <3>1. ~ Mentions(gs, c)
      <4>1. ASSUME NEW j \in 1..n PROVE ~ Matches(gs[j], c)
        <5>1. m + j \in 1..(m + n) /\ m + j > i /\ both[m + j] = gs[j]
          BY <1>1, <1>3, <2>2
        <5>2. QED
          BY <2>1, <5>1
      <4>2. QED
        BY <1>1, <4>1 DEF Mentions
    <3>2. ASSUME NEW j \in 1..m, j > i PROVE ~ Matches(fs[j], c)
      BY <1>1, <1>3, <2>1, <3>2
    <3>3. both[i] = fs[i]
      BY <1>1, <2>2
    <3>4. SwitchesOff(fs, c)
      BY <1>1, <2>1, <2>2, <3>2, <3>3 DEF SwitchesOff
    <3>5. QED
      BY <3>1, <3>4
  <2>3. CASE i \notin 1..m
    <3>1. i - m \in 1..n /\ both[i] = gs[i - m]
      BY <1>1, <1>2, <2>3
    <3>2. ASSUME NEW j \in 1..n, j > i - m PROVE ~ Matches(gs[j], c)
      <4>1. m + j \in 1..(m + n) /\ m + j > i /\ both[m + j] = gs[j]
        BY <1>1, <1>3, <3>2
      <4>2. QED
        BY <2>1, <4>1
    <3>3. SwitchesOff(gs, c)
      BY <1>1, <2>1, <3>1, <3>2 DEF SwitchesOff
    <3>4. QED
      BY <3>3
  <2>4. QED
    BY <2>2, <2>3
<1>8. QED
  BY <1>1, <1>4, <1>5, <1>6, <1>7 DEF both

-----------------------------------------------------------------------------
(* What a sequence of filter lists says, and the order in which they       *)
(* apply.                                                                  *)

\* What holds of the first number and is handed on to the next holds of all.
LEMMA Climb ==
  ASSUME NEW m \in Nat, NEW n \in Nat, NEW W \in SUBSET (m..n), m \notin W,
         \A i \in W : i # m => i - 1 \in W
  PROVE  W = {}
<1>1. \A i \in W : \E j \in W : j < i
  <2>1. TAKE i \in W
  <2>2. i \in m..n /\ i # m
    OBVIOUS
  <2>3. i - 1 < i
    BY <2>2
  <2>4. QED
    BY <2>2, <2>3
<1>2. W \in SUBSET Nat
  OBVIOUS
<1>3. QED
  BY <1>1, <1>2, NoFirst

\* What a sequence of filter lists says of a category, the first of them the nearest.
SomeMentions(vs, c) == \E k \in DOMAIN vs : Mentions(vs[k], c)

NearestOff(vs, c) ==
    \E k \in DOMAIN vs : /\ SwitchesOff(vs[k], c)
                         /\ \A j \in DOMAIN vs : j < k => ~ Mentions(vs[j], c)

\* The lists of the nearer directories come last in the sequence of all filters.
LEMMA NearestComesLast ==
  ASSUME NEW F, NEW vs \in Seq(Seq(F)), NEW c
  PROVE  /\ OutermostFirst(vs) \in Seq(F)
         /\ Mentions(OutermostFirst(vs), c) <=> SomeMentions(vs, c)
         /\ SwitchesOff(OutermostFirst(vs), c) <=> NearestOff(vs, c)
<1> DEFINE n == Len(vs)
           r == Reverse(vs)
           flat == OutermostFirst(vs)
<1>1. /\ n \in Nat /\ DOMAIN vs = 1..n /\ r = [i \in 1..n |-> vs[(n - i) + 1]]
      /\ Len(r) = n /\ DOMAIN r = 1..n
      /\ \A i \in 1..n : (n - i) + 1 \in 1..n /\ r[i] = vs[(n - i) + 1] /\ r[i] \in Seq(F)
  BY DEF Reverse
<1>2. CASE n = 0
  <2>1. flat = r /\ r = <<>> /\ DOMAIN vs = {}
    BY <1>1, <1>2 DEF OutermostFirst, FlattenSeq
  <2>2. DOMAIN flat = {} /\ flat \in Seq(F)
    BY <2>1
  <2>3. QED
    BY <2>1, <2>2 DEF Mentions, SomeMentions, SwitchesOff, NearestOff
<1>3. CASE n # 0
  <2> DEFINE op == [q \in (1..n) \X Seq(F) |-> q[2] \o r[q[1]]]
             pick == [s \in SUBSET (1..n) |-> Max(s)]
             Step(f) == [i \in 1..n |-> IF i = 1 THEN r[i] ELSE f[i - 1] \o r[i]]
             h == CHOOSE f : f = Step(f)
  <2>1. PICK G \in [SUBSET (1..n) -> Seq(F)] : Folding(G, op, <<>>, pick, 1..n)
    <3>1. op \in [(1..n) \X Seq(F) -> Seq(F)] /\ <<>> \in Seq(F)
      BY <1>1
    <3> HIDE DEF op
    <3>2. QED
      BY <1>1, <3>1, FoldLeftExists
  <2> DEFINE g == [i \in 1..n |-> G[1..i]]
  <2>2. g = Step(g)
    <3>1. \A i \in 1..n : G[1..i] = G[1..(i - 1)] \o r[i]
      <4>1. TAKE i \in 1..n
      <4>2. 1..i \in SUBSET (1..n) /\ 1..(i - 1) \in SUBSET (1..n) /\ i \in Nat /\ i # 0
        BY <1>1
      <4>3. Max(1..i) = i /\ (1..i) \ {i} = 1..(i - 1) /\ 1..i # {}
        BY <4>2, MaxOfPrefix
      <4>4. G[1..i] = op[<<i, G[1..(i - 1)]>>]
        <5>1. pick[1..i] = i
          BY <4>2, <4>3
        <5> HIDE DEF pick, op
        <5>2. QED
          BY <2>1, <4>2, <4>3, <5>1 DEF Folding
      <4>5. G[1..(i - 1)] \in Seq(F)
        BY <4>2
      <4>6. QED
        BY <4>4, <4>5
    <3>2. G[1..0] = <<>>
      <4>1. 1..0 = {} /\ {} \in SUBSET (1..n)
        OBVIOUS
      <4> HIDE DEF pick, op
      <4>2. QED
        BY <2>1, <4>1 DEF Folding
    <3>3. 1 \in 1..n => <<>> \o r[1] = r[1]
      BY <1>1
    <3>4. \A i \in 1..n : g[i] = IF i = 1 THEN r[i] ELSE g[i - 1] \o r[i]
      <4>1. TAKE i \in 1..n
      <4>2. g[i] = G[1..(i - 1)] \o r[i]
        BY <3>1
      <4>3. CASE i = 1
        <5>1. 1..(i - 1) = 1..0
          BY <4>3
        <5>2. QED
          BY <3>2, <3>3, <4>2, <4>3, <5>1
      <4>4. CASE i # 1
        <5>1. i - 1 \in 1..n
          BY <1>1, <4>4
        <5>2. g[i - 1] = G[1..(i - 1)]
          BY <5>1
        <5>3. QED
          BY <4>2, <4>4, <5>2
      <4>5. QED
        BY <4>3, <4>4
    <3>5. QED
      BY <3>4
  <2>3. h = Step(h)
    BY <2>2
  <2>4. flat = h[n]
    BY <1>1, <1>3 DEF OutermostFirst, FlattenSeq
  <2> HIDE DEF h
  <2>5. h[1] = r[1] /\ \A i \in 2..n : h[i] = h[i - 1] \o r[i]
    <3>1. 1 \in 1..n /\ \A i \in 2..n : i \in 1..n /\ i # 1
      BY <1>1, <1>3
    <3>2. \A i \in 1..n : h[i] = IF i = 1 THEN r[i] ELSE h[i - 1] \o r[i]
      BY <2>3
    <3>3. QED
      BY <3>1, <3>2
  <2> DEFINE Said(i) == \E k \in 1..i : Mentions(r[k], c)
             Off(i) == \E k \in 1..i : /\ SwitchesOff(r[k], c)
                                       /\ \A j \in 1..i : j > k => ~ Mentions(r[j], c)
             Right(i) == /\ h[i] \in Seq(F)
                         /\ Mentions(h[i], c) <=> Said(i)
                         /\ SwitchesOff(h[i], c) <=> Off(i)
             wrong == {i \in 1..n : ~ Right(i)}
  <2>6. Right(1)
    BY <1>1, <1>3, <2>5
  <2>7. ASSUME NEW i \in 2..n, Right(i - 1)
        PROVE  Right(i)
    <3>1. /\ i - 1 \in Nat /\ 1..i = 1..(i - 1) \cup {i} /\ \A k \in 1..(i - 1) : i > k
          /\ i \in 1..n
      BY <1>1
    <3>2. h[i] = h[i - 1] \o r[i] /\ r[i] \in Seq(F)
      BY <1>1, <2>5, <3>1
    <3>3. /\ h[i] \in Seq(F)
          /\ Mentions(h[i], c) <=> Mentions(h[i - 1], c) \/ Mentions(r[i], c)
          /\ SwitchesOff(h[i], c) <=>
               SwitchesOff(r[i], c) \/ (~ Mentions(r[i], c) /\ SwitchesOff(h[i - 1], c))
      <4>1. h[i - 1] \in Seq(F)
        BY <2>7
      <4>2. QED
        BY <3>2, <4>1, MoreFilters
    <3>4. Said(i) <=> Said(i - 1) \/ Mentions(r[i], c)
      BY <3>1
    <3>5. Off(i) <=> SwitchesOff(r[i], c) \/ (~ Mentions(r[i], c) /\ Off(i - 1))
      <4>1. i \in 1..i /\ \A j \in 1..i : ~ (j > i)
        BY <3>1
      <4>2. SwitchesOff(r[i], c) => Off(i)
        BY <4>1
      <4>3. ~ Mentions(r[i], c) /\ Off(i - 1) => Off(i)
        BY <3>1
      <4>4. Off(i) => SwitchesOff(r[i], c) \/ (~ Mentions(r[i], c) /\ Off(i - 1))
        BY <3>1, <4>1
      <4>5. QED
        BY <4>2, <4>3, <4>4
    <3> HIDE DEF Said, Off
    <3>6. QED
      BY <2>7, <3>3, <3>4, <3>5
  <2> HIDE DEF Right
  <2>8. wrong = {}
    <3>1. wrong \in SUBSET (1..n) /\ 1 \notin wrong /\ \A i \in wrong : i # 1 => i - 1 \in wrong
      BY <1>1, <2>6, <2>7
    <3> HIDE DEF wrong
    <3>2. QED
      BY <1>1, <3>1, Climb
  <2>9. Right(n)
    <3>1. n \in 1..n
      BY <1>1, <1>3
    <3>2. QED
      BY <2>8, <3>1
  <2>10. Said(n) <=> SomeMentions(vs, c)
    <3>1. \A k \in 1..n : (n - ((n - k) + 1)) + 1 = k
      BY <1>1
    <3>2. QED
      BY <1>1, <3>1 DEF SomeMentions
  <2>11. Off(n) <=> NearestOff(vs, c)
    <3>1. \A k \in 1..n : (n - ((n - k) + 1)) + 1 = k
      BY <1>1
    <3>2. \A k, j \in 1..n : j > k <=> (n - j) + 1 < (n - k) + 1
      BY <1>1
    <3>3. Off(n) => NearestOff(vs, c)
      <4>1. SUFFICES ASSUME NEW k \in 1..n, SwitchesOff(r[k], c),
                            \A j \in 1..n : j > k => ~ Mentions(r[j], c)
                     PROVE  NearestOff(vs, c)
        OBVIOUS
      <4>2. ASSUME NEW j \in 1..n, j < (n - k) + 1 PROVE ~ Mentions(vs[j], c)
        <5>1. (n - j) + 1 \in 1..n /\ (n - j) + 1 > k /\ r[(n - j) + 1] = vs[j]
          BY <1>1, <3>1, <4>2
        <5>2. QED
          BY <4>1, <5>1
      <4>3. (n - k) + 1 \in 1..n /\ r[k] = vs[(n - k) + 1]
        BY <1>1
      <4>4. QED
        BY <1>1, <4>1, <4>2, <4>3 DEF NearestOff
    <3>4. NearestOff(vs, c) => Off(n)
      <4>1. SUFFICES ASSUME NEW k \in 1..n, SwitchesOff(vs[k], c),
                            \A j \in 1..n : j < k => ~ Mentions(vs[j], c)
                     PROVE  Off(n)
        BY <1>1 DEF NearestOff
      <4>2. ASSUME NEW j \in 1..n, j > (n - k) + 1 PROVE ~ Mentions(r[j], c)
        <5>1. (n - j) + 1 \in 1..n /\ (n - j) + 1 < k /\ r[j] = vs[(n - j) + 1]
          BY <1>1, <4>2
        <5>2. QED
          BY <4>1, <5>1
      <4>3. (n - k) + 1 \in 1..n /\ r[(n - k) + 1] = vs[k]
        BY <1>1, <3>1
      <4>4. QED
        BY <4>1, <4>2, <4>3
    <3>5. QED
      BY <3>3, <3>4
  <2> HIDE DEF Said, Off
  <2>12. QED
    BY <2>4, <2>9, <2>10, <2>11 DEF Right
<1>4. QED
  BY <1>2, <1>3

-----------------------------------------------------------------------------
(* What the filter lines of the configurations say.                        *)

\* Lists that are behind others say what those leave open.
LEMMA MoreLists ==
  ASSUME NEW L, NEW vs \in Seq(L), NEW ws \in Seq(L), NEW c
  PROVE  /\ vs \o ws \in Seq(L)
         /\ SomeMentions(vs \o ws, c) <=> SomeMentions(vs, c) \/ SomeMentions(ws, c)
         /\ NearestOff(vs \o ws, c) <=>
               NearestOff(vs, c) \/ (~ SomeMentions(vs, c) /\ NearestOff(ws, c))
<1> DEFINE m == Len(vs)
           n == Len(ws)
           both == vs \o ws
<1>1. /\ m \in Nat /\ n \in Nat /\ both \in Seq(L)
      /\ DOMAIN vs = 1..m /\ DOMAIN ws = 1..n /\ DOMAIN both = 1..(m + n)
      /\ \A i \in 1..m : both[i] = vs[i]
      /\ \A i \in 1..n : both[m + i] = ws[i]
  OBVIOUS
<1> HIDE DEF m, n, both
<1>2. \A i \in 1..(m + n) : i \in 1..m \/ (i - m \in 1..n /\ m + (i - m) = i)
  BY <1>1
<1>3. (\A i \in 1..m : i \in 1..(m + n)) /\ (\A i \in 1..n : m + i \in 1..(m + n))
  BY <1>1
<1>4. SomeMentions(both, c) <=> SomeMentions(vs, c) \/ SomeMentions(ws, c)
  <2>1. SomeMentions(both, c) <=> \E i \in 1..(m + n) : Mentions(both[i], c)
    BY <1>1 DEF SomeMentions
  <2>2. SomeMentions(vs, c) <=> \E i \in 1..m : Mentions(vs[i], c)
    BY <1>1 DEF SomeMentions
  <2>3. SomeMentions(ws, c) <=> \E i \in 1..n : Mentions(ws[i], c)
    BY <1>1 DEF SomeMentions
  <2>4. QED
    BY <1>1, <1>2, <1>3, <2>1, <2>2, <2>3
<1>5. NearestOff(vs, c) => NearestOff(both, c)
  <2>1. SUFFICES ASSUME NEW i \in 1..m, SwitchesOff(vs[i], c),
                        \A j \in 1..m : j < i => ~ Mentions(vs[j], c)
                 PROVE  NearestOff(both, c)
    BY <1>1 DEF NearestOff
  <2>2. i \in 1..(m + n) /\ both[i] = vs[i]
    BY <1>1, <1>3
  <2>3. ASSUME NEW j \in 1..(m + n), j < i
        PROVE  ~ Mentions(both[j], c)
    <3>1. j \in 1..m /\ both[j] = vs[j]
      BY <1>1, <2>3
    <3>2. QED
      BY <2>1, <2>3, <3>1
  <2>4. QED
    BY <1>1, <2>1, <2>2, <2>3 DEF NearestOff
<1>6. ~ SomeMentions(vs, c) /\ NearestOff(ws, c) => NearestOff(both, c)
  <2>1. SUFFICES ASSUME ~ SomeMentions(vs, c),
                        NEW i \in 1..n, SwitchesOff(ws[i], c),
                        \A j \in 1..n : j < i => ~ Mentions(ws[j], c)
                 PROVE  NearestOff(both, c)
    BY <1>1 DEF NearestOff
  <2>2. m + i \in 1..(m + n) /\ both[m + i] = ws[i]
    BY <1>1, <1>3
  <2>3. ASSUME NEW j \in 1..(m + n), j < m + i
        PROVE  ~ Mentions(both[j], c)
    <3>1. CASE j \in 1..m
      BY <1>1, <2>1, <3>1 DEF SomeMentions
    <3>2. CASE j \notin 1..m
      <4>1. j - m \in 1..n /\ m + (j - m) = j
        BY <1>2, <3>2
      <4>2. both[j] = ws[j - m] /\ j - m < i
        BY <1>1, <2>3, <4>1
      <4>3. QED
        BY <2>1, <4>1, <4>2
    <3>3. QED
      BY <3>1, <3>2
  <2>4. QED
    BY <1>1, <2>1, <2>2, <2>3 DEF NearestOff
<1>7. NearestOff(both, c) => NearestOff(vs, c) \/ (~ SomeMentions(vs, c) /\ NearestOff(ws, c))
  <2>1. SUFFICES ASSUME NEW i \in 1..(m + n), SwitchesOff(both[i], c),
                        \A j \in 1..(m + n) : j < i => ~ Mentions(both[j], c)
                 PROVE  NearestOff(vs, c) \/ (~ SomeMentions(vs, c) /\ NearestOff(ws, c))
    BY <1>1 DEF NearestOff
  <2>2. CASE i \in 1..m
    <3>1. ASSUME NEW j \in 1..m, j < i PROVE ~ Mentions(vs[j], c)
      BY <1>1, <1>3, <2>1, <3>1
    <3>2. both[i] = vs[i]
      BY <1>1, <2>2
    <3>3. NearestOff(vs, c)
      BY <1>1, <2>1, <2>2, <3>1, <3>2 DEF NearestOff
    <3>4. QED
      BY <3>3
  <2>3. CASE i \notin 1..m
    <3>1. i - m \in 1..n /\ m + (i - m) = i
      BY <1>2, <2>3
    <3>2. both[i] = ws[i - m]
      BY <1>1, <3>1
    <3>3. ~ SomeMentions(vs, c)
      <4>1. ASSUME NEW j \in 1..m PROVE ~ Mentions(vs[j], c)
        <5>1. j \in 1..(m + n) /\ j < i /\ both[j] = vs[j]
          BY <1>1, <1>3, <2>3
        <5>2. QED
          BY <2>1, <5>1
      <4>2. QED
        BY <1>1, <4>1 DEF SomeMentions
    <3>4. ASSUME NEW j \in 1..n, j < i - m PROVE ~ Mentions(ws[j], c)
      <4>1. m + j \in 1..(m + n) /\ m + j < i /\ both[m + j] = ws[j]
        BY <1>1, <1>3, <3>1, <3>4
      <4>2. QED
        BY <2>1, <4>1
    <3>5. NearestOff(ws, c)
      BY <1>1, <2>1, <3>1, <3>2, <3>4 DEF NearestOff
    <3>6. QED
      BY <3>3, <3>5
  <2>4. QED
    BY <2>2, <2>3
<1>8. QED
  BY <1>1, <1>4, <1>5, <1>6, <1>7 DEF both

-----------------------------------------------------------------------------
(* The values that a configuration has for an option.                       *)

\* A list that is appended is a sequence of lists more.
LEMMA AppendIsMore ==
  ASSUME NEW L, NEW s \in Seq(L), NEW x \in L
  PROVE  Append(s, x) = s \o <<x>> /\ Append(s, x) \in Seq(L) /\ Append(s, x) # <<>>
OBVIOUS

\* f[i] has the values in the first i lines.
Collects(f, os, name) ==
    /\ DOMAIN f = 0..Len(os) /\ f[0] = <<>>
    /\ \A i \in 1..Len(os) :
          f[i] = IF os[i].name = name THEN Append(f[i - 1], os[i].val) ELSE f[i - 1]
    /\ Values(os, name) = f[Len(os)]

\* The values of the options of a name, collected option by option.
LEMMA ValuesAreCollected ==
  ASSUME NEW O, NEW os \in Seq(O), NEW name
  PROVE  \E f : Collects(f, os, name)
<1> DEFINE n == Len(os)
           V == Seq({os[i].val : i \in 1..n})
           op == [q \in (1..n) \X V |->
                    IF os[q[1]].name = name THEN Append(q[2], os[q[1]].val) ELSE q[2]]
           pick == [s \in SUBSET (1..n) |-> Max(s)]
           Step(f) == [s \in SUBSET (1..n) |->
                         IF s = {} THEN <<>>
                         ELSE IF os[Max(s)].name = name
                         THEN Append(f[s \ {Max(s)}], os[Max(s)].val)
                         ELSE f[s \ {Max(s)}]]
           h == CHOOSE f : f = Step(f)
<1>1. n \in Nat /\ DOMAIN os = 1..n
  OBVIOUS
<1>2. PICK g \in [SUBSET (1..n) -> V] : Folding(g, op, <<>>, pick, 1..n)
  <2>1. \A i \in 1..n, v \in V : Append(v, os[i].val) \in V
    <3>1. PICK T : T = {os[i].val : i \in 1..n}
      OBVIOUS
    <3>2. \A t \in T, v \in Seq(T) : Append(v, t) \in Seq(T)
      OBVIOUS
    <3>3. \A i \in 1..n : os[i].val \in T
      BY <3>1
    <3>4. V = Seq(T)
      BY <3>1
    <3> HIDE DEF V
    <3>5. QED
      BY <3>2, <3>3, <3>4
  <2>2. op \in [(1..n) \X V -> V] /\ <<>> \in V
    BY <2>1
  <2> HIDE DEF op, V
  <2>3. QED
    BY <1>1, <2>2, FoldLeftExists
<1>3. g = Step(g)
  <2>1. \A s \in SUBSET (1..n) :
          g[s] = IF s = {} THEN <<>>
                 ELSE IF os[Max(s)].name = name
                 THEN Append(g[s \ {Max(s)}], os[Max(s)].val)
                 ELSE g[s \ {Max(s)}]
    <3>1. TAKE s \in SUBSET (1..n)
    <3>2. CASE s = {}
      BY <1>2, <3>2 DEF Folding
    <3>3. CASE s # {}
      <4>1. Max(s) \in 1..n /\ s \ {Max(s)} \in SUBSET (1..n)
        BY <1>1, <3>3, MaxPicks DEF Picks
      <4>2. g[s] = op[<<Max(s), g[s \ {Max(s)}]>>]
        BY <1>2, <3>3 DEF Folding
      <4>3. g[s \ {Max(s)}] \in V
        BY <4>1
      <4> HIDE DEF V
      <4>4. QED
        BY <3>3, <4>1, <4>2, <4>3
    <3>4. QED
      BY <3>2, <3>3
  <2>2. QED
    BY <2>1
<1>4. h = Step(h)
  BY <1>3
<1>5. Values(os, name) = h[1..n]
  BY <1>1 DEF Values, FoldLeft, MapThenFoldSet
<1> HIDE DEF h, op, V
<1>6. h[1..0] = <<>>
  BY <1>4
<1>7. ASSUME NEW i \in 1..n
      PROVE  h[1..i] = IF os[i].name = name THEN Append(h[1..(i - 1)], os[i].val)
                       ELSE h[1..(i - 1)]
  <2>1. 1..i \in SUBSET (1..n) /\ i \in Nat /\ i # 0
    BY <1>1
  <2>2. Max(1..i) = i /\ (1..i) \ {i} = 1..(i - 1) /\ 1..i # {}
    BY <2>1, MaxOfPrefix
  <2>3. h[1..i] = Step(h)[1..i]
    BY <1>4
  <2>4. QED
    BY <2>1, <2>2, <2>3
<1> DEFINE f == [i \in 0..n |-> h[1..i]]
<1>8. 0 \in 0..n /\ n \in 0..n /\ \A i \in 1..n : i \in 0..n /\ i - 1 \in 0..n
  BY <1>1
<1>9. f[0] = <<>> /\ f[n] = h[1..n] /\ DOMAIN f = 0..n
  BY <1>6, <1>8
<1>10. \A i \in 1..n : f[i] = IF os[i].name = name THEN Append(f[i - 1], os[i].val) ELSE f[i - 1]
  BY <1>7, <1>8
<1> HIDE DEF f
<1>11. Collects(f, os, name)
  BY <1>5, <1>9, <1>10 DEF Collects
<1>12. QED
  BY <1>11

\* There is no value where no line has the option, and only there.
LEMMA NoValues ==
  ASSUME NEW O, NEW os \in Seq(O), NEW name
  PROVE  Values(os, name) = <<>> <=> \A i \in DOMAIN os : os[i].name # name
<1> DEFINE n == Len(os)
           V == Seq({os[i].val : i \in 1..n})
<1>1. PICK f : Collects(f, os, name)
  BY ValuesAreCollected
<1>2. n \in Nat /\ DOMAIN os = 1..n
  OBVIOUS
<1> DEFINE Right(i) == f[i] \in V /\ (f[i] = <<>> <=> \A j \in 1..i : os[j].name # name)
           wrong == {i \in 0..n : ~ Right(i)}
<1>3. Right(0)
  BY <1>1 DEF Collects
<1>4. ASSUME NEW i \in 1..n, Right(i - 1)
      PROVE  Right(i)
  <2>1. 1..i = 1..(i - 1) \cup {i} /\ os[i].val \in {os[j].val : j \in 1..n}
    BY <1>2
  <2>2. CASE os[i].name = name
    <3>1. f[i] = Append(f[i - 1], os[i].val)
      BY <1>1, <2>2 DEF Collects
    <3>2. f[i] \in V /\ f[i] # <<>>
      <4>1. f[i - 1] \in V
        BY <1>4
      <4>2. QED
        BY <2>1, <3>1, <4>1, AppendIsMore
    <3>3. QED
      BY <2>1, <2>2, <3>2
  <2>3. CASE os[i].name # name
    <3>1. f[i] = f[i - 1]
      BY <1>1, <2>3 DEF Collects
    <3>2. QED
      BY <1>4, <2>1, <2>3, <3>1
  <2>4. QED
    BY <2>2, <2>3
<1> HIDE DEF Right
<1>5. wrong = {}
  <2>1. wrong \in SUBSET (0..n) /\ 0 \notin wrong /\ \A i \in wrong : i # 0 => i - 1 \in wrong
    BY <1>2, <1>3, <1>4
  <2> HIDE DEF wrong
  <2>2. QED
    BY <1>2, <2>1, Climb
<1>6. Right(n)
  BY <1>2, <1>5
<1>7. QED
  BY <1>1, <1>2, <1>6 DEF Right, Collects

\* The filter lines of a configuration, the upper ones nearer.
HasFilters(os) == \A i \in DOMAIN os : os[i].name = "filter" => os[i].val \in Seq(Filter)
LineMentions(os, c) == \E i \in DOMAIN os : os[i].name = "filter" /\ Mentions(os[i].val, c)
LineOff(os, c) ==
    \E i \in DOMAIN os :
        /\ os[i].name = "filter" /\ SwitchesOff(os[i].val, c)
        /\ \A j \in DOMAIN os : j < i /\ os[j].name = "filter" => ~ Mentions(os[j].val, c)

\* The filter lines that are collected say what the configuration says.
LEMMA FilterLines ==
  ASSUME NEW O, NEW os \in Seq(O), HasFilters(os), NEW c
  PROVE  /\ Values(os, "filter") \in Seq(Seq(Filter))
         /\ SomeMentions(Values(os, "filter"), c) <=> LineMentions(os, c)
         /\ NearestOff(Values(os, "filter"), c) <=> LineOff(os, c)
<1> DEFINE n == Len(os)
           V == Seq(Seq(Filter))
<1>1. PICK f : Collects(f, os, "filter")
  BY ValuesAreCollected
<1>2. n \in Nat /\ DOMAIN os = 1..n
  OBVIOUS
<1> DEFINE Said(i) == \E j \in 1..i : os[j].name = "filter" /\ Mentions(os[j].val, c)
           Off(i) == \E j \in 1..i :
                       /\ os[j].name = "filter" /\ SwitchesOff(os[j].val, c)
                       /\ \A k \in 1..i : k < j /\ os[k].name = "filter" => ~ Mentions(os[k].val, c)
           Right(i) == /\ f[i] \in V
                       /\ SomeMentions(f[i], c) <=> Said(i)
                       /\ NearestOff(f[i], c) <=> Off(i)
           wrong == {i \in 0..n : ~ Right(i)}
<1>3. Right(0)
  <2>1. f[0] = <<>> /\ 1..0 = {}
    BY <1>1 DEF Collects
  <2>2. QED
    BY <2>1 DEF SomeMentions, NearestOff
<1>4. ASSUME NEW i \in 1..n, Right(i - 1)
      PROVE  Right(i)
  <2>1. 1..i = 1..(i - 1) \cup {i} /\ i \in 1..i /\ \A k \in 1..i : k < i <=> k \in 1..(i - 1)
    BY <1>2
  <2>2. CASE os[i].name = "filter"
    <3> DEFINE v == os[i].val
    <3>1. f[i] = f[i - 1] \o <<v>> /\ v \in Seq(Filter)
      <4>1. f[i] = Append(f[i - 1], v) /\ v \in Seq(Filter)
        BY <1>1, <1>2, <2>2 DEF Collects, HasFilters
      <4>2. f[i - 1] \in V
        BY <1>4
      <4> HIDE DEF v
      <4>3. QED
        BY <4>1, <4>2, AppendIsMore
    <3> HIDE DEF v
    <3>2. <<v>> \in V /\ DOMAIN <<v>> = {1} /\ <<v>>[1] = v
      BY <3>1
    <3>3. SomeMentions(<<v>>, c) <=> Mentions(v, c)
      BY <3>2 DEF SomeMentions
    <3>4. NearestOff(<<v>>, c) <=> SwitchesOff(v, c)
      BY <3>2 DEF NearestOff
    <3>5. /\ f[i] \in V
          /\ SomeMentions(f[i], c) <=> SomeMentions(f[i - 1], c) \/ Mentions(v, c)
          /\ NearestOff(f[i], c) <=>
               NearestOff(f[i - 1], c) \/ (~ SomeMentions(f[i - 1], c) /\ SwitchesOff(v, c))
      <4>1. PICK vs, ws : vs = f[i - 1] /\ ws = <<v>>
        OBVIOUS
      <4>2. vs \in Seq(Seq(Filter)) /\ ws \in Seq(Seq(Filter))
        BY <1>4, <3>2, <4>1
      <4>3. /\ vs \o ws \in Seq(Seq(Filter))
            /\ SomeMentions(vs \o ws, c) <=> SomeMentions(vs, c) \/ SomeMentions(ws, c)
            /\ NearestOff(vs \o ws, c) <=>
                 NearestOff(vs, c) \/ (~ SomeMentions(vs, c) /\ NearestOff(ws, c))
        BY <4>2, MoreLists
      <4>4. QED
        BY <3>1, <3>3, <3>4, <4>1, <4>3
    <3>6. Said(i) <=> Said(i - 1) \/ Mentions(v, c)
      BY <2>1, <2>2 DEF v
    <3>7. Off(i) <=> Off(i - 1) \/ (~ Said(i - 1) /\ SwitchesOff(v, c))
      <4>1. Off(i - 1) => Off(i)
        BY <2>1
      <4>2. ~ Said(i - 1) /\ SwitchesOff(v, c) => Off(i)
        BY <2>1, <2>2 DEF v
      <4>3. Off(i) => Off(i - 1) \/ (~ Said(i - 1) /\ SwitchesOff(v, c))
        BY <2>1, <2>2 DEF v
      <4>4. QED
        BY <4>1, <4>2, <4>3
    <3> HIDE DEF Said, Off
    <3>8. QED
      BY <1>4, <3>5, <3>6, <3>7
  <2>3. CASE os[i].name # "filter"
    <3>1. f[i] = f[i - 1]
      BY <1>1, <2>3 DEF Collects
    <3>2. Said(i) <=> Said(i - 1)
      BY <2>1, <2>3
    <3>3. Off(i) <=> Off(i - 1)
      BY <2>1, <2>3
    <3> HIDE DEF Said, Off
    <3>4. QED
      BY <1>4, <3>1, <3>2, <3>3
  <2>4. QED
    BY <2>2, <2>3
<1> HIDE DEF Right
<1>5. wrong = {}
  <2>1. wrong \in SUBSET (0..n) /\ 0 \notin wrong /\ \A i \in wrong : i # 0 => i - 1 \in wrong
    BY <1>2, <1>3, <1>4
  <2> HIDE DEF wrong
  <2>2. QED
    BY <1>2, <2>1, Climb
<1>6. Right(n)
  BY <1>2, <1>5
<1>7. Said(n) <=> LineMentions(os, c)
  BY <1>2 DEF LineMentions
<1>8. Off(n) <=> LineOff(os, c)
  BY <1>2 DEF LineOff
<1> HIDE DEF Said, Off
<1>9. QED
  BY <1>1, <1>6, <1>7, <1>8 DEF Right, Collects

-----------------------------------------------------------------------------
(* What the options around a file say.                                     *)

\* What the configurations around a file say, up to the level m, the inner ones nearer.
Around(layout, f) == [l \in DOMAIN Path[f] |-> layout[Path[f][l].dir].options]

ConfigsMention(around, m, c) == \E l \in 1..m : LineMentions(around[l], c)

ConfigsOff(around, m, c) ==
    \E l \in 1..m : /\ LineOff(around[l], c)
                    /\ \A k \in 1..m : k < l => ~ LineMentions(around[k], c)

\* The filters of the command line, behind the default.
Given(fl) == AddFilters(DefaultFilters, fl.filters)

OffFor(layout, fl, f, m, c) ==
    \/ ConfigsOff(Around(layout, f), m, c)
    \/ ~ ConfigsMention(Around(layout, f), m, c) /\ SwitchesOff(Given(fl), c)

\* The search for configurations ends at the first that stops it, or at the root.
StopsIn(layout, f, l) ==
    LET config == layout[Path[f][l].dir]
    IN  \/ config.state = "unreadable"
        \/ \E i \in DOMAIN config.options : config.options[i].name = "set noparent"

EndsAt(layout, f, m) ==
    /\ m \in 0..Len(Path[f])
    /\ \A l \in 1..(m - 1) : ~ StopsIn(layout, f, l)
    /\ m = Len(Path[f]) \/ (m # 0 /\ StopsIn(layout, f, m))

\* Of two filter options the nearer one.
Nearer(p, o) == p.level < o.level \/ (p.level = o.level /\ p.line < o.line)

IsOption(o) == o.level \in Nat /\ o.line \in Nat /\ o.val \in Seq(Filter)

\* The strongest filter is the last that matches in the nearest option that mentions
\* the category.
LEMMA StrongestIsInTheNearest ==
  ASSUME NEW f, NEW c,
         \A o \in FilterOptions(f) : IsOption(o),
         \A o, p \in FilterOptions(f) : o.level = p.level /\ o.line = p.line => o = p
  PROVE  SwitchedOff(f, c) <=>
            \E o \in FilterOptions(f) :
               /\ SwitchesOff(o.val, c)
               /\ \A p \in FilterOptions(f) : Nearer(p, o) => ~ Mentions(p.val, c)
<1> DEFINE Of(o, i) == [level |-> o.level, line |-> o.line, position |-> i, sign |-> o.val[i].sign]
<1>1. \A a : a \in FiltersFor(f, c) <=>
               \E o \in FilterOptions(f) : \E i \in DOMAIN o.val : Matches(o.val[i], c) /\ a = Of(o, i)
  BY DEF FiltersFor
<1>2. \A o \in FilterOptions(f) : \A i \in DOMAIN o.val : i \in Nat
  BY DEF IsOption
<1>3. ASSUME SwitchedOff(f, c)
      PROVE  \E o \in FilterOptions(f) :
                /\ SwitchesOff(o.val, c)
                /\ \A p \in FilterOptions(f) : Nearer(p, o) => ~ Mentions(p.val, c)
  <2>1. PICK a \in FiltersFor(f, c) :
           a.sign = "-" /\ \A b \in FiltersFor(f, c) : b = a \/ Stronger(a, b)
    BY <1>3 DEF SwitchedOff
  <2>2. PICK o \in FilterOptions(f) :
            \E i \in DOMAIN o.val : Matches(o.val[i], c) /\ a = Of(o, i)
    BY <1>1, <2>1
  <2>3. PICK i \in DOMAIN o.val : Matches(o.val[i], c) /\ a = Of(o, i)
    BY <2>2
  <2>4. ASSUME NEW j \in DOMAIN o.val, j > i
        PROVE  ~ Matches(o.val[j], c)
    <3>1. SUFFICES ASSUME Matches(o.val[j], c) PROVE FALSE
      OBVIOUS
    <3>2. Of(o, j) \in FiltersFor(f, c)
      BY <1>1, <3>1
    <3>3. Of(o, j) = a \/ Stronger(a, Of(o, j))
      BY <2>1, <3>2
    <3>4. i \in Nat /\ j \in Nat /\ o.level \in Nat /\ o.line \in Nat
      BY <1>2 DEF IsOption
    <3>5. QED
      BY <2>3, <2>4, <3>3, <3>4 DEF Stronger
  <2>5. SwitchesOff(o.val, c)
    BY <2>1, <2>3, <2>4 DEF SwitchesOff
  <2>6. ASSUME NEW p \in FilterOptions(f), Nearer(p, o), Mentions(p.val, c)
        PROVE  FALSE
    <3>1. PICK j \in DOMAIN p.val : Matches(p.val[j], c)
      BY <2>6 DEF Mentions
    <3>2. Of(p, j) \in FiltersFor(f, c)
      BY <1>1, <3>1
    <3>3. Of(p, j) = a \/ Stronger(a, Of(p, j))
      BY <2>1, <3>2
    <3>4. /\ o.level \in Nat /\ o.line \in Nat /\ p.level \in Nat /\ p.line \in Nat
      BY DEF IsOption
    <3>5. QED
      BY <2>3, <2>6, <3>3, <3>4 DEF Stronger, Nearer
  <2>7. QED
    BY <2>5, <2>6
<1>4. ASSUME NEW o \in FilterOptions(f), SwitchesOff(o.val, c),
             \A p \in FilterOptions(f) : Nearer(p, o) => ~ Mentions(p.val, c)
      PROVE  SwitchedOff(f, c)
  <2>1. PICK i \in DOMAIN o.val :
           /\ Matches(o.val[i], c) /\ o.val[i].sign = "-"
           /\ \A j \in DOMAIN o.val : j > i => ~ Matches(o.val[j], c)
    BY <1>4 DEF SwitchesOff
  <2>2. Of(o, i) \in FiltersFor(f, c) /\ Of(o, i).sign = "-"
    BY <1>1, <2>1
  <2>3. ASSUME NEW b \in FiltersFor(f, c)
        PROVE  b = Of(o, i) \/ Stronger(Of(o, i), b)
    <3>1. PICK p \in FilterOptions(f) :
              \E j \in DOMAIN p.val : Matches(p.val[j], c) /\ b = Of(p, j)
      BY <1>1
    <3>2. PICK j \in DOMAIN p.val : Matches(p.val[j], c) /\ b = Of(p, j)
      BY <3>1
    <3>3. ~ Nearer(p, o)
      BY <1>4, <3>2 DEF Mentions
    <3>4. /\ o.level \in Nat /\ o.line \in Nat /\ p.level \in Nat /\ p.line \in Nat
          /\ i \in Nat /\ j \in Nat
      BY <1>2 DEF IsOption
    <3>5. CASE p = o
      BY <2>1, <3>2, <3>4, <3>5 DEF Stronger
    <3>6. CASE p # o
      <4>1. p.level # o.level \/ p.line # o.line
        BY <3>6
      <4>2. QED
        BY <3>2, <3>3, <3>4, <4>1 DEF Stronger, Nearer
    <3>7. QED
      BY <3>5, <3>6
  <2>4. QED
    BY <2>2, <2>3 DEF SwitchedOff
<1>5. QED
  BY <1>3, <1>4

\* The configurations that count are those up to where the search ends.
LEMMA ReachedAreBelow ==
  ASSUME NEW f \in DOMAIN Texts, NEW m, EndsAt(configs, f, m)
  PROVE  Reached(f) = 1..m
<1>1. Len(Path[f]) \in Nat /\ DOMAIN Path[f] = 1..Len(Path[f])
  BY LayoutsAssumption
<1>2. \A l : Stops(f, l) <=> StopsIn(configs, f, l)
  BY DEF Stops, StopsIn, ConfigAt
<1>3. m \in 0..Len(Path[f])
  BY DEF EndsAt
<1>4. ASSUME NEW l \in 1..m PROVE l \in Reached(f)
  <2>1. l \in DOMAIN Path[f] /\ \A k \in 1..(l - 1) : k \in 1..(m - 1)
    BY <1>1, <1>3
  <2>2. QED
    BY <1>2, <2>1 DEF Reached, EndsAt
<1>5. ASSUME NEW l \in Reached(f) PROVE l \in 1..m
  <2>1. l \in 1..Len(Path[f]) /\ \A k \in 1..(l - 1) : ~ StopsIn(configs, f, k)
    BY <1>1, <1>2 DEF Reached
  <2>2. SUFFICES ASSUME l > m PROVE FALSE
    BY <1>1, <1>3, <2>1
  <2>3. m # 0 /\ StopsIn(configs, f, m)
    BY <1>1, <1>3, <2>1, <2>2 DEF EndsAt
  <2>4. m \in 1..(l - 1)
    BY <1>1, <1>3, <2>1, <2>2, <2>3
  <2>5. QED
    BY <2>1, <2>3, <2>4
<1>6. QED
  BY <1>4, <1>5

\* The filter lines in a file's configurations, the flags and the default.
LEMMA OptionsThatCount ==
  ASSUME NEW f \in DOMAIN Texts, NEW m, EndsAt(configs, f, m)
  PROVE  \A o : o \in FilterOptions(f) <=>
            \/ \E l \in 1..m : \E i \in DOMAIN Around(configs, f)[l] :
                  /\ Around(configs, f)[l][i].name = "filter"
                  /\ o = [level |-> l, line |-> i, val |-> Around(configs, f)[l][i].val]
            \/ o = [level |-> Len(Path[f]) + 1, line |-> 1, val |-> flags.filters]
            \/ o = [level |-> Len(Path[f]) + 2, line |-> 1, val |-> DefaultFilters]
<1>1. Reached(f) = 1..m
  BY ReachedAreBelow
<1>2. \A l \in 1..m : l \in DOMAIN Path[f]
  BY <1>1 DEF Reached
<1>3. \A l \in 1..m : Around(configs, f)[l] = ConfigAt(f, l).options
  BY <1>2 DEF Around, ConfigAt
<1>4. \A o : o \in OptionsOf(f, "filter") <=>
         \E l \in 1..m : \E i \in DOMAIN ConfigAt(f, l).options :
            /\ ConfigAt(f, l).options[i].name = "filter"
            /\ o = [level |-> l, line |-> i, val |-> ConfigAt(f, l).options[i].val]
  BY <1>1 DEF OptionsOf
<1>5. QED
  BY <1>3, <1>4 DEF FilterOptions

\* What the assumption on the layouts says of the directories around a file.
LEMMA AroundFits ==
  ASSUME NEW layout \in Layouts, NEW f \in DOMAIN Texts
  PROVE  /\ Len(Path[f]) \in Nat /\ DOMAIN Path[f] = 1..Len(Path[f])
         /\ \A l \in DOMAIN Path[f] :
               LET config == layout[Path[f][l].dir]
               IN  /\ Around(layout, f)[l] = config.options
                   /\ config.options \in Seq(Range(config.options))
                   /\ HasFilters(config.options)
                   /\ config.state \in {"none", "unreadable", "read"}
                   /\ config.state # "read" => config.options = <<>>
<1>1. Len(Path[f]) \in Nat /\ DOMAIN Path[f] = 1..Len(Path[f])
  BY LayoutsAssumption
<1>2. ASSUME NEW l \in DOMAIN Path[f]
      PROVE  LET config == layout[Path[f][l].dir]
             IN  /\ Around(layout, f)[l] = config.options
                 /\ config.options \in Seq(Range(config.options))
                 /\ HasFilters(config.options)
                 /\ config.state \in {"none", "unreadable", "read"}
                 /\ config.state # "read" => config.options = <<>>
  <2>1. Path[f][l] \in Range(Path[f])
    BY DEF Range
  <2>2. PICK config : config = layout[Path[f][l].dir]
    OBVIOUS
  <2>3. /\ config.state \in {"none", "unreadable", "read"}
        /\ config.options \in Seq(Range(config.options))
        /\ config.state # "read" => config.options = <<>>
        /\ \A o \in Range(config.options) : o.name = "filter" => o.val \in Seq(Filter)
    BY <2>1, <2>2, LayoutsAssumption
  <2>4. HasFilters(config.options)
    BY <2>3 DEF HasFilters, Range
  <2>5. Around(layout, f)[l] = config.options
    BY <2>2 DEF Around
  <2>6. QED
    BY <2>2, <2>3, <2>4, <2>5
<1>3. QED
  BY <1>1, <1>2

\* build/include_alpha, which is off by default, is a category.
LEMMA DefaultIsAFilter == DefaultFilters \in Seq(Filter)
<1>1. [sign |-> "-", prefix |-> "build/include_alpha"] \in Filter
  BY CategoriesAssumption DEF Filter
<1>2. QED
  BY <1>1 DEF DefaultFilters

\* The nearest filter line of the configurations decides, or else the command line,
\* or else the default.
LEMMA SwitchedOffMeans ==
  ASSUME configs \in Layouts, flags \in CommandLines,
         NEW f \in DOMAIN Texts, NEW m, EndsAt(configs, f, m), NEW c
  PROVE  SwitchedOff(f, c) <=> OffFor(configs, flags, f, m, c)
<1> DEFINE os == Around(configs, f)
           n == Len(Path[f])
           Conf(l, i) == [level |-> l, line |-> i, val |-> os[l][i].val]
           IsConf(l, i) == l \in 1..m /\ i \in DOMAIN os[l] /\ os[l][i].name = "filter"
           cmd == [level |-> n + 1, line |-> 1, val |-> flags.filters]
           def == [level |-> n + 2, line |-> 1, val |-> DefaultFilters]
           FO == FilterOptions(f)
           Decides(o) == /\ SwitchesOff(o.val, c)
                         /\ \A p \in FO : Nearer(p, o) => ~ Mentions(p.val, c)
<1>1. n \in Nat /\ m \in 0..n /\ m \in Nat /\ \A l \in 1..m : l \in DOMAIN Path[f] /\ l \in Nat /\ l <= n
  BY AroundFits DEF EndsAt
<1>2. \A o : o \in FO <=> \/ \E l, i : IsConf(l, i) /\ o = Conf(l, i)
                          \/ o = cmd \/ o = def
  BY OptionsThatCount
<1>3. \A l, i : IsConf(l, i) => i \in Nat /\ os[l][i].val \in Seq(Filter)
  <2>1. SUFFICES ASSUME NEW l, NEW i, IsConf(l, i)
                 PROVE  i \in Nat /\ os[l][i].val \in Seq(Filter)
    OBVIOUS
  <2>2. PICK opts : opts = os[l]
    OBVIOUS
  <2>3. opts \in Seq(Range(opts)) /\ HasFilters(opts)
    BY <1>1, <2>1, <2>2, AroundFits
  <2>4. QED
    BY <2>1, <2>2, <2>3 DEF HasFilters
<1>4. flags.filters \in Seq(Filter) /\ DefaultFilters \in Seq(Filter)
  BY CommandLinesAssumption, DefaultIsAFilter
<1> HIDE DEF os, n, FO
<1>5. \A o \in FO : IsOption(o)
  BY <1>1, <1>2, <1>3, <1>4 DEF IsOption
<1>6. \A o, p \in FO : o.level = p.level /\ o.line = p.line => o = p
  BY <1>1, <1>2, <1>3
<1>7. SwitchedOff(f, c) <=> \E o \in FO : Decides(o)
  BY <1>5, <1>6, StrongestIsInTheNearest DEF FO
<1>8. (\E o \in FO : Decides(o)) <=>
         (\E l, i : IsConf(l, i) /\ Decides(Conf(l, i))) \/ Decides(cmd) \/ Decides(def)
  <2> HIDE DEF Decides, Conf, IsConf, cmd, def
  <2>1. QED
    BY <1>2
<1>9. \A x : Decides(x) <=>
         /\ SwitchesOff(x.val, c)
         /\ \A k, j : IsConf(k, j) /\ Nearer(Conf(k, j), x) => ~ Mentions(Conf(k, j).val, c)
         /\ Nearer(cmd, x) => ~ Mentions(cmd.val, c)
         /\ Nearer(def, x) => ~ Mentions(def.val, c)
  <2> HIDE DEF Conf, IsConf, cmd, def
  <2>1. TAKE x
  <2>2. (\A p \in FO : Nearer(p, x) => ~ Mentions(p.val, c)) <=>
           /\ \A k, j : IsConf(k, j) /\ Nearer(Conf(k, j), x) => ~ Mentions(Conf(k, j).val, c)
           /\ Nearer(cmd, x) => ~ Mentions(cmd.val, c)
           /\ Nearer(def, x) => ~ Mentions(def.val, c)
    BY <1>2
  <2>3. QED
    BY <2>2
<1>10. cmd.val = flags.filters /\ def.val = DefaultFilters /\ \A k, j : Conf(k, j).val = os[k][j].val
  OBVIOUS
<1> HIDE DEF Decides
<1>11. ConfigsMention(os, m, c) <=> \E l, i : IsConf(l, i) /\ Mentions(os[l][i].val, c)
  BY DEF ConfigsMention, LineMentions
<1>12. ASSUME NEW l, NEW i, IsConf(l, i)
       PROVE  Decides(Conf(l, i)) <=>
                 /\ SwitchesOff(os[l][i].val, c)
                 /\ \A k, j : IsConf(k, j) /\ (k < l \/ (k = l /\ j < i)) => ~ Mentions(os[k][j].val, c)
  <2>1. l \in Nat /\ i \in Nat /\ l <= n
    BY <1>1, <1>3, <1>12
  <2>2. ~ Nearer(cmd, Conf(l, i)) /\ ~ Nearer(def, Conf(l, i))
    BY <1>1, <2>1 DEF Nearer
  <2>3. \A k, j : Nearer(Conf(k, j), Conf(l, i)) <=> (k < l \/ (k = l /\ j < i))
    BY DEF Nearer
  <2> HIDE DEF Conf, cmd, def, IsConf
  <2>4. QED
    BY <1>9, <1>10, <2>2, <2>3
<1>13. Decides(cmd) <=> SwitchesOff(flags.filters, c) /\ ~ ConfigsMention(os, m, c)
  <2>1. ~ Nearer(cmd, cmd) /\ ~ Nearer(def, cmd)
    BY <1>1 DEF Nearer
  <2>2. \A k, j : IsConf(k, j) => Nearer(Conf(k, j), cmd)
    BY <1>1 DEF Nearer
  <2> HIDE DEF Conf, cmd, def, IsConf
  <2>3. QED
    BY <1>11, <1>9, <1>10, <2>1, <2>2
<1>14. Decides(def) <=> /\ SwitchesOff(DefaultFilters, c)
                        /\ ~ Mentions(flags.filters, c) /\ ~ ConfigsMention(os, m, c)
  <2>1. Nearer(cmd, def) /\ ~ Nearer(def, def)
    BY <1>1 DEF Nearer
  <2>2. \A k, j : IsConf(k, j) => Nearer(Conf(k, j), def)
    BY <1>1 DEF Nearer
  <2> HIDE DEF Conf, cmd, def, IsConf
  <2>3. QED
    BY <1>11, <1>9, <1>10, <2>1, <2>2
<1>15. (\E l, i : IsConf(l, i) /\ Decides(Conf(l, i))) <=> ConfigsOff(os, m, c)
  <2>1. ASSUME NEW l, NEW i, IsConf(l, i), Decides(Conf(l, i))
        PROVE  ConfigsOff(os, m, c)
    <3>1. SwitchesOff(os[l][i].val, c) /\ l \in 1..m
      BY <1>12, <2>1
    <3>2. LineOff(os[l], c)
      BY <1>12, <2>1 DEF LineOff
    <3>3. \A k \in 1..m : k < l => ~ LineMentions(os[k], c)
      BY <1>12, <2>1 DEF LineMentions
    <3>4. QED
      BY <3>1, <3>2, <3>3 DEF ConfigsOff
  <2>2. ASSUME ConfigsOff(os, m, c)
        PROVE  \E l, i : IsConf(l, i) /\ Decides(Conf(l, i))
    <3>1. PICK l \in 1..m : LineOff(os[l], c) /\ \A k \in 1..m : k < l => ~ LineMentions(os[k], c)
      BY <2>2 DEF ConfigsOff
    <3>2. PICK i \in DOMAIN os[l] :
             /\ os[l][i].name = "filter" /\ SwitchesOff(os[l][i].val, c)
             /\ \A j \in DOMAIN os[l] : j < i /\ os[l][j].name = "filter" => ~ Mentions(os[l][j].val, c)
      BY <3>1 DEF LineOff
    <3>3. IsConf(l, i)
      BY <3>1, <3>2
    <3>4. \A k, j : IsConf(k, j) /\ (k < l \/ (k = l /\ j < i)) => ~ Mentions(os[k][j].val, c)
      BY <3>1, <3>2 DEF LineMentions
    <3>5. Decides(Conf(l, i))
      BY <1>12, <3>2, <3>3, <3>4
    <3>6. QED
      BY <3>3, <3>5
  <2>3. QED
    BY <2>1, <2>2
<1>16. SwitchesOff(Given(flags), c) <=>
         \/ SwitchesOff(flags.filters, c)
         \/ ~ Mentions(flags.filters, c) /\ SwitchesOff(DefaultFilters, c)
  BY <1>4, MoreFilters DEF Given, AddFilters
<1> HIDE DEF Decides, Conf, IsConf, cmd, def
<1>17. QED
  BY <1>7, <1>8, <1>13, <1>14, <1>15, <1>16 DEF OffFor, os

-----------------------------------------------------------------------------
(* The statistics add up.                                                  *)

\* Counts for finitely many categories.
Statistics(t) == IsFiniteSet(DOMAIN t) /\ t \in [DOMAIN t -> Nat]

\* The total is that of the statistics, where these are kept, and decides the exit
\* status.
CountsFit ==
    /\ error_count \in Nat /\ Statistics(errors_by_category)
    /\ pc = "arguments" => error_count = 0 /\ Total(errors_by_category) = 0
    /\ counting \in {"toplevel", "detailed"} => error_count = Total(errors_by_category)
    /\ pc = "done" => (exit = 0 <=> error_count = 0)

\* The files that are left have texts, and there is one while a file is processed.
FilesFit ==
    /\ rest \in Seq(DOMAIN Texts)
    /\ pc \in {"config", "open", "lines"} => rest # <<>>
    /\ linenum \in Nat

CountInv == FilesFit /\ CountsFit

\* Counting finitely many problems keeps the statistics finite and adds to their total.
LEMMA TallyFits ==
  ASSUME NEW e, Statistics(e), NEW P, IsFiniteSet(P)
  PROVE  /\ Statistics(Tally(e, P))
         /\ Total(Tally(e, P)) = Total(e) + Cardinality(P)
         /\ Cardinality(P) \in Nat /\ Total(e) \in Nat
<1> DEFINE N == {CategoryCounted(p.category) : p \in P}
           C == DOMAIN e \cup N
<1>1. IsFiniteSet(C)
  <2>1. IsFiniteSet(N)
    <3> DEFINE f == [p \in P |-> CategoryCounted(p.category)]
    <3>1. f \in Surjection(P, N)
      BY DEF Surjection
    <3>2. QED
      BY <3>1, FS_Surjection
  <2>2. QED
    BY <2>1, FS_Union DEF Statistics
<1>2. e \in Tallies(C)
  BY DEF Statistics, Tallies
<1>3. \A p \in P : CategoryCounted(p.category) \in C
  OBVIOUS
<1> HIDE DEF C
<1>4. Tally(e, P) \in Tallies(C) /\ Total(Tally(e, P)) = Total(e) + Cardinality(P)
  BY <1>1, <1>2, <1>3, TallyAdds
<1>5. Statistics(Tally(e, P))
  <2>1. PICK D \in SUBSET C : Tally(e, P) \in [D -> Nat]
    BY <1>4 DEF Tallies
  <2>2. QED
    BY <1>1, <2>1, FS_Subset DEF Statistics
<1>6. Total(e) \in Nat
  <2>1. \A x \in DOMAIN e : e[x] \in Nat
    BY DEF Statistics
  <2>2. QED
    BY <2>1, SumPicks DEF Total, Statistics
<1>7. QED
  BY <1>4, <1>5, <1>6, FS_CardinalityType

\* Nothing was counted yet.
LEMMA InitFits == Init => CountInv
<1> SUFFICES ASSUME Init PROVE CountInv
  OBVIOUS
<1>1. FilesFit
  BY CommandLinesAssumption DEF Init, FilesFit
<1>2. errors_by_category = [c \in {} |-> 0] /\ error_count = 0 /\ pc = "arguments"
  BY DEF Init
<1>3. DOMAIN errors_by_category = {} /\ Statistics(errors_by_category)
  BY <1>2, FS_EmptySet DEF Statistics
<1>4. Total(errors_by_category) = 0
  BY <1>3, SumPicks, FS_EmptySet DEF Total
<1>5. QED
  BY <1>1, <1>2, <1>3, <1>4 DEF CountInv, CountsFit

\* What Error does to the counters.
LEMMA ReportCounts ==
  ASSUME CountsFit, NEW problems, IsFiniteSet(problems), Report(problems),
         UNCHANGED counting, pc # "arguments", pc' \notin {"arguments", "done"}
  PROVE  CountsFit'
<1> DEFINE printed == {j.problem : j \in {k \in judged' : k.printed}}
<1>1. printed \in SUBSET problems
  <2> DEFINE Verdict(p) == ShouldPrintError(suppressions', global_suppressions', verbosity,
                                            filters, p, p.line)
  <2>1. judged' = {[problem |-> p, printed |-> Verdict(p)] : p \in problems}
    BY DEF Report
  <2> HIDE DEF Verdict
  <2>2. \A j \in judged' : j.problem \in problems
    BY <2>1
  <2>3. QED
    BY <2>2
<1>2. IsFiniteSet(printed)
  BY <1>1, FS_Subset
<1>3. /\ error_count' = error_count + Cardinality(printed)
      /\ errors_by_category' = IF counting \in {"toplevel", "detailed"}
                               THEN Tally(errors_by_category, printed) ELSE errors_by_category
  BY DEF Report, Tally
<1> HIDE DEF printed
<1>4. PICK e : e = errors_by_category
  OBVIOUS
<1>5. Statistics(e) /\ error_count \in Nat
  BY <1>4 DEF CountsFit
<1>6. PICK P : P = printed
  OBVIOUS
<1>7. /\ Statistics(Tally(e, P)) /\ Total(Tally(e, P)) = Total(e) + Cardinality(P)
      /\ Cardinality(P) \in Nat /\ Total(e) \in Nat
  BY <1>2, <1>5, <1>6, TallyFits
<1>8. CASE counting \in {"toplevel", "detailed"}
  <2>1. error_count = Total(e)
    BY <1>4, <1>8 DEF CountsFit
  <2>2. errors_by_category' = Tally(e, P) /\ error_count' = error_count + Cardinality(P)
    BY <1>3, <1>4, <1>6, <1>8
  <2>3. Statistics(errors_by_category') /\ error_count' = Total(errors_by_category')
    BY <1>7, <2>1, <2>2
  <2>4. QED
    BY <1>5, <1>7, <2>2, <2>3 DEF CountsFit
<1>9. CASE counting \notin {"toplevel", "detailed"}
  <2>1. errors_by_category' = e /\ error_count' = error_count + Cardinality(P)
    BY <1>3, <1>4, <1>6, <1>9
  <2>2. QED
    BY <1>5, <1>7, <1>9, <2>1 DEF CountsFit
<1>10. QED
  BY <1>8, <1>9

\* Finitely many values of a function make a finite set.
LEMMA ImageIsFinite ==
  ASSUME NEW S, IsFiniteSet(S), NEW f, DOMAIN f = S
  PROVE  IsFiniteSet({f[x] : x \in S})
<1> DEFINE h == [x \in S |-> f[x]]
<1>1. h \in Surjection(S, {f[x] : x \in S})
  BY DEF Surjection
<1>2. QED
  BY <1>1, FS_Surjection

\* As many problems as there were before, with the part that has found them.
LEMMA FoundIsFinite ==
  ASSUME NEW by, NEW problems, IsFiniteSet(problems)
  PROVE  IsFiniteSet(Found(by, problems))
<1> DEFINE f == [p \in problems |->
                   [category |-> p.category, confidence |-> p.confidence, line |-> p.line, by |-> by]]
<1>1. Found(by, problems) = {f[p] : p \in problems}
  BY DEF Found
<1> HIDE DEF f
<1>2. DOMAIN f = problems
  BY DEF f
<1>3. QED
  BY <1>1, <1>2, ImageIsFinite

\* The marks of finitely many lines have finitely many problems.
LEMMA NolintProblemsAreFinite ==
  ASSUME NEW lines, NEW ns, IsFiniteSet(ns)
  PROVE  IsFiniteSet(NolintProblems(lines, ns))
<1> DEFINE f == [n \in ns |-> [category |-> "readability/nolint", confidence |-> 5, line |-> n]]
<1>1. NolintProblems(lines, ns) \in SUBSET {f[n] : n \in ns}
  BY DEF NolintProblems
<1> HIDE DEF f
<1>2. DOMAIN f = ns
  BY DEF f
<1>3. IsFiniteSet({f[n] : n \in ns})
  BY <1>2, ImageIsFinite
<1>4. QED
  BY <1>1, <1>3, FS_Subset

\* A line has finitely many problems.
LEMMA LineProblemsAreFinite ==
  ASSUME NEW line, NEW n, IsFiniteSet(line.problems), IsFiniteSet(line.header_problems)
  PROVE  IsFiniteSet(LineProblems(line, n))
<1> DEFINE long == IF line.width > line_length
                   THEN {[category |-> "whitespace/line_length", confidence |-> 2, line |-> n]}
                   ELSE {}
           inHeader == IF IsHeaderExtension(Text.extension) THEN line.header_problems ELSE {}
           ofNolint == NolintProblems(Text.lines, {n})
<1>1. IsFiniteSet(long) /\ IsFiniteSet(inHeader)
  BY FS_EmptySet, FS_Singleton
<1>2. IsFiniteSet(ofNolint)
  <2>1. IsFiniteSet({n})
    BY FS_Singleton
  <2>2. QED
    BY <2>1, NolintProblemsAreFinite
<1>3. LineProblems(line, n) = ((ofNolint \cup line.problems) \cup inHeader) \cup long
  BY DEF LineProblems
<1> HIDE DEF long, inHeader, ofNolint
<1>4. IsFiniteSet(ofNolint \cup line.problems)
  BY <1>2, FS_Union
<1>5. IsFiniteSet((ofNolint \cup line.problems) \cup inHeader)
  BY <1>1, <1>4, FS_Union
<1>6. QED
  BY <1>1, <1>3, <1>5, FS_Union

\* And finitely many further down.
LEMMA ProblemsAheadAreFinite ==
  ASSUME NEW line
  PROVE  /\ IsFiniteSet(NolintProblems(Text.lines, Ahead(line)))
         /\ IsFiniteSet(SemicolonProblems(line))
<1>1. IsFiniteSet(Ahead(line))
  <2>1. IsFiniteSet({line.closing - 1, line.closing})
    <3>1. IsFiniteSet({line.closing - 1}) /\ IsFiniteSet({line.closing})
      BY FS_Singleton
    <3>2. IsFiniteSet({line.closing - 1} \cup {line.closing})
      BY <3>1, FS_Union
    <3>3. {line.closing - 1} \cup {line.closing} = {line.closing - 1, line.closing}
      OBVIOUS
    <3>4. QED
      BY <3>2, <3>3
  <2>2. Ahead(line) \in SUBSET {line.closing - 1, line.closing}
    BY DEF Ahead
  <2>3. QED
    BY <2>1, <2>2, FS_Subset
<1>2. QED
  BY <1>1, NolintProblemsAreFinite, FS_EmptySet, FS_Singleton DEF SemicolonProblems

\* Finitely many lines end in CR LF.
LEMMA MixedLineEndsAreFinite ==
  ASSUME FilesFit, rest # <<>>
  PROVE  IsFiniteSet(MixedLineEnds)
<1>1. Len(Text.lines) \in Nat /\ DOMAIN Text.lines = 1..Len(Text.lines)
  BY TextsAssumption DEF FilesFit, Text, File
<1> DEFINE f == [n \in DOMAIN Text.lines |->
                   [category |-> "whitespace/newline", confidence |-> 1, line |-> n]]
<1>2. MixedLineEnds \in SUBSET {f[n] : n \in DOMAIN Text.lines}
  BY DEF MixedLineEnds
<1>3. IsFiniteSet(DOMAIN Text.lines)
  BY <1>1, FS_Interval
<1>4. DOMAIN f = DOMAIN Text.lines
  OBVIOUS
<1> HIDE DEF f
<1>5. IsFiniteSet({f[n] : n \in DOMAIN Text.lines})
  BY <1>3, <1>4, ImageIsFinite
<1>6. QED
  BY <1>2, <1>5, FS_Subset

\* Nothing that the statistics depend on changes.
LEMMA CountsStay ==
  ASSUME CountsFit, UNCHANGED <<counts, counting, exit>>, pc' \notin {"arguments", "done"}
  PROVE  CountsFit'
BY DEF CountsFit, counts

\* The files that are left stay the same, or one was finished.
LEMMA RestStays ==
  ASSUME FilesFit, UNCHANGED <<rest, linenum>>, rest # <<>>
  PROVE  FilesFit'
BY DEF FilesFit

\* One file less is left.
LEMMA RestGetsShorter ==
  ASSUME FilesFit, rest' = Tail(rest), UNCHANGED linenum, rest # <<>>, pc' = "main"
  PROVE  FilesFit'
BY DEF FilesFit

\* Only the reports count, and main exits by what was counted.
LEMMA StepFits ==
  ASSUME CountInv, [Next]_vars
  PROVE  CountInv'
<1> USE DEF CountInv
<1>1. CASE PrintUsage
  BY <1>1 DEF PrintUsage, Die, Silent, CountsFit, FilesFit, counts, lintState
<1>2. CASE ParseArguments
  <2>1. FilesFit'
    BY <1>2 DEF ParseArguments, Die, FilesFit
  <2>2. error_count' = 0 /\ Total(errors_by_category') = 0 /\ Statistics(errors_by_category')
    BY <1>2 DEF ParseArguments, CountsFit, Silent, counts
  <2>3. pc' \in {"main", "died"}
    BY <1>2 DEF ParseArguments, Die
  <2>4. QED
    BY <2>1, <2>2, <2>3 DEF CountsFit
<1>3. CASE BeginFile
  <2>1. FilesFit'
    BY <1>3 DEF BeginFile, FilesFit
  <2>2. CountsFit'
    BY <1>3, CountsStay DEF BeginFile, Silent, counts
  <2>3. QED
    BY <2>1, <2>2
<1>4. CASE Exit
  <2>1. FilesFit'
    BY <1>4 DEF Exit, FilesFit
  <2>2. CountsFit'
    BY <1>4 DEF Exit, Silent, counts, CountsFit, lintState
  <2>3. QED
    BY <2>1, <2>2
<1>5. CASE NoConfig
  <2>1. FilesFit'
    BY <1>5, RestStays DEF NoConfig, InTree, FilesFit
  <2>2. CountsFit'
    BY <1>5, CountsStay DEF NoConfig, InTree, Silent, counts, lintState
  <2>3. QED
    BY <2>1, <2>2
<1>6. CASE UnreadableConfig
  <2>1. FilesFit'
    BY <1>6, RestStays DEF UnreadableConfig, InTree, FilesFit
  <2>2. CountsFit'
    BY <1>6, CountsStay DEF UnreadableConfig, InTree, Silent, counts, lintState
  <2>3. QED
    BY <2>1, <2>2
<1>7. CASE ReadConfig
  <2>1. FilesFit'
    BY <1>7, RestStays DEF ReadConfig, HasOptions, InTree, FilesFit
  <2>2. CountsFit'
    BY <1>7, CountsStay DEF ReadConfig, HasOptions, InTree, Silent, counts, lintState
  <2>3. QED
    BY <2>1, <2>2
<1>8. CASE ExcludeFile
  <2>1. FilesFit'
    BY <1>8, RestGetsShorter DEF ExcludeFile, HasOptions, InTree, LeaveFile, FilesFit
  <2>2. CountsFit'
    BY <1>8, CountsStay DEF ExcludeFile, HasOptions, InTree, LeaveFile, Silent, counts
  <2>3. QED
    BY <2>1, <2>2
<1>9. CASE ApplyFilters
  <2>1. FilesFit'
    BY <1>9 DEF ApplyFilters, Die, FilesFit
  <2>2. CountsFit'
    <3>1. CASE pc' = "open"
      BY <1>9, <3>1, CountsStay DEF ApplyFilters, Die, Silent, counts
    <3>2. CASE pc' = "died"
      BY <1>9, <3>2 DEF ApplyFilters, Die, Silent, counts, CountsFit
    <3>3. QED
      BY <1>9, <3>1, <3>2 DEF ApplyFilters, Die
  <2>3. QED
    BY <2>1, <2>2
<1>10. CASE SkipFile
  <2>1. FilesFit'
    BY <1>10, RestGetsShorter DEF SkipFile, LeaveFile, FilesFit
  <2>2. CountsFit'
    BY <1>10, CountsStay DEF SkipFile, LeaveFile, Silent, counts
  <2>3. QED
    BY <2>1, <2>2
<1>11. CASE OpenFile
  <2>1. FilesFit'
    BY <1>11 DEF OpenFile, FilesFit
  <2>2. IsFiniteSet(Text.early)
    BY <1>11, TextsAssumption DEF OpenFile, FilesFit, Text, File
  <2>3. IsFiniteSet(Found("cleansing", Text.early))
    BY <2>2, FoundIsFinite
  <2>4. CountsFit'
    BY <1>11, <2>3, ReportCounts DEF OpenFile, lintState
  <2>5. QED
    BY <2>1, <2>4
<1>12. CASE ReadLine
  <2>1. FilesFit'
    BY <1>12 DEF ReadLine, FilesFit
  <2>2. CountsFit'
    <3>1. PICK n, line : n = linenum' /\ line = Text.lines[linenum']
      OBVIOUS
    <3>2. n \in DOMAIN Text.lines
      BY <1>12, <3>1, TextsAssumption DEF ReadLine, FilesFit, Text, File
    <3>3. /\ IsFiniteSet(line.problems) /\ IsFiniteSet(line.header_problems)
          /\ IsFiniteSet(line.bodies)
      BY <1>12, <3>1, <3>2, TextsAssumption DEF ReadLine, FilesFit, Text, File
    <3> DEFINE check == Found("check", LineProblems(line, n))
               ahead == Found("ahead", NolintProblems(Text.lines, Ahead(line)))
               semicolon == Found("semicolon", SemicolonProblems(line))
               body == Found("body", line.bodies)
    <3>4. IsFiniteSet(LineProblems(line, n))
      BY <3>3, LineProblemsAreFinite
    <3>5. /\ IsFiniteSet(NolintProblems(Text.lines, Ahead(line)))
          /\ IsFiniteSet(SemicolonProblems(line))
      BY ProblemsAheadAreFinite
    <3>6. /\ IsFiniteSet(check) /\ IsFiniteSet(ahead) /\ IsFiniteSet(semicolon)
          /\ IsFiniteSet(body)
      BY <3>3, <3>4, <3>5, FoundIsFinite
    <3>7. Report(check \cup ahead \cup semicolon \cup body)
      BY <1>12, <3>1 DEF ReadLine
    <3> HIDE DEF check, ahead, semicolon, body
    <3>8. PICK problems : problems = check \cup ahead \cup semicolon \cup body
      OBVIOUS
    <3>9. IsFiniteSet(problems)
      <4>1. IsFiniteSet(check \cup ahead)
        BY <3>6, FS_Union
      <4>2. IsFiniteSet(check \cup ahead \cup semicolon)
        BY <3>6, <4>1, FS_Union
      <4>3. QED
        BY <3>6, <3>8, <4>2, FS_Union
    <3>10. Report(problems)
      BY <3>7, <3>8
    <3>11. QED
      BY <1>12, <3>9, <3>10, ReportCounts DEF ReadLine, lintState
  <2>3. QED
    BY <2>1, <2>2
<1>13. CASE FinishFile
  <2>1. FilesFit'
    BY <1>13, RestGetsShorter DEF FinishFile, LeaveFile, FilesFit
  <2>2. CountsFit'
    <3>1. IsFiniteSet(Text.late \cup MixedLineEnds)
      <4>1. IsFiniteSet(MixedLineEnds) /\ IsFiniteSet(Text.late)
        BY <1>13, MixedLineEndsAreFinite, TextsAssumption DEF FinishFile, FilesFit, Text, File
      <4>2. QED
        BY <4>1, FS_Union
    <3>2. IsFiniteSet(Found("file", Text.late \cup MixedLineEnds))
      BY <3>1, FoundIsFinite
    <3>3. QED
      BY <1>13, <3>2, ReportCounts DEF FinishFile, LeaveFile
  <2>3. QED
    BY <2>1, <2>2
<1>14. CASE UNCHANGED vars
  BY <1>14 DEF vars, control, counts, lintState, CountsFit, FilesFit
<1>15. QED
  BY <1>1, <1>2, <1>3, <1>4, <1>5, <1>6, <1>7, <1>8, <1>9, <1>10, <1>11, <1>12, <1>13,
     <1>14 DEF Next

\* The statistics by category add up to the total that decides the exit status,
\* for every command line, configuration and text (cpplint.py, 924-941, 1189-1212, 6134-6149).
THEOREM StatisticsAddUp == Spec => []CountsAddUp
<1>1. Init => CountInv
  BY InitFits
<1>2. CountInv /\ [Next]_vars => CountInv'
  BY StepFits
<1>3. CountInv => CountsAddUp
  BY DEF CountInv, CountsFit, CountsAddUp, Total, Sum
<1>4. QED
  BY <1>1, <1>2, <1>3, PTL DEF Spec

-----------------------------------------------------------------------------
(* How far the climb is, and what was collected on the way.                *)

\* The configurations up to the level m have been read, and no level beyond it will be.
ClimbedTo(m) ==
    IF level <= Len(Path[File])
    THEN level = m + 1 /\ \A l \in 1..m : ~ StopsIn(configs, File, l)
    ELSE EndsAt(configs, File, m)

\* What was collected says what the configurations up to the level m say.
SaidBy(m) ==
    /\ cfg_filters \in Seq(Seq(Filter))
    /\ \A c \in Categories :
          /\ SomeMentions(cfg_filters, c) <=> ConfigsMention(Around(configs, File), m, c)
          /\ NearestOff(cfg_filters, c) <=> ConfigsOff(Around(configs, File), m, c)

Climbing == level \in Nat /\ \E m \in 0..Len(Path[File]) : ClimbedTo(m) /\ SaidBy(m)

\* Of a category the filters say what the nearest option says that mentions it.
FiltersHold ==
    \E m \in 0..Len(Path[File]) :
        /\ EndsAt(configs, File, m)
        /\ \A c \in Categories : IsFiltered(filters, c) <=> OffFor(configs, flags, File, m, c)

\* What the marks of some lines of a file suppress.
Marks(f, K) == UNION {Suppressed(Texts[f].lines[n].mark, n) : n \in K}

\* The NOLINT comments that were read, and no others.
NolintHolds ==
    /\ linenum <= Len(Text.lines)
    /\ global_suppressions = GlobalSuppressions(Text.marks)
    /\ suppressions = Marks(File, MarksRead(File, linenum))

\* The filters are those of the command line, of the directories that were climbed or
\* of the file, and the suppressions those of the file's lines so far.
JudgeInv ==
    /\ flags \in CommandLines /\ configs \in Layouts
    /\ pc \in {"main", "config", "open", "lines"} => verbosity = flags.verbosity
    /\ pc \in {"main", "config"} => filters = Given(flags)
    /\ pc \in {"config", "open", "lines"} => filters_backup = Given(flags)
    /\ pc = "config" => Climbing
    /\ pc \in {"open", "lines"} => FiltersHold
    /\ pc = "lines" => NolintHolds

\* While a file is processed there is one, and its text is known.
LEMMA FileIsKnown ==
  ASSUME FilesFit, pc \in {"config", "open", "lines"}
  PROVE  rest # <<>> /\ File \in DOMAIN Texts
BY DEF FilesFit, File

\* One level more: what it says counts where the levels before it say nothing.
LEMMA OneLevelMore ==
  ASSUME NEW around, NEW m \in Nat, NEW c
  PROVE  /\ ConfigsMention(around, m + 1, c) <=>
               ConfigsMention(around, m, c) \/ LineMentions(around[m + 1], c)
         /\ ConfigsOff(around, m + 1, c) <=>
               \/ ConfigsOff(around, m, c)
               \/ ~ ConfigsMention(around, m, c) /\ LineOff(around[m + 1], c)
<1>1. 1..(m + 1) = 1..m \cup {m + 1} /\ \A k \in 1..(m + 1) : k < m + 1 <=> k \in 1..m
  OBVIOUS
<1>2. ConfigsMention(around, m + 1, c) <=>
         ConfigsMention(around, m, c) \/ LineMentions(around[m + 1], c)
  BY <1>1 DEF ConfigsMention
<1>3. ConfigsOff(around, m, c) => ConfigsOff(around, m + 1, c)
  BY <1>1 DEF ConfigsOff
<1>4. ~ ConfigsMention(around, m, c) /\ LineOff(around[m + 1], c) => ConfigsOff(around, m + 1, c)
  BY <1>1 DEF ConfigsOff, ConfigsMention
<1>5. ConfigsOff(around, m + 1, c) =>
         \/ ConfigsOff(around, m, c)
         \/ ~ ConfigsMention(around, m, c) /\ LineOff(around[m + 1], c)
  BY <1>1 DEF ConfigsOff, ConfigsMention
<1>6. QED
  BY <1>2, <1>3, <1>4, <1>5

\* What is appended for a level are the filter lines of its configuration.
LEMMA OneConfigMore ==
  ASSUME NEW layout \in Layouts, NEW f \in DOMAIN Texts, NEW m \in Nat, m + 1 <= Len(Path[f]),
         NEW vs \in Seq(Seq(Filter)), NEW ws \in Seq(Seq(Filter)), NEW c,
         SomeMentions(vs, c) <=> ConfigsMention(Around(layout, f), m, c),
         NearestOff(vs, c) <=> ConfigsOff(Around(layout, f), m, c),
         ws = Values(layout[Path[f][m + 1].dir].options, "filter")
  PROVE  /\ SomeMentions(vs \o ws, c) <=> ConfigsMention(Around(layout, f), m + 1, c)
         /\ NearestOff(vs \o ws, c) <=> ConfigsOff(Around(layout, f), m + 1, c)
<1>1. PICK os : os = layout[Path[f][m + 1].dir].options
  OBVIOUS
<1>2. m + 1 \in DOMAIN Path[f]
  <2>1. PICK n : n = Len(Path[f])
    OBVIOUS
  <2>2. n \in Nat /\ DOMAIN Path[f] = 1..n
    BY <2>1, AroundFits
  <2>3. m + 1 \in 1..n
    BY <2>1, <2>2
  <2>4. QED
    BY <2>2, <2>3
<1>3. Around(layout, f)[m + 1] = os /\ os \in Seq(Range(os)) /\ HasFilters(os)
  BY <1>1, <1>2, AroundFits
<1>4. ws = Values(os, "filter")
  BY <1>1
<1>5. (SomeMentions(ws, c) <=> LineMentions(os, c)) /\ (NearestOff(ws, c) <=> LineOff(os, c))
  BY <1>3, <1>4, FilterLines
<1>6. /\ SomeMentions(vs \o ws, c) <=> SomeMentions(vs, c) \/ SomeMentions(ws, c)
      /\ NearestOff(vs \o ws, c) <=>
            NearestOff(vs, c) \/ (~ SomeMentions(vs, c) /\ NearestOff(ws, c))
  BY MoreLists
<1>7. PICK around : around = Around(layout, f)
  OBVIOUS
<1>8. /\ ConfigsMention(around, m + 1, c) <=>
            ConfigsMention(around, m, c) \/ LineMentions(around[m + 1], c)
      /\ ConfigsOff(around, m + 1, c) <=>
            \/ ConfigsOff(around, m, c)
            \/ ~ ConfigsMention(around, m, c) /\ LineOff(around[m + 1], c)
  BY OneLevelMore
<1>9. QED
  BY <1>3, <1>5, <1>6, <1>7, <1>8

\* No options have no values.
LEMMA NothingFromNothing ==
  ASSUME NEW os, os = <<>>
  PROVE  Values(os, "filter") = <<>> /\ <<>> \in Seq(Seq(Filter))
<1>1. os \in Seq({}) /\ DOMAIN os = {}
  OBVIOUS
<1>2. Values(os, "filter") = <<>>
  BY <1>1, NoValues
<1>3. QED
  BY <1>2

\* A step from one directory to the next.
LEMMA ClimbOn ==
  ASSUME FilesFit, JudgeInv, pc = "config", level <= Len(Path[File]),
         UNCHANGED <<configs, rest>>,
         cfg_filters' = cfg_filters \o Values(configs[Dir].options, "filter"),
         level' = IF StopsIn(configs, File, level) THEN Len(Path[File]) + 1 ELSE level + 1
  PROVE  Climbing'
<1>1. PICK m \in 0..Len(Path[File]) : ClimbedTo(m) /\ SaidBy(m)
  BY DEF JudgeInv, Climbing
<1>2. PICK f, layout, vs, ws : /\ f = File /\ layout = configs /\ vs = cfg_filters
                               /\ ws = Values(configs[Dir].options, "filter")
  OBVIOUS
<1>3. f \in DOMAIN Texts /\ layout \in Layouts /\ File' = f /\ configs' = layout
  BY <1>2, FileIsKnown DEF JudgeInv, File
<1>4. Len(Path[f]) \in Nat /\ DOMAIN Path[f] = 1..Len(Path[f])
  BY <1>3, AroundFits
<1>5. /\ m \in Nat /\ level = m + 1 /\ m + 1 <= Len(Path[f]) /\ m + 1 \in DOMAIN Path[f]
      /\ \A l \in 1..m : ~ StopsIn(layout, f, l)
  BY <1>1, <1>2, <1>4 DEF ClimbedTo
<1>6. ws = Values(layout[Path[f][m + 1].dir].options, "filter")
  BY <1>2, <1>5 DEF Dir
<1>7. vs \in Seq(Seq(Filter)) /\ ws \in Seq(Seq(Filter)) /\ vs \o ws \in Seq(Seq(Filter))
  <2>1. PICK os : os = layout[Path[f][m + 1].dir].options
    OBVIOUS
  <2>2. os \in Seq(Range(os)) /\ HasFilters(os)
    BY <1>3, <1>5, <2>1, AroundFits
  <2>3. ws \in Seq(Seq(Filter))
    BY <1>6, <2>1, <2>2, FilterLines
  <2>4. vs \in Seq(Seq(Filter))
    BY <1>1, <1>2 DEF SaidBy
  <2>5. QED
    BY <2>3, <2>4, MoreLists
<1>8. ASSUME NEW c \in Categories
      PROVE  /\ SomeMentions(vs \o ws, c) <=> ConfigsMention(Around(layout, f), m + 1, c)
             /\ NearestOff(vs \o ws, c) <=> ConfigsOff(Around(layout, f), m + 1, c)
  <2>1. /\ SomeMentions(vs, c) <=> ConfigsMention(Around(layout, f), m, c)
        /\ NearestOff(vs, c) <=> ConfigsOff(Around(layout, f), m, c)
    BY <1>1, <1>2 DEF SaidBy
  <2>2. QED
    BY <1>3, <1>5, <1>6, <1>7, <2>1, OneConfigMore
<1>9. SaidBy(m + 1)'
  BY <1>2, <1>3, <1>7, <1>8 DEF SaidBy
<1>10. ClimbedTo(m + 1)'
  <2>1. level' = IF StopsIn(layout, f, m + 1) THEN Len(Path[f]) + 1 ELSE m + 2
    BY <1>2, <1>5
  <2>2. \A l \in 1..(m + 1) : l \in 1..m \/ l = m + 1
    BY <1>5
  <2>3. CASE StopsIn(layout, f, m + 1)
    <3>1. EndsAt(layout, f, m + 1)
      BY <1>4, <1>5, <2>3 DEF EndsAt
    <3>2. ~ (level' <= Len(Path[f]))
      BY <1>4, <2>1, <2>3
    <3>3. QED
      BY <1>3, <3>1, <3>2 DEF ClimbedTo
  <2>4. CASE ~ StopsIn(layout, f, m + 1)
    <3>1. level' = m + 2 /\ \A l \in 1..(m + 1) : ~ StopsIn(layout, f, l)
      BY <1>5, <2>1, <2>2, <2>4
    <3>2. CASE m + 2 <= Len(Path[f])
      BY <1>3, <1>5, <3>1, <3>2 DEF ClimbedTo
    <3>3. CASE ~ (m + 2 <= Len(Path[f]))
      <4>1. EndsAt(layout, f, m + 1)
        BY <1>4, <1>5, <3>3 DEF EndsAt
      <4>2. QED
        BY <1>3, <3>1, <3>3, <4>1 DEF ClimbedTo
    <3>4. QED
      BY <3>2, <3>3
  <2>5. QED
    BY <2>3, <2>4
<1>11. level' \in Nat /\ m + 1 \in 0..Len(Path[f])
  BY <1>2, <1>4, <1>5
<1>12. QED
  BY <1>3, <1>9, <1>10, <1>11 DEF Climbing

-----------------------------------------------------------------------------
(* The filters and the suppressions in force.                              *)

\* Before the arguments are parsed the invariant asks for the inputs only.
LEMMA InitJudges == Init => JudgeInv
BY DEF Init, JudgeInv

\* What may not change from one step of a file to the next, and what follows.
LEMMA FiltersStay ==
  ASSUME FiltersHold, UNCHANGED <<flags, configs, rest, filters>>
  PROVE  FiltersHold'
BY DEF FiltersHold, File

\* Every way out of a file restores the filters of the command line.
LEMMA BackAtMain ==
  ASSUME JudgeInv, pc \in {"config", "open", "lines"}, LeaveFile, UNCHANGED inputs
  PROVE  JudgeInv'
BY DEF JudgeInv, LeaveFile, RestoreFilters, inputs

\* The climb starts below the first directory.
LEMMA BeginFileJudges ==
  ASSUME FilesFit, JudgeInv, BeginFile
  PROVE  JudgeInv'
<1>1. File' = File /\ File \in DOMAIN Texts /\ configs' = configs /\ configs \in Layouts
  BY DEF BeginFile, FilesFit, JudgeInv, inputs, File
<1>2. PICK f, layout : f = File /\ layout = configs
  OBVIOUS
<1>3. Len(Path[f]) \in Nat
  BY <1>1, <1>2, AroundFits
<1>4. level' = 1 /\ cfg_filters' = <<>>
  BY DEF BeginFile
<1>5. ClimbedTo(0)'
  <2>1. CASE 1 <= Len(Path[f])
    BY <1>1, <1>2, <1>4, <2>1 DEF ClimbedTo
  <2>2. CASE ~ (1 <= Len(Path[f]))
    <3>1. EndsAt(layout, f, 0)
      BY <1>3, <2>2 DEF EndsAt
    <3>2. QED
      BY <1>1, <1>2, <1>4, <2>2, <3>1 DEF ClimbedTo
  <2>3. QED
    BY <2>1, <2>2
<1>6. SaidBy(0)'
  <2>1. \A c : ~ SomeMentions(<<>>, c) /\ ~ NearestOff(<<>>, c)
    BY DEF SomeMentions, NearestOff
  <2>2. \A c : ~ ConfigsMention(Around(layout, f), 0, c) /\ ~ ConfigsOff(Around(layout, f), 0, c)
    BY DEF ConfigsMention, ConfigsOff
  <2>3. <<>> \in Seq(Seq(Filter))
    OBVIOUS
  <2>4. QED
    BY <1>1, <1>2, <1>4, <2>1, <2>2, <2>3 DEF SaidBy
<1>7. Climbing'
  BY <1>1, <1>2, <1>3, <1>4, <1>5, <1>6 DEF Climbing
<1>8. QED
  BY <1>7 DEF JudgeInv, BeginFile, inputs

\* Each of the three steps of a directory appends the filter lines of its
\* configuration, if it could be read, and goes on or stops.
LEMMA ConfigJudges ==
  ASSUME FilesFit, JudgeInv, NoConfig \/ UnreadableConfig \/ ReadConfig
  PROVE  JudgeInv'
<1>1. /\ pc = "config" /\ pc' = "config" /\ level <= Len(Path[File])
      /\ UNCHANGED <<inputs, lintState, rest>>
  BY DEF NoConfig, UnreadableConfig, ReadConfig, HasOptions, InTree
<1>2. PICK f, layout, m : f = File /\ layout = configs /\ m = level
  OBVIOUS
<1>3. f \in DOMAIN Texts /\ layout \in Layouts /\ m \in DOMAIN Path[f] /\ Len(Path[f]) \in Nat /\ m \in Nat
  <2>1. f \in DOMAIN Texts /\ layout \in Layouts
    BY <1>1, <1>2, FileIsKnown DEF JudgeInv
  <2>2. PICK k \in 0..Len(Path[File]) : ClimbedTo(k)
    BY <1>1 DEF JudgeInv, Climbing
  <2>3. Len(Path[f]) \in Nat /\ DOMAIN Path[f] = 1..Len(Path[f])
    BY <2>1, AroundFits
  <2>4. m = k + 1 /\ k \in Nat /\ m <= Len(Path[f])
    BY <1>1, <1>2, <2>2, <2>3 DEF ClimbedTo
  <2>5. QED
    BY <2>1, <2>3, <2>4
<1>4. PICK config : config = layout[Path[f][m].dir]
  OBVIOUS
<1>5. /\ config.state \in {"none", "unreadable", "read"}
      /\ config.options \in Seq(Range(config.options))
      /\ config.state # "read" => config.options = <<>>
  BY <1>3, <1>4, AroundFits
<1>6. configs[Dir] = config
  BY <1>2, <1>4 DEF Dir
<1>7. StopsIn(layout, f, m) <=>
         \/ config.state = "unreadable"
         \/ \E i \in DOMAIN config.options : config.options[i].name = "set noparent"
  BY <1>4 DEF StopsIn
<1>8. /\ cfg_filters' = cfg_filters \o Values(configs[Dir].options, "filter")
      /\ level' = IF StopsIn(configs, File, level) THEN Len(Path[File]) + 1 ELSE level + 1
  <2>1. PICK vs, os : vs = cfg_filters /\ os = config.options
    OBVIOUS
  <2>2. vs \in Seq(Seq(Filter))
    BY <1>1, <2>1 DEF JudgeInv, Climbing, SaidBy
  <2>3. os = <<>> => vs \o Values(os, "filter") = vs /\ DOMAIN os = {}
    <3>1. vs \o <<>> = vs
      BY <2>2
    <3>2. ASSUME os = <<>>
          PROVE  vs \o Values(os, "filter") = vs /\ DOMAIN os = {}
      <4>1. Values(os, "filter") = <<>>
        BY <3>2, NothingFromNothing
      <4>2. DOMAIN os = {}
        BY <3>2
      <4>3. QED
        BY <3>1, <4>1, <4>2
    <3>3. QED
      BY <3>2
  <2>4. CASE NoConfig
    <3>1. config.state = "none" /\ level' = level + 1 /\ UNCHANGED cfg_filters
      BY <1>6, <2>4 DEF NoConfig, Parent
    <3>2. os = <<>> /\ ~ StopsIn(layout, f, m)
      BY <1>5, <1>7, <2>1, <2>3, <3>1
    <3>3. QED
      BY <1>2, <1>6, <2>1, <2>3, <3>1, <3>2
  <2>5. CASE UnreadableConfig
    <3>1. config.state = "unreadable" /\ level' = Len(Path[File]) + 1 /\ UNCHANGED cfg_filters
      BY <1>6, <2>5 DEF UnreadableConfig, BeyondRoot
    <3>2. os = <<>> /\ StopsIn(layout, f, m)
      BY <1>5, <1>7, <2>1, <3>1
    <3>3. QED
      BY <1>2, <1>6, <2>1, <2>3, <3>1, <3>2
  <2>6. CASE ReadConfig
    <3>1. /\ config.state = "read"
          /\ cfg_filters' = cfg_filters \o Values(config.options, "filter")
          /\ level' = IF Values(config.options, "set noparent") = <<>>
                      THEN level + 1 ELSE Len(Path[File]) + 1
      BY <1>6, <2>6 DEF ReadConfig, HasOptions, Options, Parent, BeyondRoot
    <3>2. Values(config.options, "set noparent") = <<>> <=> ~ StopsIn(layout, f, m)
      BY <1>5, <1>7, <3>1, NoValues
    <3>3. QED
      BY <1>2, <1>6, <3>1, <3>2
  <2>7. QED
    BY <2>4, <2>5, <2>6
<1>9. Climbing'
  BY <1>1, <1>8, ClimbOn DEF inputs
<1>10. QED
  BY <1>1, <1>9 DEF JudgeInv, inputs, lintState

\* The filters that are applied are those of the nearest option that says anything.
LEMMA ApplyFiltersJudges ==
  ASSUME FilesFit, JudgeInv, ApplyFilters, pc' = "open"
  PROVE  JudgeInv'
<1>1. /\ pc = "config" /\ ~ (level <= Len(Path[File])) /\ UNCHANGED <<inputs, rest>>
      /\ filters' = AddFilters(filters, OutermostFirst(cfg_filters))
      /\ UNCHANGED <<filters_backup, verbosity>>
  <2>1. Len(Path[File]) \in Nat /\ level \in Nat
    BY FileIsKnown, AroundFits DEF ApplyFilters, JudgeInv, Climbing
  <2>2. QED
    BY <2>1 DEF ApplyFilters, Die
<1>2. PICK f, layout, fl, vs : /\ f = File /\ layout = configs /\ fl = flags
                               /\ vs = cfg_filters
  OBVIOUS
<1>3. /\ f \in DOMAIN Texts /\ layout \in Layouts /\ fl \in CommandLines
      /\ File' = f /\ configs' = layout /\ flags' = fl
  BY <1>1, <1>2, FileIsKnown DEF JudgeInv, File, inputs
<1>4. PICK m \in 0..Len(Path[f]) : ClimbedTo(m) /\ SaidBy(m)
  BY <1>1, <1>2 DEF JudgeInv, Climbing
<1>5. EndsAt(layout, f, m) /\ vs \in Seq(Seq(Filter))
  BY <1>1, <1>2, <1>4 DEF ClimbedTo, SaidBy
<1>6. filters' = Given(fl) \o OutermostFirst(vs) /\ Given(fl) \in Seq(Filter)
  <2>1. filters = Given(fl)
    BY <1>1, <1>2 DEF JudgeInv
  <2>2. Given(fl) \in Seq(Filter)
    BY <1>3, CommandLinesAssumption, DefaultIsAFilter, MoreFilters DEF Given, AddFilters
  <2>3. QED
    BY <1>1, <1>2, <2>1, <2>2 DEF AddFilters
<1>7. ASSUME NEW c \in Categories
      PROVE  IsFiltered(filters', c) <=> OffFor(layout, fl, f, m, c)
  <2>1. /\ OutermostFirst(vs) \in Seq(Filter)
        /\ Mentions(OutermostFirst(vs), c) <=> SomeMentions(vs, c)
        /\ SwitchesOff(OutermostFirst(vs), c) <=> NearestOff(vs, c)
    BY <1>5, NearestComesLast
  <2>2. PICK g, h : g = Given(fl) /\ h = OutermostFirst(vs)
    OBVIOUS
  <2>3. /\ g \o h \in Seq(Filter)
        /\ SwitchesOff(g \o h, c) <=> SwitchesOff(h, c) \/ (~ Mentions(h, c) /\ SwitchesOff(g, c))
    BY <1>6, <2>1, <2>2, MoreFilters
  <2>4. IsFiltered(g \o h, c) <=> SwitchesOff(g \o h, c)
    BY <2>3, LastFilterDecides
  <2>5. /\ SomeMentions(vs, c) <=> ConfigsMention(Around(layout, f), m, c)
        /\ NearestOff(vs, c) <=> ConfigsOff(Around(layout, f), m, c)
    BY <1>2, <1>4 DEF SaidBy
  <2>6. filters' = g \o h
    BY <1>6, <2>2
  <2>7. QED
    BY <2>1, <2>2, <2>3, <2>4, <2>5, <2>6 DEF OffFor
<1>8. FiltersHold'
  BY <1>3, <1>5, <1>7 DEF FiltersHold
<1>9. QED
  BY <1>1, <1>8 DEF JudgeInv, inputs

\* No line was read.
LEMMA OpenFileJudges ==
  ASSUME FilesFit, JudgeInv, OpenFile
  PROVE  JudgeInv'
<1>1. /\ pc = "open" /\ pc' = "lines" /\ linenum' = 0
      /\ UNCHANGED <<inputs, lintState, rest>>
      /\ suppressions' = {} /\ global_suppressions' = GlobalSuppressions(Text.marks)
  BY DEF OpenFile, ResetNolint
<1>2. FiltersHold'
  BY <1>1, FiltersStay DEF JudgeInv, inputs, lintState
<1>3. Text' = Text /\ Len(Text.lines) \in Nat
  BY <1>1, FileIsKnown, TextsAssumption DEF Text, File
<1>4. NolintHolds'
  <2>1. Marks(File', MarksRead(File', 0)) = {}
    BY DEF Marks, MarksRead
  <2>2. QED
    BY <1>1, <1>3, <2>1 DEF NolintHolds
<1>5. QED
  BY <1>1, <1>2, <1>4 DEF JudgeInv, inputs, lintState

\* One more line was read, and perhaps some ahead.
LEMMA OneLineMore ==
  ASSUME NEW f, NEW n \in Nat, NEW s, s = Marks(f, MarksRead(f, n)),
         NEW lines, lines = Texts[f].lines
  PROVE  ParseNolint(s, lines, {n + 1} \cup Ahead(lines[n + 1])) = Marks(f, MarksRead(f, n + 1))
<1> DEFINE more == {n + 1} \cup Ahead(lines[n + 1])
<1>1. MarksRead(f, n + 1) = MarksRead(f, n) \cup more
  <2>1. 1..(n + 1) = 1..n \cup {n + 1}
    OBVIOUS
  <2>2. UNION {Ahead(lines[k]) : k \in 1..(n + 1)} =
           (UNION {Ahead(lines[k]) : k \in 1..n}) \cup Ahead(lines[n + 1])
    BY <2>1
  <2>3. QED
    BY <2>1, <2>2 DEF MarksRead
<1> HIDE DEF more
<1>2. \A K, L : Marks(f, K \cup L) = Marks(f, K) \cup Marks(f, L)
  BY DEF Marks
<1>3. ParseNolint(s, lines, more) = s \cup Marks(f, more)
  BY DEF ParseNolint, Marks
<1>4. ParseNolint(s, lines, more) = Marks(f, MarksRead(f, n + 1))
  BY <1>1, <1>2, <1>3
<1>5. QED
  BY <1>4 DEF more

\* One more line was read, and its mark is noted.
LEMMA ReadLineJudges ==
  ASSUME FilesFit, JudgeInv, ReadLine
  PROVE  JudgeInv'
<1>1. /\ pc = "lines" /\ pc' = "lines" /\ linenum' = linenum + 1 /\ linenum < Len(Text.lines)
      /\ UNCHANGED <<inputs, lintState, rest, global_suppressions>>
      /\ suppressions' = ParseNolint(suppressions, Text.lines,
                                     {linenum'} \cup Ahead(Text.lines[linenum']))
  BY DEF ReadLine
<1>2. FiltersHold'
  BY <1>1, FiltersStay DEF JudgeInv, inputs, lintState
<1>3. Text' = Text /\ File' = File /\ Len(Text.lines) \in Nat /\ linenum \in Nat
  BY <1>1, FileIsKnown, TextsAssumption DEF Text, File, FilesFit
<1>4. PICK n, lines, s, f : n = linenum /\ lines = Text.lines /\ s = suppressions /\ f = File
  OBVIOUS
<1>5. n \in Nat /\ s = Marks(f, MarksRead(f, n)) /\ lines = Texts[f].lines
  BY <1>1, <1>3, <1>4 DEF JudgeInv, NolintHolds, Text
<1>6. ParseNolint(s, lines, {n + 1} \cup Ahead(lines[n + 1])) = Marks(f, MarksRead(f, n + 1))
  BY <1>5, OneLineMore
<1>7. NolintHolds'
  <2>1. suppressions' = Marks(f, MarksRead(f, n + 1))
    BY <1>1, <1>4, <1>6
  <2>2. linenum' <= Len(lines) /\ global_suppressions' = GlobalSuppressions(Text'.marks)
    BY <1>1, <1>3, <1>4 DEF JudgeInv, NolintHolds
  <2>3. suppressions' = Marks(File', MarksRead(File', linenum'))
    BY <1>1, <1>3, <1>4, <2>1
  <2>4. QED
    BY <1>3, <1>4, <2>2, <2>3 DEF NolintHolds
<1>8. QED
  BY <1>1, <1>2, <1>7 DEF JudgeInv, inputs, lintState

\* The other steps leave a file or work outside of any.
LEMMA StepJudges ==
  ASSUME FilesFit, JudgeInv, [Next]_vars
  PROVE  JudgeInv'
<1>1. CASE PrintUsage
  BY <1>1 DEF PrintUsage, Die, JudgeInv, inputs
<1>2. CASE ParseArguments
  BY <1>2 DEF ParseArguments, Die, JudgeInv, inputs, Given
<1>3. CASE BeginFile
  BY <1>3, BeginFileJudges
<1>4. CASE Exit
  BY <1>4 DEF Exit, JudgeInv, inputs
<1>5. CASE NoConfig \/ UnreadableConfig \/ ReadConfig
  BY <1>5, ConfigJudges
<1>6. CASE ExcludeFile
  BY <1>6, BackAtMain DEF ExcludeFile, HasOptions, InTree
<1>7. CASE ApplyFilters
  <2>1. CASE pc' = "open"
    BY <1>7, <2>1, ApplyFiltersJudges
  <2>2. CASE pc' # "open"
    BY <1>7, <2>2 DEF ApplyFilters, Die, JudgeInv, inputs
  <2>3. QED
    BY <2>1, <2>2
<1>8. CASE SkipFile
  BY <1>8, BackAtMain DEF SkipFile
<1>9. CASE OpenFile
  BY <1>9, OpenFileJudges
<1>10. CASE ReadLine
  BY <1>10, ReadLineJudges
<1>11. CASE FinishFile
  BY <1>11, BackAtMain DEF FinishFile
<1>12. CASE UNCHANGED vars
  <2>1. UNCHANGED <<flags, configs, pc, verbosity, filters, filters_backup>>
    BY <1>12 DEF vars, inputs, control, lintState
  <2>2. UNCHANGED <<rest, level, cfg_filters, linenum, suppressions, global_suppressions>>
    BY <1>12 DEF vars, control, nolint
  <2>3. Climbing => Climbing'
    BY <2>1, <2>2 DEF Climbing, ClimbedTo, SaidBy, File
  <2>4. FiltersHold => FiltersHold'
    BY <2>1, <2>2, FiltersStay
  <2>5. NolintHolds => NolintHolds'
    BY <2>2 DEF NolintHolds, Text, File
  <2>6. QED
    BY <2>1, <2>3, <2>4, <2>5 DEF JudgeInv
<1>13. QED
  BY <1>1, <1>2, <1>3, <1>4, <1>5, <1>6, <1>7, <1>8, <1>9, <1>10, <1>11, <1>12 DEF Next

-----------------------------------------------------------------------------
(* The verdict on a problem.                                               *)

\* The mark of a line covers this line or the next one.
LEMMA MarkCovers ==
  ASSUME NEW mark, mark.kind \in {"none", "line", "next"}, NEW i \in Nat,
         NEW c \in Categories, NEW n \in Nat
  PROVE  (\E s \in Suppressed(mark, i) : s.line = n /\ s.category \in {"any", c}) <=>
            /\ mark.category \in {"any", c}
            /\ \/ mark.kind = "line" /\ i = n
               \/ mark.kind = "next" /\ i = n - 1
<1> DEFINE covered == IF mark.kind = "next" THEN i + 1 ELSE i
<1>1. CASE mark.kind # "none" /\ mark.category \in Categories \cup {"any"}
  <2>1. PICK x : x = [category |-> mark.category, line |-> covered]
    OBVIOUS
  <2>2. Suppressed(mark, i) = {x}
    BY <1>1, <2>1 DEF Suppressed
  <2>3. x.line = covered /\ x.category = mark.category
    BY <2>1
  <2> HIDE DEF covered
  <2>4. (\E s \in Suppressed(mark, i) : s.line = n /\ s.category \in {"any", c}) <=>
           covered = n /\ mark.category \in {"any", c}
    BY <2>2, <2>3
  <2>5. covered = n <=> (mark.kind = "line" /\ i = n) \/ (mark.kind = "next" /\ i = n - 1)
    <3>1. i + 1 = n <=> i = n - 1
      <4>1. PICK k, l : k = i /\ l = n
        OBVIOUS
      <4>2. k \in Nat /\ l \in Nat
        BY <4>1
      <4>3. k + 1 = l <=> k = l - 1
        BY <4>2
      <4>4. QED
        BY <4>1, <4>3
    <3>2. mark.kind = "line" \/ mark.kind = "next"
      BY <1>1
    <3>3. QED
      BY <3>1, <3>2 DEF covered
  <2>6. QED
    BY <2>4, <2>5
<1>2. CASE ~ (mark.kind # "none" /\ mark.category \in Categories \cup {"any"})
  <2>1. Suppressed(mark, i) = {}
    BY <1>2 DEF Suppressed
  <2>2. QED
    BY <1>2, <2>1
<1>3. QED
  BY <1>1, <1>2

\* A problem is suppressed if and only if one of the marks that were read is for it.
LEMMA MarksSuppress ==
  ASSUME NEW f \in DOMAIN Texts, NEW K \in SUBSET DOMAIN Texts[f].lines,
         NEW problem, problem.category \in Categories, problem.line \in Nat, NEW s,
         s = Marks(f, K)
  PROVE  MarkedOff(f, problem, K) <=>
            \E t \in s : t.line = problem.line /\ t.category \in {"any", problem.category}
<1>1. PICK ls, n, c : ls = Texts[f].lines /\ n = problem.line /\ c = problem.category
  OBVIOUS
<1>2. c \in Categories /\ n \in Nat /\ K \subseteq Nat
  BY <1>1, TextsAssumption
<1>3. \A i \in K : ls[i].mark.kind \in {"none", "line", "next"}
  BY <1>1, TextsAssumption
<1> DEFINE Covering(i) == /\ ls[i].mark.category \in {"any", c}
                          /\ \/ ls[i].mark.kind = "line" /\ i = n
                             \/ ls[i].mark.kind = "next" /\ i = n - 1
<1>4. \A t : t \in s <=> \E i \in K : t \in Suppressed(ls[i].mark, i)
  <2>1. s = UNION {Suppressed(ls[i].mark, i) : i \in K}
    BY <1>1 DEF Marks
  <2>2. \A t : t \in UNION {Suppressed(ls[i].mark, i) : i \in K}
                  <=> \E i \in K : t \in Suppressed(ls[i].mark, i)
    OBVIOUS
  <2>3. QED
    BY <2>1, <2>2
<1>5. \A i \in K :
         (\E t \in Suppressed(ls[i].mark, i) : t.line = n /\ t.category \in {"any", c})
            <=> Covering(i)
  <2>1. TAKE i \in K
  <2>2. PICK mark : mark = ls[i].mark
    OBVIOUS
  <2>3. i \in Nat /\ mark.kind \in {"none", "line", "next"}
    BY <1>2, <1>3, <2>2
  <2>4. (\E t \in Suppressed(mark, i) : t.line = n /\ t.category \in {"any", c}) <=>
           /\ mark.category \in {"any", c}
           /\ \/ mark.kind = "line" /\ i = n
              \/ mark.kind = "next" /\ i = n - 1
    <3>1. c \in Categories /\ n \in Nat
      BY <1>2
    <3>2. QED
      BY <2>3, <3>1, MarkCovers
  <2>5. QED
    BY <2>2, <2>4
<1>6. MarkedOff(f, problem, K) <=> \E i \in K : Covering(i)
  BY <1>1 DEF MarkedOff, Covers
<1> HIDE DEF Covering
<1>7. (\E t \in s : t.line = n /\ t.category \in {"any", c}) <=> \E i \in K : Covering(i)
  BY <1>4, <1>5
<1>8. QED
  BY <1>1, <1>6, <1>7

\* A mark is for its own line or for the next one.
LEMMA TwoMarksDecide ==
  ASSUME NEW f \in DOMAIN Texts, NEW K \in SUBSET DOMAIN Texts[f].lines,
         NEW problem, problem.line \in Nat,
         {problem.line - 1, problem.line} \cap DOMAIN Texts[f].lines \subseteq K
  PROVE  MarkedOff(f, problem, K) <=> MarkedOff(f, problem, DOMAIN Texts[f].lines)
<1>1. \A n : Covers(f, n, problem) => n \in {problem.line - 1, problem.line}
  BY DEF Covers
<1>2. QED
  BY <1>1 DEF MarkedOff

\* The lines whose marks were read are those up to now and some of those ahead.
LEMMA MarksReadAre ==
  ASSUME NEW f \in DOMAIN Texts, NEW m \in Nat, m <= Len(Texts[f].lines)
  PROVE  1..m \subseteq MarksRead(f, m) /\ MarksRead(f, m) \subseteq DOMAIN Texts[f].lines
<1>1. PICK lines, k : lines = Texts[f].lines /\ k = Len(lines)
  OBVIOUS
<1>2. k \in Nat /\ DOMAIN lines = 1..k /\ m <= k
  BY <1>1, TextsAssumption
<1>3. \A n \in 1..k : lines[n].closing \in {0} \cup n..k
  BY <1>1, <1>2, TextsAssumption
<1>4. \A n \in 1..m : Ahead(lines[n]) \subseteq 1..k
  <2>1. TAKE n \in 1..m
  <2>2. PICK closing : closing = lines[n].closing
    OBVIOUS
  <2>3. n \in 1..k /\ closing \in {0} \cup n..k
    BY <1>2, <1>3, <2>2
  <2>4. closing # 0 => closing \in 1..k /\ closing - 1 \in {0} \cup 1..k
    BY <1>2, <2>3
  <2>5. QED
    BY <2>2, <2>4 DEF Ahead
<1>5. QED
  BY <1>1, <1>2, <1>4 DEF MarksRead

\* How the verdict on a problem comes about, in the terms of the property.
LEMMA VerdictIsRight ==
  ASSUME JudgeInv, FilesFit, pc \in {"open", "lines"},
         NEW p, p.category \in Categories, NEW Marked,
         IsSuppressed(suppressions', global_suppressions', p.category, p.line)
            <=> p.category \in GlobalSuppressions(Text.marks) \/ Marked
  PROVE  ShouldPrintError(suppressions', global_suppressions', verbosity, filters, p, p.line) <=>
            /\ p.confidence >= flags.verbosity
            /\ ~ SwitchedOff(File, p.category)
            /\ p.category \notin GlobalSuppressions(Text.marks)
            /\ ~ Marked
<1>1. PICK m \in 0..Len(Path[File]) :
         /\ EndsAt(configs, File, m)
         /\ \A c \in Categories : IsFiltered(filters, c) <=> OffFor(configs, flags, File, m, c)
  BY DEF JudgeInv, FiltersHold
<1>2. File \in DOMAIN Texts /\ configs \in Layouts /\ flags \in CommandLines
  BY FileIsKnown DEF JudgeInv
<1>3. PICK c, f : c = p.category /\ f = File
  OBVIOUS
<1>4. SwitchedOff(f, c) <=> OffFor(configs, flags, f, m, c)
  BY <1>1, <1>2, <1>3, SwitchedOffMeans
<1>5. IsFiltered(filters, c) <=> SwitchedOff(f, c)
  BY <1>1, <1>3, <1>4
<1>6. verbosity = flags.verbosity
  BY DEF JudgeInv
<1>7. QED
  BY <1>3, <1>5, <1>6 DEF ShouldPrintError

\* The verdict on a problem, in the terms of the property.
RightVerdict(j) ==
    j.printed <=>
        /\ j.problem.confidence >= flags.verbosity
        /\ ~ SwitchedOff(File, j.problem.category)
        /\ j.problem.category \notin GlobalSuppressions(Text.marks)
        /\ ~ MarkedOff(File, j.problem, MarksFor(File, j.problem, linenum'))

\* What a step has Error decide are its problems, each with the verdict on it.
LEMMA JudgedProblems ==
  ASSUME NEW problems, Report(problems), NEW j \in judged'
  PROVE  \E p \in problems :
            /\ j.problem = p
            /\ j.printed = ShouldPrintError(suppressions', global_suppressions', verbosity,
                                            filters, p, p.line)
<1> DEFINE Verdict(p) == ShouldPrintError(suppressions', global_suppressions', verbosity,
                                          filters, p, p.line)
<1>1. judged' = {[problem |-> p, printed |-> Verdict(p)] : p \in problems}
  BY DEF Report
<1> HIDE DEF Verdict
<1>2. PICK p \in problems : j = [problem |-> p, printed |-> Verdict(p)]
  BY <1>1
<1>3. j.problem = p /\ j.printed = Verdict(p)
  BY <1>2
<1>4. QED
  BY <1>3 DEF Verdict

\* What a step reports, when the suppressions are those of the marks in K, which are
\* all that matter for the problems.
LEMMA ReportedOnTheirOwn ==
  ASSUME JudgeInv, FilesFit, pc \in {"open", "lines"},
         NEW K \in SUBSET DOMAIN Text.lines,
         suppressions' = Marks(File, K),
         global_suppressions' = GlobalSuppressions(Text.marks),
         NEW problems, Report(problems),
         \A p \in problems :
            /\ p.category \in Categories /\ p.line \in Nat
            /\ MarkedOff(File, p, K) <=> MarkedOff(File, p, MarksFor(File, p, linenum'))
  PROVE  \A j \in judged' : RightVerdict(j)
<1>1. TAKE j \in judged'
<1>2. PICK p \in problems :
         /\ j.problem = p
         /\ j.printed = ShouldPrintError(suppressions', global_suppressions', verbosity,
                                         filters, p, p.line)
  BY JudgedProblems
<1>3. File \in DOMAIN Texts
  BY FileIsKnown
<1>4. PICK f, s : f = File /\ s = suppressions'
  OBVIOUS
<1>5. /\ f \in DOMAIN Texts /\ p.category \in Categories /\ p.line \in Nat
      /\ K \in SUBSET DOMAIN Texts[f].lines
  BY <1>3, <1>4 DEF Text
<1>6. s = Marks(f, K)
  BY <1>4
<1>7. MarkedOff(f, p, K) <=> \E t \in s : t.line = p.line /\ t.category \in {"any", p.category}
  BY <1>5, <1>6, MarksSuppress
<1>8. IsSuppressed(suppressions', global_suppressions', p.category, p.line)
         <=> p.category \in GlobalSuppressions(Text.marks) \/ MarkedOff(f, p, K)
  BY <1>4, <1>7 DEF IsSuppressed
<1>9. PICK marked : marked = MarkedOff(f, p, K)
  OBVIOUS
<1>10. j.printed <=>
         /\ p.confidence >= flags.verbosity
         /\ ~ SwitchedOff(File, p.category)
         /\ p.category \notin GlobalSuppressions(Text.marks)
         /\ ~ marked
  BY <1>2, <1>5, <1>8, <1>9, VerdictIsRight
<1>11. marked <=> MarkedOff(File, p, MarksFor(File, p, linenum'))
  BY <1>4, <1>9
<1>12. QED
  BY <1>2, <1>10, <1>11 DEF RightVerdict

\* What was found is a problem with its finder.
LEMMA FoundAre ==
  ASSUME NEW by, NEW problems, NEW p \in Found(by, problems)
  PROVE  p.by = by /\ \E q \in problems : p.category = q.category /\ p.line = q.line
BY DEF Found

\* The problems that are found before the lines are read: no NOLINT is known yet.
LEMMA OpenReports ==
  ASSUME JudgeInv, FilesFit, OpenFile
  PROVE  \A j \in judged' : RightVerdict(j)
<1>1. PICK problems, m : problems = Found("cleansing", Text.early) /\ m = linenum'
  OBVIOUS
<1>2. /\ Report(problems) /\ pc = "open" /\ m = 0
      /\ suppressions' = {} /\ global_suppressions' = GlobalSuppressions(Text.marks)
  BY <1>1 DEF OpenFile, ResetNolint
<1>3. \A p \in problems :
         /\ p.category \in Categories /\ p.line \in Nat
         /\ MarksFor(File, p, m) = {}
  <2>1. TAKE p \in problems
  <2>2. p.by = "cleansing" /\ \E q \in Text.early : p.category = q.category /\ p.line = q.line
    BY <1>1, FoundAre
  <2>3. p.category \in Categories /\ p.line \in Nat
    BY <1>2, <2>2, FileIsKnown, TextsAssumption DEF Text
  <2>4. MarksFor(File, p, m) = {}
    BY <1>2, <2>2 DEF MarksFor, MarksRead
  <2>5. QED
    BY <2>3, <2>4
<1>4. PICK K : K = {}
  OBVIOUS
<1>5. K \in SUBSET DOMAIN Text.lines /\ suppressions' = Marks(File, K)
  BY <1>2, <1>4 DEF Marks
<1>6. \A p \in problems :
         /\ p.category \in Categories /\ p.line \in Nat
         /\ MarkedOff(File, p, K) <=> MarkedOff(File, p, MarksFor(File, p, linenum'))
  BY <1>1, <1>3, <1>4
<1>7. QED
  BY <1>2, <1>5, <1>6, ReportedOnTheirOwn

\* The problems of a line: the marks read are those that its checks know.
LEMMA LineReports ==
  ASSUME JudgeInv, FilesFit, ReadLine
  PROVE  \A j \in judged' : RightVerdict(j)
<1>1. PICK m, lines, line, f :
         m = linenum' /\ lines = Text.lines /\ line = lines[m] /\ f = File
  OBVIOUS
<1>2. PICK check, ahead, semicolon, body :
         /\ check = Found("check", LineProblems(line, m))
         /\ ahead = Found("ahead", NolintProblems(lines, Ahead(line)))
         /\ semicolon = Found("semicolon", SemicolonProblems(line))
         /\ body = Found("body", line.bodies)
  OBVIOUS
<1>3. PICK problems : problems = check \cup ahead \cup semicolon \cup body
  OBVIOUS
<1>4. /\ pc = "lines" /\ m = linenum + 1 /\ linenum < Len(lines)
      /\ Report(problems)
      /\ UNCHANGED rest
  BY <1>1, <1>2, <1>3 DEF ReadLine
<1>5. NolintHolds' /\ Text' = Text /\ File' = File
  <2>1. JudgeInv'
    BY ReadLineJudges
  <2>2. pc' = "lines"
    BY DEF ReadLine
  <2>3. QED
    BY <1>4, <2>1, <2>2 DEF JudgeInv, Text, File
<1>6. f \in DOMAIN Texts /\ lines = Texts[f].lines
  BY <1>1, <1>4, FileIsKnown DEF Text
<1>7. Len(lines) \in Nat /\ DOMAIN lines = 1..Len(lines) /\ m \in Nat /\ m \in DOMAIN lines
  <2>1. Len(lines) \in Nat /\ DOMAIN lines = 1..Len(lines)
    BY <1>6, TextsAssumption
  <2>2. QED
    BY <1>4, <2>1 DEF FilesFit
<1>8. PICK K : K = MarksRead(f, m)
  OBVIOUS
<1>9. /\ K \in SUBSET DOMAIN lines /\ 1..m \subseteq K
      /\ suppressions' = Marks(f, K)
      /\ global_suppressions' = GlobalSuppressions(Text.marks)
  <2>1. 1..m \subseteq K /\ K \subseteq DOMAIN lines
    BY <1>6, <1>7, <1>8, MarksReadAre
  <2>2. suppressions' = Marks(f, K) /\ global_suppressions' = GlobalSuppressions(Text.marks)
    BY <1>1, <1>5, <1>8 DEF NolintHolds
  <2>3. QED
    BY <2>1, <2>2
<1>10. /\ line.closing \in {0} \cup m..Len(lines)
       /\ \A p \in line.problems \cup line.header_problems :
             p.category \in Categories /\ p.line \in Nat /\ p.line <= m
       /\ \A p \in line.bodies : p.category \in Categories /\ p.line \in Nat
  BY <1>1, <1>6, <1>7, TextsAssumption
<1>11. \A p \in LineProblems(line, m) :
          p.category \in Categories /\ p.line \in Nat /\ p.line <= m
  <2>1. \A p \in NolintProblems(lines, {m}) : p.category \in Categories /\ p.line = m
    BY CategoriesAssumption DEF NolintProblems
  <2>2. TAKE p \in LineProblems(line, m)
  <2>3. \/ p \in NolintProblems(lines, {m})
        \/ p \in line.problems \cup line.header_problems
        \/ p = [category |-> "whitespace/line_length", confidence |-> 2, line |-> m]
    BY <1>1 DEF LineProblems
  <2>4. QED
    BY <1>7, <1>10, <2>1, <2>3, CategoriesAssumption
<1>12. \A p \in check :
          /\ p.category \in Categories /\ p.line \in Nat
          /\ MarkedOff(f, p, K) <=> MarkedOff(f, p, MarksFor(f, p, m))
  <2>1. TAKE p \in check
  <2>2. p.by = "check" /\ p.category \in Categories /\ p.line \in Nat /\ p.line <= m
    BY <1>2, <1>11, FoundAre
  <2>3. {p.line - 1, p.line} \cap DOMAIN lines \subseteq 1..m
    <3>1. PICK n, k : n = p.line /\ k = Len(lines)
      OBVIOUS
    <3>2. n \in Nat /\ n <= m /\ k \in Nat /\ m \in Nat /\ DOMAIN lines = 1..k
      BY <1>7, <2>2, <3>1
    <3>3. {n - 1, n} \cap 1..k \subseteq 1..m
      BY <3>2
    <3>4. QED
      BY <3>1, <3>2, <3>3
  <2>4. {p.line - 1, p.line} \cap DOMAIN lines \subseteq K
    BY <1>9, <2>3
  <2>5. MarkedOff(f, p, K) <=> MarkedOff(f, p, DOMAIN lines)
    BY <1>6, <1>9, <2>2, <2>4, TwoMarksDecide
  <2>6. MarksFor(f, p, m) = DOMAIN lines
    BY <1>6, <2>2 DEF MarksFor
  <2>7. QED
    BY <2>2, <2>5, <2>6
<1>13. \A p \in semicolon :
          /\ p.category \in Categories /\ p.line \in Nat
          /\ MarkedOff(f, p, K) <=> MarkedOff(f, p, MarksFor(f, p, m))
  <2>1. TAKE p \in semicolon
  <2>2. /\ p.by = "semicolon" /\ p.category \in Categories
        /\ p.line = line.closing /\ line.closing # 0
    <3>1. p.by = "semicolon" /\ \E q \in SemicolonProblems(line) :
                                   p.category = q.category /\ p.line = q.line
      BY <1>2, FoundAre
    <3>2. QED
      BY <3>1, CategoriesAssumption DEF SemicolonProblems
  <2>3. p.line \in Nat
    BY <1>7, <1>10, <2>2
  <2>4. Ahead(line) \subseteq K
    BY <1>1, <1>6, <1>7, <1>8 DEF MarksRead
  <2>5. {p.line - 1, p.line} \cap DOMAIN lines \subseteq K
    BY <1>7, <2>2, <2>4 DEF Ahead
  <2>6. MarkedOff(f, p, K) <=> MarkedOff(f, p, DOMAIN lines)
    BY <1>6, <1>9, <2>3, <2>5, TwoMarksDecide
  <2>7. MarksFor(f, p, m) = DOMAIN lines
    BY <1>6, <2>2 DEF MarksFor
  <2>8. QED
    BY <2>2, <2>3, <2>6, <2>7
<1>14. \A p \in ahead \cup body :
          /\ p.category \in Categories /\ p.line \in Nat
          /\ MarkedOff(f, p, K) <=> MarkedOff(f, p, MarksFor(f, p, m))
  <2>1. \A q \in NolintProblems(lines, Ahead(line)) : q.category \in Categories /\ q.line \in Nat
    <3>1. Ahead(line) \subseteq Nat
      <4>1. Ahead(line) \subseteq K
        BY <1>1, <1>6, <1>7, <1>8 DEF MarksRead
      <4>2. QED
        BY <1>7, <1>9, <4>1
    <3>2. QED
      BY <3>1, CategoriesAssumption DEF NolintProblems
  <2>2. TAKE p \in ahead \cup body
  <2>3. p.by \in {"ahead", "body"} /\ p.category \in Categories /\ p.line \in Nat
    <3>1. CASE p \in ahead
      BY <1>2, <2>1, <3>1, FoundAre
    <3>2. CASE p \in body
      BY <1>2, <1>10, <3>2, FoundAre
    <3>3. QED
      BY <3>1, <3>2
  <2>4. MarksFor(f, p, m) = K
    BY <1>8, <2>3 DEF MarksFor
  <2>5. QED
    BY <2>3, <2>4
<1>15. \A p \in problems :
          /\ p.category \in Categories /\ p.line \in Nat
          /\ MarkedOff(File, p, K) <=> MarkedOff(File, p, MarksFor(File, p, linenum'))
  BY <1>1, <1>3, <1>12, <1>13, <1>14
<1>16. /\ pc \in {"open", "lines"} /\ K \in SUBSET DOMAIN Text.lines
       /\ suppressions' = Marks(File, K)
  BY <1>1, <1>4, <1>9
<1>17. QED
  BY <1>4, <1>9, <1>15, <1>16, ReportedOnTheirOwn

\* The problems of the whole file: every mark is known.
LEMMA FinishReports ==
  ASSUME JudgeInv, FilesFit, FinishFile
  PROVE  \A j \in judged' : RightVerdict(j)
<1>1. PICK problems, f, m :
         problems = Found("file", Text.late \cup MixedLineEnds) /\ f = File /\ m = Len(Text.lines)
  OBVIOUS
<1>2. /\ pc = "lines" /\ linenum = m /\ Report(problems)
      /\ UNCHANGED <<suppressions, global_suppressions>>
  BY <1>1 DEF FinishFile, nolint
<1>3. f \in DOMAIN Texts /\ m = Len(Texts[f].lines) /\ m \in Nat /\ DOMAIN Text.lines = 1..m
  BY <1>1, <1>2, FileIsKnown, TextsAssumption DEF Text
<1>4. PICK K : K = DOMAIN Text.lines
  OBVIOUS
<1>5. /\ suppressions' = Marks(File, K)
      /\ global_suppressions' = GlobalSuppressions(Text.marks)
  <2>1. /\ suppressions' = Marks(f, MarksRead(f, m))
        /\ global_suppressions' = GlobalSuppressions(Text.marks)
    BY <1>1, <1>2 DEF JudgeInv, NolintHolds
  <2>2. 1..m \subseteq MarksRead(f, m) /\ MarksRead(f, m) \subseteq DOMAIN Texts[f].lines
    BY <1>3, MarksReadAre
  <2>3. MarksRead(f, m) = K
    BY <1>1, <1>3, <1>4, <2>2 DEF Text
  <2>4. QED
    BY <1>1, <2>1, <2>3
<1>6. \A p \in Text.late : p.category \in Categories /\ p.line \in Nat
  BY <1>1, <1>3, TextsAssumption DEF Text
<1>7. \A p \in MixedLineEnds : p.category \in Categories /\ p.line \in Nat
  BY <1>3, CategoriesAssumption DEF MixedLineEnds
<1>8. \A p \in problems :
         /\ p.category \in Categories /\ p.line \in Nat
         /\ MarkedOff(File, p, K) <=> MarkedOff(File, p, MarksFor(File, p, linenum'))
  <2>1. TAKE p \in problems
  <2>2. p.by = "file" /\ p.category \in Categories /\ p.line \in Nat
    BY <1>1, <1>6, <1>7, FoundAre
  <2>3. MarksFor(File, p, linenum') = K
    BY <1>4, <2>2 DEF MarksFor, Text
  <2>4. QED
    BY <2>2, <2>3
<1>9. pc \in {"open", "lines"} /\ K \in SUBSET DOMAIN Text.lines
  BY <1>2, <1>4
<1>10. QED
  BY <1>2, <1>5, <1>8, <1>9, ReportedOnTheirOwn

\* No other step reports anything.
LEMMA StepJudgesAlone ==
  ASSUME JudgeInv, FilesFit, Next
  PROVE  \A j \in judged' : RightVerdict(j)
<1>1. CASE OpenFile
  BY <1>1, OpenReports
<1>2. CASE ReadLine
  BY <1>2, LineReports
<1>3. CASE FinishFile
  BY <1>3, FinishReports
<1>4. CASE ~ OpenFile /\ ~ ReadLine /\ ~ FinishFile
  <2>1. judged' = {}
    BY <1>4 DEF Next, PrintUsage, ParseArguments, BeginFile, Exit, NoConfig, UnreadableConfig,
                ReadConfig, ExcludeFile, ApplyFilters, SkipFile, Silent
  <2>2. QED
    BY <2>1
<1>5. QED
  BY <1>1, <1>2, <1>3, <1>4

\* Every problem is judged as if its file were the only one: for every sequence of
\* files, command line, layout of the configurations and text (cpplint.py, 1161-1186,
\* 5870-5948, 5965-5970).  All marks of the file count for what is found where its
\* lines are read, further up, or at the semicolon behind a block; for what is found
\* further down those count that have been read (cpplint.py, 3924-3932, 3963-4035).
THEOREM ProblemsJudgedAlone == Spec => JudgedOnItsOwn
<1> DEFINE Alone == \A j \in judged' : RightVerdict(j)
<1>1. Init => CountInv /\ JudgeInv
  BY InitFits, InitJudges
<1>2. CountInv /\ JudgeInv /\ [Next]_vars => CountInv' /\ JudgeInv'
  BY StepFits, StepJudges DEF CountInv
<1>3. CountInv /\ JudgeInv /\ [Next]_vars => [Alone]_vars
  BY StepJudgesAlone DEF CountInv
<1>4. JudgedOnItsOwn <=> [][Alone]_vars
  BY DEF JudgedOnItsOwn, RightVerdict
<1> HIDE DEF Alone
<1>5. QED
  BY <1>1, <1>2, <1>3, <1>4, PTL DEF Spec
=============================================================================
