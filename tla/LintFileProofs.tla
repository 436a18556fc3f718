---------------------------- MODULE LintFileProofs ----------------------------
(***************************************************************************)
(* What cpplint keeps of a file, for every alphabet of lines and files of  *)
(* any length.                                                             *)
(*                                                                         *)
(* Over every line, the stack that will count after the conditionals that  *)
(* are open moves as a line of FirstBranches moves it, and the braces of a *)
(* line that counts move it token by token as a reader counts them.  The   *)
(* names in the lists of includes are those of branches that are compiled  *)
(* together with the line, as long as conditionals are not nested, and the *)
(* section is the highest one that was met since the latest directive.     *)
(***************************************************************************)
EXTENDS LintFileHistory, SequenceTheorems, WellFoundedInduction, FiniteSetTheorems, TLAPS

-----------------------------------------------------------------------------
(* The checkpoints                                                          *)

\* What is kept of a conditional: two stacks and whether its first branch is over.
IsCheckpoint(c) ==
    /\ c = [stack_before_if |-> c.stack_before_if, stack_before_else |-> c.stack_before_else,
            seen_else |-> c.seen_else]
    /\ c.seen_else \in BOOLEAN

\* A stack and a sequence of checkpoints.
IsNesting(s) ==
    /\ s = [stack |-> s.stack, pp_stack |-> s.pp_stack]
    /\ \E A : s.pp_stack \in Seq(A)
    /\ \A i \in 1..Len(s.pp_stack) : IsCheckpoint(s.pp_stack[i])

\* m is the outermost conditional whose first branch is over.
IsOutermost(s, m) == m \in Nesting!Over(s) /\ \A j \in Nesting!Over(s) : m <= j

\* One of the conditionals whose first branch is over is around all others.
HasOutermost(s) == Nesting!Over(s) = {} \/ \E m \in 1..Len(s.pp_stack) : IsOutermost(s, m)

\* Of every open conditional, whether its first branch is over.
Skipping(s) == [i \in DOMAIN s.pp_stack |-> s.pp_stack[i].seen_else]

\* No conditional is past its first branch.
Counting(s) == \A i \in DOMAIN Skipping(s) : ~ Skipping(s)[i]

-----------------------------------------------------------------------------
(* Sequences                                                                *)

\* Appending puts one element behind the others and leaves those alone.
LEMMA AppendIs ==
    ASSUME NEW S, NEW seq \in Seq(S), NEW e \in S
    PROVE  /\ Append(seq, e) \in Seq(S)
           /\ Len(Append(seq, e)) = Len(seq) + 1
           /\ \A i \in 1..Len(seq) : Append(seq, e)[i] = seq[i]
           /\ Append(seq, e)[Len(seq) + 1] = e
OBVIOUS

\* The same of the bits, behind which a conditional in its first branch is put.
LEMMA AppendFalse ==
    ASSUME NEW bits \in Seq(BOOLEAN), NEW n, n = Len(bits)
    PROVE  /\ Append(bits, FALSE) \in Seq(BOOLEAN)
           /\ Len(Append(bits, FALSE)) = n + 1
           /\ \A i \in 1..n : Append(bits, FALSE)[i] = bits[i]
           /\ Append(bits, FALSE)[n + 1] = FALSE
BY AppendIs

-----------------------------------------------------------------------------
(* Which stack will count                                                   *)

\* While no first branch is over, the stack that counts is the current one.
LEMMA NothingOver ==
    ASSUME NEW s, IsNesting(s)
    PROVE  /\ Nesting!Over(s) = {i \in 1..Len(s.pp_stack) : s.pp_stack[i].seen_else}
           /\ Skipping(s) = [i \in 1..Len(s.pp_stack) |-> s.pp_stack[i].seen_else]
           /\ Counting(s) <=> Nesting!Over(s) = {}
           /\ Nesting!Over(s) = {} => Nesting!CountedStack(s) = s.stack
<1>1. DOMAIN s.pp_stack = 1..Len(s.pp_stack)
  BY DEF IsNesting
<1> QED
  BY <1>1 DEF Counting, Skipping, Nesting!Over, Nesting!CountedStack

\* Whether the first branch is over, as a sequence.
LEMMA Bits ==
    ASSUME NEW s, IsNesting(s)
    PROVE  /\ Len(s.pp_stack) \in Nat
           /\ Skipping(s) \in Seq(BOOLEAN)
           /\ Len(Skipping(s)) = Len(s.pp_stack)
           /\ \A i \in 1..Len(s.pp_stack) : Skipping(s)[i] = s.pp_stack[i].seen_else
<1> DEFINE n == Len(s.pp_stack)
<1>1. n \in Nat
  BY DEF IsNesting
<1>2. Skipping(s) \in [1..n -> BOOLEAN]
  <2>1. Skipping(s) = [i \in 1..n |-> s.pp_stack[i].seen_else]
    BY NothingOver
  <2>2. \A i \in 1..n : s.pp_stack[i].seen_else \in BOOLEAN
    BY DEF IsNesting, IsCheckpoint
  <2> QED
    BY <2>1, <2>2, Zenon
<1>3. Skipping(s) \in Seq(BOOLEAN)
  BY <1>1, <1>2, SeqDef
<1>4. DOMAIN Skipping(s) = 1..n /\ DOMAIN Skipping(s) = 1..Len(Skipping(s))
  BY <1>2, <1>3
<1>5. Len(Skipping(s)) = n
  BY <1>1, <1>3, <1>4
<1> QED
  BY <1>1, <1>3, <1>5, NothingOver

\* The bits of a state are known by their number and their values.
LEMMA SameBits ==
    ASSUME NEW t, IsNesting(t), NEW bits \in Seq(BOOLEAN), Len(bits) = Len(t.pp_stack),
           \A i \in 1..Len(bits) : bits[i] = t.pp_stack[i].seen_else
    PROVE  Skipping(t) = bits
<1>1. \A i \in 1..Len(bits) : Skipping(t)[i] = bits[i]
  BY Bits
<1>2. Skipping(t) \in Seq(BOOLEAN) /\ Len(Skipping(t)) = Len(bits)
  BY Bits
<1> QED
  BY <1>1, <1>2, SeqEqual

\* There is only one outermost conditional.
LEMMA OutermostIs ==
    ASSUME NEW s, IsNesting(s), NEW m, IsOutermost(s, m)
    PROVE  Nesting!CountedStack(s) = s.pp_stack[m].stack_before_else
<1>1. Nesting!Over(s) \in SUBSET Int
  BY NothingOver DEF IsNesting
<1>2. \A i \in Nesting!Over(s) : (\A j \in Nesting!Over(s) : i <= j) => i = m
  BY <1>1 DEF IsOutermost
<1>3. m = Nesting!Outermost(s)
  BY <1>2 DEF Nesting!Outermost, IsOutermost
<1> QED
  BY <1>3 DEF Nesting!CountedStack, IsOutermost

\* The text of a line changes nothing but the current stack.
LEMMA TextOnly ==
    ASSUME NEW s, IsNesting(s), HasOutermost(s), NEW b, NEW t,
           t = [stack |-> b, pp_stack |-> s.pp_stack]
    PROVE  /\ IsNesting(t)
           /\ HasOutermost(t)
           /\ Skipping(t) = Skipping(s)
           /\ Nesting!CountedStack(t) = IF Counting(s) THEN b ELSE Nesting!CountedStack(s)
<1>1. t.stack = b /\ t.pp_stack = s.pp_stack
  OBVIOUS
<1>2. IsNesting(t)
  BY <1>1 DEF IsNesting
<1>3. Nesting!Over(t) = Nesting!Over(s)
  BY <1>1 DEF Nesting!Over
<1>4. Skipping(t) = Skipping(s)
  BY <1>1 DEF Skipping
<1>5. HasOutermost(t)
  BY <1>1, <1>3 DEF HasOutermost, IsOutermost
<1>6. ASSUME Counting(s) PROVE Nesting!CountedStack(t) = b
  BY <1>1, <1>2, <1>3, <1>6, NothingOver
<1>7. ASSUME ~ Counting(s) PROVE Nesting!CountedStack(t) = Nesting!CountedStack(s)
  <2>1. PICK m \in 1..Len(s.pp_stack) : IsOutermost(s, m)
    BY <1>7, NothingOver DEF HasOutermost
  <2>2. IsOutermost(t, m)
    BY <1>3, <2>1 DEF IsOutermost
  <2> QED
    BY <1>1, <1>2, <2>1, <2>2, OutermostIs
<1> QED
  BY <1>2, <1>4, <1>5, <1>6, <1>7

-----------------------------------------------------------------------------
(* Directives                                                               *)

\* What a directive does to the claim, before the text of its line is read: the branch
\* bits are as FirstBranches has them, and the stack that counts is the same.
Keeps(s, t, bits) ==
    /\ IsNesting(t)
    /\ HasOutermost(t)
    /\ Skipping(t) = bits
    /\ Nesting!CountedStack(t) = Nesting!CountedStack(s)

\* Putting a conditional on top keeps a sequence of checkpoints.
LEMMA Appended ==
    ASSUME NEW A, NEW p \in Seq(A), \A i \in 1..Len(p) : IsCheckpoint(p[i]),
           NEW c, IsCheckpoint(c), NEW b, NEW t,
           t = [stack |-> b, pp_stack |-> Append(p, c)]
    PROVE  /\ IsNesting(t)
           /\ Len(t.pp_stack) = Len(p) + 1
           /\ \A i \in 1..Len(p) : t.pp_stack[i] = p[i]
           /\ t.pp_stack[Len(p) + 1] = c
<1> DEFINE B == A \cup {c}
<1>1. p \in Seq(B) /\ c \in B
  OBVIOUS
<1> HIDE DEF B
<1>2. /\ Append(p, c) \in Seq(B)
      /\ Len(Append(p, c)) = Len(p) + 1
      /\ \A i \in 1..Len(p) : Append(p, c)[i] = p[i]
      /\ Append(p, c)[Len(p) + 1] = c
  BY <1>1
<1>3. t.pp_stack = Append(p, c)
  OBVIOUS
<1>4. \A i \in 1..(Len(p) + 1) : i \in 1..Len(p) \/ i = Len(p) + 1
  BY <1>1
<1> QED
  BY <1>2, <1>3, <1>4 DEF IsNesting

\* A #if is in its first branch (cpplint.py, 2450-2453).
LEMMA IfKeeps ==
    ASSUME NEW s, IsNesting(s), HasOutermost(s)
    PROVE  Keeps(s, Nesting!AtIf(s), Append(Skipping(s), FALSE))
<1> DEFINE p == s.pp_stack
           n == Len(p)
           c == Nesting!Checkpoint(s.stack)
           t == Nesting!AtIf(s)
<1>1. PICK A : p \in Seq(A)
  BY DEF IsNesting
<1>2. IsCheckpoint(c) /\ c.seen_else = FALSE
  BY DEF Nesting!Checkpoint, IsCheckpoint
<1>3. t = [stack |-> s.stack, pp_stack |-> Append(p, c)]
  BY DEF Nesting!AtIf, IsNesting
<1>4. \A i \in 1..Len(p) : IsCheckpoint(p[i])
  BY DEF IsNesting
<1>5. n \in Nat /\ \A i \in 1..(n + 1) : i \in 1..n \/ i = n + 1
  BY <1>1
<1>6. Nesting!Over(s) = {i \in 1..n : p[i].seen_else}
  BY NothingOver
<1>7. /\ Skipping(s) \in Seq(BOOLEAN) /\ Len(Skipping(s)) = n
      /\ \A i \in 1..n : Skipping(s)[i] = p[i].seen_else
  BY Bits
<1>8. Nesting!Over(s) = {} \/ \E m \in 1..n : IsOutermost(s, m)
  BY DEF HasOutermost
<1>9. t.stack = s.stack
  BY <1>3
<1> HIDE DEF c, t, p
<1>10. /\ IsNesting(t)
       /\ Len(t.pp_stack) = n + 1
       /\ \A i \in 1..n : t.pp_stack[i] = p[i]
       /\ t.pp_stack[n + 1] = c
  BY <1>1, <1>2, <1>3, <1>4, Appended
<1> HIDE DEF n
<1>11. Nesting!Over(t) = {i \in 1..(n + 1) : t.pp_stack[i].seen_else}
  BY <1>10, NothingOver
<1>12. Nesting!Over(t) = Nesting!Over(s)
  <2>1. \A i \in 1..n : t.pp_stack[i].seen_else = p[i].seen_else /\ i \in 1..(n + 1)
    BY <1>5, <1>10
  <2>2. t.pp_stack[n + 1].seen_else = FALSE
    BY <1>2, <1>10
  <2>3. {i \in 1..(n + 1) : t.pp_stack[i].seen_else} = {i \in 1..n : p[i].seen_else}
    BY <1>5, <2>1, <2>2
  <2>4. QED
    BY <1>6, <1>11, <2>3
<1>13. HasOutermost(t)
  BY <1>5, <1>8, <1>10, <1>12 DEF HasOutermost, IsOutermost
<1>14. Skipping(t) = Append(Skipping(s), FALSE)
  <2> DEFINE bits == Append(Skipping(s), FALSE)
  <2>1. bits \in Seq(BOOLEAN) /\ Len(bits) = n + 1
    BY <1>7
  <2>2. /\ \A i \in 1..n : bits[i] = Skipping(s)[i]
        /\ bits[n + 1] = FALSE
    BY <1>7, AppendFalse
  <2> HIDE DEF bits
  <2>3. \A i \in 1..n : bits[i] = t.pp_stack[i].seen_else
    BY <1>7, <1>10, <2>2, Zenon
  <2>4. bits[n + 1] = t.pp_stack[n + 1].seen_else
    BY <1>2, <1>10, <2>2, Zenon
  <2>5. \A i \in 1..(n + 1) : bits[i] = t.pp_stack[i].seen_else
    BY <1>5, <2>3, <2>4, Zenon
  <2>6. Skipping(t) = bits
    BY <2>1, <2>5, <1>10, SameBits
  <2> QED
    BY <2>6 DEF bits
<1>15. Nesting!CountedStack(t) = Nesting!CountedStack(s)
  <2>1. CASE Nesting!Over(s) = {}
    BY <1>9, <1>10, <1>12, <2>1, NothingOver
  <2>2. CASE Nesting!Over(s) # {}
    <3>1. PICK m \in 1..n : IsOutermost(s, m)
      BY <1>8, <2>2
    <3>2. IsOutermost(t, m)
      BY <1>12, <3>1 DEF IsOutermost
    <3>3. Nesting!CountedStack(t) = t.pp_stack[m].stack_before_else
      BY <1>10, <3>2, OutermostIs
    <3>4. Nesting!CountedStack(s) = p[m].stack_before_else
      BY <3>1, OutermostIs DEF p
    <3> QED
      BY <1>10, <3>3, <3>4
  <2> QED
    BY <2>1, <2>2
<1> QED
  BY <1>10, <1>13, <1>14, <1>15 DEF Keeps, t

\* All conditionals but the last.
LEMMA OuterIs ==
    ASSUME NEW A, NEW p \in Seq(A), p # <<>>, NEW n, n = Len(p)
    PROVE  /\ n \in Nat \ {0}
           /\ Nesting!Outer(p) \in Seq(A)
           /\ Len(Nesting!Outer(p)) = n - 1
           /\ \A i \in 1..(n - 1) : Nesting!Outer(p)[i] = p[i]
BY DEF Nesting!Outer

\* An #else keeps the stack of the first branch that is over (cpplint.py, 2454-2468).
LEMMA SeenIs ==
    ASSUME NEW c, IsCheckpoint(c), NEW b
    PROVE  /\ IsCheckpoint(Nesting!SaveAtElse(c, b)) /\ Nesting!SaveAtElse(c, b).seen_else
           /\ Nesting!SaveAtElse(c, b).stack_before_else =
                IF c.seen_else THEN c.stack_before_else ELSE b
BY DEF IsCheckpoint, Nesting!SaveAtElse

\* The bits behind an #else: the first branch of the last conditional is over.
Turned(bits) == [i \in DOMAIN bits |-> i = Len(bits) \/ bits[i]]

\* An #else ends the first branch of the last conditional.
LEMMA ElseKeeps ==
    ASSUME NEW s, IsNesting(s), HasOutermost(s)
    PROVE  Keeps(s, Nesting!AtElse(s), Turned(Skipping(s)))
<1> DEFINE p == s.pp_stack
           n == Len(p)
           top == p[n]
           saved == Nesting!SaveAtElse(top, s.stack)
           t == Nesting!AtElse(s)
<1>1. PICK A : p \in Seq(A)
  BY DEF IsNesting
<1>2. Nesting!Over(s) = {i \in 1..n : p[i].seen_else}
  BY NothingOver
<1>3. /\ DOMAIN Skipping(s) = 1..n /\ Len(Skipping(s)) = n
      /\ \A i \in 1..n : Skipping(s)[i] = p[i].seen_else
  BY Bits
<1>4. CASE p = <<>>
  <2>1. t = s /\ n = 0
    BY <1>4 DEF Nesting!AtElse
  <2>2. Turned(Skipping(s)) = Skipping(s)
    <3>1. DOMAIN Skipping(s) = {}
      BY <1>3, <2>1
    <3>2. Skipping(s) = [i \in DOMAIN Skipping(s) |-> Skipping(s)[i]]
      BY DEF Skipping
    <3> QED
      BY <3>1, <3>2 DEF Turned
  <2> QED
    BY <2>1, <2>2 DEF Keeps
<1>5. CASE p # <<>>
  <2>1. /\ n \in Nat \ {0} /\ n \in 1..n
        /\ Nesting!Outer(p) \in Seq(A) /\ Len(Nesting!Outer(p)) = n - 1
        /\ \A i \in 1..(n - 1) : Nesting!Outer(p)[i] = p[i]
    <3> HIDE DEF saved, t
    <3>1. /\ n \in Nat \ {0}
          /\ Nesting!Outer(p) \in Seq(A) /\ Len(Nesting!Outer(p)) = n - 1
          /\ \A i \in 1..(n - 1) : Nesting!Outer(p)[i] = p[i]
      BY <1>1, <1>5, OuterIs
    <3> QED
      BY <3>1
  <2>2. \A i \in 1..n : IsCheckpoint(p[i])
    BY DEF IsNesting
  <2>3. /\ IsCheckpoint(saved) /\ saved.seen_else
        /\ saved.stack_before_else = IF top.seen_else THEN top.stack_before_else ELSE s.stack
    <3>1. IsCheckpoint(top)
      BY <2>1, <2>2
    <3> HIDE DEF top
    <3>2. /\ IsCheckpoint(Nesting!SaveAtElse(top, s.stack))
          /\ Nesting!SaveAtElse(top, s.stack).seen_else
          /\ Nesting!SaveAtElse(top, s.stack).stack_before_else =
               IF top.seen_else THEN top.stack_before_else ELSE s.stack
      BY <3>1, SeenIs
    <3> QED
      BY <3>2
  <2>4. t = [stack |-> top.stack_before_if, pp_stack |-> Append(Nesting!Outer(p), saved)]
    BY <1>5 DEF Nesting!AtElse, Nesting!Innermost
  <2>5. \A i \in 1..n : i \in 1..(n - 1) \/ i = n
    BY <2>1
  <2> HIDE DEF saved, t
  <2>6. /\ IsNesting(t)
        /\ Len(t.pp_stack) = n
        /\ \A i \in 1..(n - 1) : t.pp_stack[i] = p[i]
        /\ t.pp_stack[n] = saved
    <3> DEFINE o == Nesting!Outer(p)
    <3>1. \A i \in 1..Len(o) : IsCheckpoint(o[i])
      BY <2>1, <2>2
    <3>2. o \in Seq(A) /\ Len(o) + 1 = n /\ 1..Len(o) = 1..(n - 1)
      BY <2>1
    <3>3. \A i \in 1..(n - 1) : o[i] = p[i]
      BY <2>1
    <3>4. t = [stack |-> top.stack_before_if, pp_stack |-> Append(o, saved)]
      BY <2>4
    <3> HIDE DEF o, p, n
    <3>5. /\ IsNesting(t)
          /\ Len(t.pp_stack) = Len(o) + 1
          /\ \A i \in 1..Len(o) : t.pp_stack[i] = o[i]
          /\ t.pp_stack[Len(o) + 1] = saved
      BY <2>3, <3>1, <3>2, <3>4, Appended
    <3> QED
      BY <3>2, <3>3, <3>5
  <2>7. Nesting!Over(t) = {i \in 1..n : t.pp_stack[i].seen_else}
    BY <2>6, NothingOver
  <2>8. Nesting!Over(s) = {} \/ \E m \in 1..n : IsOutermost(s, m)
    BY DEF HasOutermost
  <2> HIDE DEF n, p
  <2>9. Nesting!Over(t) = Nesting!Over(s) \cup {n}
    BY <1>2, <2>1, <2>3, <2>5, <2>6, <2>7
  <2>10. Skipping(t) = Turned(Skipping(s))
    <3>1. Skipping(t) = [i \in 1..n |-> t.pp_stack[i].seen_else]
      BY <2>6, NothingOver
    <3>2. Turned(Skipping(s)) = [i \in 1..n |-> i = n \/ Skipping(s)[i]]
      BY <1>3 DEF Turned
    <3>3. \A i \in 1..(n - 1) : t.pp_stack[i].seen_else = (i = n \/ Skipping(s)[i])
      <4>1. \A i \in 1..(n - 1) : i # n /\ i \in 1..n
        BY <2>1
      <4>2. \A i \in 1..n : p[i].seen_else \in BOOLEAN
        BY <2>2 DEF IsCheckpoint
      <4> QED
        BY <1>3, <2>6, <4>1, <4>2, Zenon
    <3>4. t.pp_stack[n].seen_else = (n = n \/ Skipping(s)[n])
      BY <2>3, <2>6, Zenon
    <3>5. \A i \in 1..n : t.pp_stack[i].seen_else = (i = n \/ Skipping(s)[i])
      BY <2>5, <3>3, <3>4, Zenon
    <3> QED
      BY <3>1, <3>2, <3>5, Zenon
  <2>11. HasOutermost(t) /\ Nesting!CountedStack(t) = Nesting!CountedStack(s)
    <3>1. CASE Nesting!Over(s) = {}
      <4>1. IsOutermost(t, n)
        BY <2>1, <2>9, <3>1 DEF IsOutermost
      <4>2. ~ top.seen_else
        BY <1>2, <2>1, <3>1
      <4>3. Nesting!CountedStack(t) = s.stack
        BY <2>3, <2>6, <4>1, <4>2, OutermostIs
      <4> QED
        BY <2>1, <2>6, <3>1, <4>1, <4>3, NothingOver DEF HasOutermost
    <3>2. CASE Nesting!Over(s) # {}
      <4>1. PICK m \in 1..n : IsOutermost(s, m)
        BY <2>8, <3>2
      <4>2. IsOutermost(t, m)
        BY <2>1, <2>9, <4>1 DEF IsOutermost
      <4>3. Nesting!CountedStack(t) = t.pp_stack[m].stack_before_else
        BY <2>6, <4>2, OutermostIs
      <4>4. Nesting!CountedStack(s) = p[m].stack_before_else
        BY <4>1, OutermostIs DEF p
      <4>5. m = n => top.seen_else
        BY <1>2, <4>1 DEF IsOutermost
      <4>6. t.pp_stack[m].stack_before_else = p[m].stack_before_else
        BY <2>3, <2>5, <2>6, <4>5
      <4> QED
        BY <2>6, <4>2, <4>3, <4>4, <4>6 DEF HasOutermost
    <3> QED
      BY <3>1, <3>2
  <2> QED
    BY <2>6, <2>10, <2>11 DEF Keeps, t
<1> QED
  BY <1>4, <1>5

\* The bits behind an #endif.
Left(bits) == IF bits = <<>> THEN bits ELSE SubSeq(bits, 1, Len(bits) - 1)

\* The bits of all conditionals but the last.
LEMMA LeftIs ==
    ASSUME NEW bits \in Seq(BOOLEAN), NEW n \in Nat \ {0}, n = Len(bits)
    PROVE  /\ Left(bits) \in Seq(BOOLEAN)
           /\ Len(Left(bits)) = n - 1
           /\ \A i \in 1..(n - 1) : Left(bits)[i] = bits[i]
BY DEF Left

\* An #endif leaves the last conditional with the stack that counts (cpplint.py, 2469-2483).
LEMMA EndifKeeps ==
    ASSUME NEW s, IsNesting(s), HasOutermost(s)
    PROVE  Keeps(s, Nesting!AtEndif(s), Left(Skipping(s)))
<1> DEFINE p == s.pp_stack
           n == Len(p)
           top == p[n]
           o == Nesting!Outer(p)
           t == Nesting!AtEndif(s)
<1>1. PICK A : p \in Seq(A)
  BY DEF IsNesting
<1>2. Nesting!Over(s) = {i \in 1..n : p[i].seen_else}
  BY NothingOver
<1>3. /\ Skipping(s) \in Seq(BOOLEAN) /\ Len(Skipping(s)) = n
      /\ \A i \in 1..n : Skipping(s)[i] = p[i].seen_else
  BY Bits
<1>4. CASE p = <<>>
  <2>1. t = s /\ n = 0
    BY <1>4 DEF Nesting!AtEndif
  <2>2. Skipping(s) = <<>>
    BY <1>3, <2>1
  <2> QED
    BY <2>1, <2>2 DEF Keeps, Left
<1>5. CASE p # <<>>
  <2> HIDE DEF t, o
  <2>1. /\ n \in Nat \ {0}
        /\ o \in Seq(A) /\ Len(o) = n - 1
        /\ \A i \in 1..(n - 1) : o[i] = p[i]
    BY <1>1, <1>5, OuterIs DEF o
  <2>2. \A i \in 1..n : IsCheckpoint(p[i])
    BY DEF IsNesting
  <2>3. t = [stack |-> IF top.seen_else THEN top.stack_before_else ELSE s.stack, pp_stack |-> o]
    BY <1>5 DEF Nesting!AtEndif, Nesting!Innermost, t, o
  <2>4. t.pp_stack = o /\ t.stack = IF top.seen_else THEN top.stack_before_else ELSE s.stack
    BY <2>3
  <2>5. \A i \in 1..n : i \in 1..(n - 1) \/ i = n
    BY <2>1
  <2>6. \A i \in 1..(n - 1) : i \in 1..n /\ i # n
    BY <2>1
  <2>7. \A i \in 1..Len(o) : IsCheckpoint(o[i])
    BY <2>1, <2>2, <2>6
  <2> HIDE DEF top
  <2>8. IsNesting(t)
    BY <2>1, <2>3, <2>4, <2>7 DEF IsNesting
  <2>9. Nesting!Over(t) = {i \in 1..(n - 1) : o[i].seen_else}
    BY <2>1, <2>4, <2>8, NothingOver
  <2>10. Nesting!Over(s) = {} \/ \E m \in 1..n : IsOutermost(s, m)
    BY DEF HasOutermost
  <2> HIDE DEF n, p
  <2>11. Nesting!Over(t) = Nesting!Over(s) \ {n}
    BY <1>2, <2>1, <2>5, <2>6, <2>9
  <2>12. Skipping(t) = Left(Skipping(s))
    <3> DEFINE bits == Left(Skipping(s))
    <3>1. /\ bits \in Seq(BOOLEAN) /\ Len(bits) = n - 1
          /\ \A i \in 1..(n - 1) : bits[i] = Skipping(s)[i]
      BY <1>3, <2>1, LeftIs
    <3> HIDE DEF bits
    <3>2. \A i \in 1..(n - 1) : bits[i] = t.pp_stack[i].seen_else
      BY <1>3, <2>1, <2>4, <2>6, <3>1, Zenon
    <3>3. Skipping(t) = bits
      BY <2>1, <2>4, <2>8, <3>1, <3>2, SameBits
    <3> QED
      BY <3>3 DEF bits
  <2>13. HasOutermost(t) /\ Nesting!CountedStack(t) = Nesting!CountedStack(s)
    <3>1. CASE Nesting!Over(s) = {}
      <4>1. Nesting!Over(t) = {} /\ ~ top.seen_else
        BY <1>2, <2>1, <2>11, <3>1 DEF top
      <4> QED
        BY <2>4, <2>8, <3>1, <4>1, NothingOver DEF HasOutermost
    <3>2. CASE Nesting!Over(s) # {}
      <4>1. PICK m \in 1..n : IsOutermost(s, m)
        BY <2>10, <3>2
      <4>2. Nesting!CountedStack(s) = p[m].stack_before_else
        BY <4>1, OutermostIs DEF p
      <4>3. CASE m = n
        <5>1. Nesting!Over(t) = {} /\ top.seen_else
          BY <1>2, <2>1, <2>11, <4>1, <4>3 DEF top, IsOutermost
        <5> QED
          BY <2>4, <2>8, <4>2, <4>3, <5>1, NothingOver DEF HasOutermost, top
      <4>4. CASE m # n
        <5>1. IsOutermost(t, m) /\ m \in 1..(n - 1)
          BY <2>5, <2>11, <4>1, <4>4 DEF IsOutermost
        <5>2. Nesting!CountedStack(t) = t.pp_stack[m].stack_before_else
          BY <2>8, <5>1, OutermostIs
        <5> QED
          BY <2>1, <2>4, <4>2, <5>1, <5>2 DEF HasOutermost
      <4> QED
        BY <4>3, <4>4
    <3> QED
      BY <3>1, <3>2
  <2> QED
    BY <2>8, <2>12, <2>13 DEF Keeps, t
<1> QED
  BY <1>4, <1>5

-----------------------------------------------------------------------------
(* Lines                                                                    *)

\* Over one line the invariant is kept, and the stack that counts and the branch bits
\* move as a line of FirstBranches moves them.
LEMMA LineRefines ==
    ASSUME NEW s, IsNesting(s), HasOutermost(s), NEW line
    PROVE  LET u == Nesting!UpdatedBy(s, line)
           IN  /\ IsNesting(u)
               /\ HasOutermost(u)
               /\ \/ DirectiveOf(line) = "if" /\ Skipping(u) = Append(Skipping(s), FALSE)
                  \/ DirectiveOf(line) = "else" /\ Skipping(u) = Turned(Skipping(s))
                  \/ DirectiveOf(line) = "endif" /\ Skipping(u) = Left(Skipping(s))
                  \/ DirectiveOf(line) \notin {"if", "else", "endif"} /\ Skipping(u) = Skipping(s)
               /\ Nesting!CountedStack(u) =
                    IF Counting(u) THEN ParseLine(Nesting!CountedStack(s), line)
                    ELSE Nesting!CountedStack(s)
<1> DEFINE t == Nesting!UpdatePreprocessor(s, line)
           u == Nesting!UpdatedBy(s, line)
<1>1. PICK bits :
        /\ Keeps(s, t, bits)
        /\ \/ DirectiveOf(line) = "if" /\ bits = Append(Skipping(s), FALSE)
           \/ DirectiveOf(line) = "else" /\ bits = Turned(Skipping(s))
           \/ DirectiveOf(line) = "endif" /\ bits = Left(Skipping(s))
           \/ DirectiveOf(line) \notin {"if", "else", "endif"} /\ bits = Skipping(s)
  <2>1. CASE DirectiveOf(line) = "if"
    BY <2>1, IfKeeps DEF Nesting!UpdatePreprocessor
  <2>2. CASE DirectiveOf(line) = "else"
    BY <2>2, ElseKeeps DEF Nesting!UpdatePreprocessor
  <2>3. CASE DirectiveOf(line) = "endif"
    BY <2>3, EndifKeeps DEF Nesting!UpdatePreprocessor
  <2>4. CASE DirectiveOf(line) \notin {"if", "else", "endif"}
    BY <2>4 DEF Nesting!UpdatePreprocessor, Keeps
  <2> QED
    BY <2>1, <2>2, <2>3, <2>4
<1> HIDE DEF t
<1>2. /\ IsNesting(t) /\ HasOutermost(t) /\ Skipping(t) = bits
      /\ Nesting!CountedStack(t) = Nesting!CountedStack(s)
  BY <1>1 DEF Keeps
<1>3. u = [stack |-> ParseLine(t.stack, line), pp_stack |-> t.pp_stack]
  BY <1>2 DEF Nesting!UpdatedBy, IsNesting, t
<1> HIDE DEF u
<1>4. /\ IsNesting(u)
      /\ HasOutermost(u)
      /\ Skipping(u) = Skipping(t)
      /\ Nesting!CountedStack(u) =
           IF Counting(t) THEN ParseLine(t.stack, line) ELSE Nesting!CountedStack(t)
  BY <1>2, <1>3, TextOnly
<1>5. Counting(u) <=> Counting(t)
  BY <1>4 DEF Counting
<1>6. Counting(t) => Nesting!CountedStack(t) = t.stack
  BY <1>2, NothingOver
<1> QED
  BY <1>1, <1>2, <1>4, <1>5, <1>6 DEF u

-----------------------------------------------------------------------------
(* The first branches count                                                 *)

\* The part of the invariant about conditionals.
NestInv == IsNesting(nesting) /\ HasOutermost(nesting)

\* It holds at the beginning of a file.
LEMMA InitNests == HistoryInit => NestInv
BY DEF HistoryInit, Init, Nesting!InitNesting, NestInv, IsNesting, HasOutermost, Nesting!Over

\* Every line keeps it.
LEMMA StepNests ==
  ASSUME NestInv, [HistoryNext]_allVars
  PROVE  NestInv'
<1>1. ASSUME NEW line \in alphabet, ReadLine(line) PROVE NestInv'
  BY <1>1, LineRefines DEF ReadLine, NestInv
<1>2. ASSUME UNCHANGED nesting PROVE NestInv'
  BY <1>2 DEF NestInv
<1>3. QED
  BY <1>1, <1>2 DEF HistoryNext, EndOfFile, allVars, vars

\* At all times the checkpoints are records, and among the conditionals whose first branch is
\* over one is around all others (cpplint.py, 2450-2483).
THEOREM StackIsSound == HistorySpec => []NestInv
<1>1. NestInv /\ [HistoryNext]_allVars => NestInv'
  BY StepNests
<1>2. QED
  BY <1>1, InitNests, PTL DEF HistorySpec

-----------------------------------------------------------------------------
\* The lines of a file are of one of the alphabets.
AlphabetInv == alphabet \in Alphabets

\* They are so from the beginning to the end.
LEMMA AlphabetStays == HistorySpec => []AlphabetInv
<1>1. HistoryInit => AlphabetInv
  BY DEF HistoryInit, Init, AlphabetInv
<1>2. AlphabetInv /\ [HistoryNext]_allVars => AlphabetInv'
  BY DEF AlphabetInv, HistoryNext, ReadLine, EndOfFile, allVars, vars
<1>3. QED
  BY <1>1, <1>2, PTL DEF HistorySpec

\* After every line of every file the stack that will count is the one the first
\* branches alone lead to, however conditionals are nested, repeated or left
\* unbalanced (cpplint.py, 2439-2483).
THEOREM FirstBranchesCount == HistorySpec => CountsFirstBranches
<1> DEFINE bits == Skipping(nesting)
           counted == Nesting!CountedStack(nesting)
<1>1. HistoryInit => Nesting!Branches!Init
  <2> SUFFICES ASSUME HistoryInit PROVE Nesting!Branches!Init
    OBVIOUS
  <2>1. nesting.pp_stack = <<>> /\ nesting.stack = <<>>
    BY DEF HistoryInit, Init, Nesting!InitNesting
  <2>2. DOMAIN nesting.pp_stack = {}
    BY <2>1
  <2>3. Nesting!Over(nesting) = {}
    BY <2>2 DEF Nesting!Over
  <2> QED
    BY <2>1, <2>2, <2>3 DEF Nesting!Branches!Init, Nesting!CountedStack
<1>2. AlphabetInv /\ NestInv /\ [HistoryNext]_allVars => [Nesting!Branches!Next]_<<counted, bits>>
  <2> SUFFICES ASSUME AlphabetInv, NestInv, [HistoryNext]_allVars
               PROVE  [Nesting!Branches!Next]_<<counted, bits>>
    OBVIOUS
  <2>1. CASE UNCHANGED nesting
    BY <2>1
  <2>2. ASSUME NEW line \in alphabet, ReadLine(line) PROVE Nesting!Branches!Next
    <3>1. /\ \/ DirectiveOf(line) = "if" /\ bits' = Append(bits, FALSE)
             \/ DirectiveOf(line) = "else" /\ bits' = Turned(bits)
             \/ DirectiveOf(line) = "endif" /\ bits' = Left(bits)
             \/ DirectiveOf(line) \notin {"if", "else", "endif"} /\ bits' = bits
          /\ counted' = IF Counting(nesting') THEN ParseLine(counted, line) ELSE counted
      BY <2>2, LineRefines DEF ReadLine, NestInv
    <3>2. Counting(nesting') <=> Nesting!Branches!Counts(bits')
      BY DEF Counting, Nesting!Branches!Counts
    <3>3. \/ Nesting!Branches!Enter(line) \/ Nesting!Branches!Turn(line)
          \/ Nesting!Branches!Leave(line) \/ Nesting!Branches!Stay(line)
      BY <3>1 DEF Nesting!Branches!Enter, Nesting!Branches!Turn, Nesting!Branches!Leave,
                  Nesting!Branches!Stay, Turned, Left, Skipping
    <3>4. line \in UNION Alphabets
      BY <2>2 DEF AlphabetInv
    <3> QED
      BY <3>1, <3>2, <3>3, <3>4 DEF Nesting!Branches!Next, Nesting!Branches!ReadLine, Skipping
  <2> QED
    BY <2>1, <2>2 DEF HistoryNext, EndOfFile, allVars, vars
<1> QED
  BY <1>1, <1>2, StackIsSound, AlphabetStays, PTL
  DEF HistorySpec, CountsFirstBranches, Nesting!CountsFirstBranches, Nesting!Branches!Spec, Skipping

-----------------------------------------------------------------------------
(* The conditionals around a line                                           *)

\* The lines at which conditionals and branches may have begun, among the first n.
Marks(n) == [opened : 1..n, branch : 1..n]

\* The conditionals that are open began in lines that were read.
PathInv ==
    /\ linenum \in Nat
    /\ path \in Seq(Marks(linenum))
    /\ \A e \in seen : e.path \in Seq(Marks(linenum))

\* What began among the first n lines did so among the first n + 1.
LEMMA MarksGrow ==
  ASSUME NEW n \in Nat, NEW p \in Seq(Marks(n))
  PROVE  p \in Seq(Marks(n + 1))
<1>1. Marks(n) \subseteq Marks(n + 1)
  BY DEF Marks
<1>2. QED
  BY <1>1, SeqMonotonic

\* What a directive does to the path.
LEMMA PathAtIf ==
  ASSUME PathInv, NEW line, line.directive = "if"
  PROVE  /\ NextPath(line) \in Seq(Marks(linenum + 1)) /\ Len(NextPath(line)) = Len(path) + 1
         /\ \A i \in 1..Len(path) : NextPath(line)[i] = path[i]
         /\ NextPath(line)[Len(path) + 1] = [opened |-> linenum + 1, branch |-> linenum + 1]
<1>1. PICK n, e : n = linenum + 1 /\ e = [opened |-> n, branch |-> n]
  OBVIOUS
<1>2. e \in Marks(n) /\ path \in Seq(Marks(n))
  <2>1. linenum \in Nat /\ path \in Seq(Marks(linenum))
    BY DEF PathInv
  <2>2. n \in 1..n
    BY <1>1, <2>1
  <2>3. e \in Marks(n)
    BY <1>1, <2>2 DEF Marks
  <2>4. QED
    BY <1>1, <2>1, <2>3, MarksGrow
<1>3. NextPath(line) = Append(path, e)
  BY <1>1 DEF NextPath
<1>4. /\ Append(path, e) \in Seq(Marks(n)) /\ Len(Append(path, e)) = Len(path) + 1
      /\ \A i \in 1..Len(path) : Append(path, e)[i] = path[i]
      /\ Append(path, e)[Len(path) + 1] = e
  BY <1>2, AppendIs
<1>5. QED
  BY <1>1, <1>3, <1>4

\* At an #else the last conditional comes to another branch.
LEMMA PathAtElse ==
  ASSUME PathInv, NEW line, line.directive = "else", path # <<>>
  PROVE  /\ NextPath(line) \in Seq(Marks(linenum + 1)) /\ Len(NextPath(line)) = Len(path)
         /\ \A i \in 1..(Len(path) - 1) : NextPath(line)[i] = path[i]
         /\ NextPath(line)[Len(path)] = [opened |-> path[Len(path)].opened, branch |-> linenum + 1]
         /\ Len(path) \in 1..Len(path)
<1>1. PICK n, m, e, p : /\ n = linenum + 1 /\ e = [opened |-> path[m].opened, branch |-> n]
                        /\ m = Len(path) /\ p = SubSeq(path, 1, m - 1)
  OBVIOUS
<1>2. linenum \in Nat /\ path \in Seq(Marks(linenum)) /\ path \in Seq(Marks(n))
  BY <1>1, MarksGrow DEF PathInv
<1>3. m \in 1..m /\ m \in 1..Len(path) /\ m \in Nat
  BY <1>1, <1>2
<1>4. path[m] \in Marks(linenum)
  BY <1>2, <1>3
<1>5. e \in Marks(n) /\ e = [path[m] EXCEPT !.branch = n]
  <2>1. PICK w \in Marks(linenum) : w = path[m]
    BY <1>4
  <2>2. w.opened \in 1..n /\ n \in 1..n /\ w = [opened |-> w.opened, branch |-> w.branch]
    BY <1>1, <1>2 DEF Marks
  <2>3. e = [opened |-> w.opened, branch |-> n]
    BY <1>1, <2>1
  <2>4. e \in Marks(n)
    BY <2>2, <2>3 DEF Marks
  <2>5. [w EXCEPT !.branch = n] = [opened |-> w.opened, branch |-> n]
    BY <2>2
  <2>6. QED
    BY <2>1, <2>3, <2>4, <2>5
<1>6. p \in Seq(Marks(n)) /\ Len(p) = m - 1 /\ \A i \in 1..(m - 1) : p[i] = path[i]
  BY <1>1, <1>2, <1>3
<1>7. NextPath(line) = Append(p, e)
  BY <1>1, <1>5 DEF NextPath, Front, Last
<1>8. /\ Append(p, e) \in Seq(Marks(n)) /\ Len(Append(p, e)) = Len(p) + 1
      /\ \A i \in 1..Len(p) : Append(p, e)[i] = p[i]
      /\ Append(p, e)[Len(p) + 1] = e
  BY <1>5, <1>6, AppendIs
<1>9. Len(p) + 1 = m
  BY <1>3, <1>6
<1>10. QED
  BY <1>1, <1>3, <1>6, <1>7, <1>8, <1>9

\* At an #endif the path loses its last conditional.
LEMMA PathAtEndif ==
  ASSUME PathInv, NEW line, line.directive = "endif", path # <<>>
  PROVE  /\ NextPath(line) \in Seq(Marks(linenum + 1)) /\ Len(NextPath(line)) = Len(path) - 1
         /\ \A i \in 1..(Len(path) - 1) : NextPath(line)[i] = path[i]
<1>1. PICK m, p : m = Len(path) /\ p = SubSeq(path, 1, m - 1)
  OBVIOUS
<1>2. linenum \in Nat /\ path \in Seq(Marks(linenum)) /\ path \in Seq(Marks(linenum + 1))
  BY MarksGrow DEF PathInv
<1>3. p \in Seq(Marks(linenum + 1)) /\ Len(p) = m - 1 /\ \A i \in 1..(m - 1) : p[i] = path[i]
  BY <1>1, <1>2
<1>4. NextPath(line) = p
  BY <1>1 DEF NextPath, Front
<1>5. QED
  BY <1>1, <1>3, <1>4

\* All other lines leave the path alone.
LEMMA PathStays ==
  ASSUME PathInv, NEW line,
         \/ line.directive \notin {"if", "else", "endif"}
         \/ path = <<>> /\ line.directive # "if"
  PROVE  NextPath(line) = path
BY DEF NextPath

\* Behind any line the path is one of the lines read so far.
LEMMA NextPathIsPath ==
  ASSUME PathInv, NEW line
  PROVE  NextPath(line) \in Seq(Marks(linenum + 1))
<1>1. path \in Seq(Marks(linenum + 1))
  BY MarksGrow DEF PathInv
<1>2. QED
  BY <1>1, PathAtIf, PathAtElse, PathAtEndif, PathStays

\* At all times the history speaks of lines that were read.
LEMMA PathIsSound == HistorySpec => []PathInv
<1>1. HistoryInit => PathInv
  BY DEF HistoryInit, Init, PathInv
<1>2. PathInv /\ [HistoryNext]_allVars => PathInv'
  <2> SUFFICES ASSUME PathInv, [HistoryNext]_allVars PROVE PathInv'
    OBVIOUS
  <2>1. ASSUME NEW line \in alphabet, ReadLine(line), Observe(line) PROVE PathInv'
    <3>1. /\ linenum' = linenum + 1 /\ path' = NextPath(line)
          /\ seen' = seen \cup {[name |-> h.name, path |-> path] : h \in line.include}
      BY <2>1 DEF ReadLine, Observe, NoteIncludes
    <3>2. linenum \in Nat /\ linenum' \in Nat
      BY <3>1 DEF PathInv
    <3>3. path' \in Seq(Marks(linenum'))
      BY <3>1, NextPathIsPath
    <3>4. ASSUME NEW e \in seen' PROVE e.path \in Seq(Marks(linenum'))
      <4>1. e.path \in Seq(Marks(linenum))
        BY <3>1, <3>4 DEF PathInv
      <4>2. QED
        BY <3>1, <3>2, <4>1, MarksGrow
    <3>5. QED
      BY <3>2, <3>3, <3>4 DEF PathInv
  <2>2. ASSUME UNCHANGED <<linenum, path, seen>> PROVE PathInv'
    BY <2>2 DEF PathInv
  <2>3. QED
    BY <2>1, <2>2 DEF HistoryNext, EndOfFile, allVars, vars, history
<1>3. QED
  BY <1>1, <1>2, PTL DEF HistorySpec

-----------------------------------------------------------------------------
(* The lists of includes                                                    *)

\* At least one list of headers, and a section.
IsIncludes(s) ==
    /\ s = [include_list |-> s.include_list, section |-> s.section, last_header |-> s.last_header]
    /\ s.section \in 0..4
    /\ Len(s.include_list) > 0 /\ \E A : s.include_list \in Seq(Seq(A))

\* Replacing the last element leaves the others alone.
LEMMA ReplacedLast ==
  ASSUME NEW A, NEW s \in Seq(A), Len(s) > 0, NEW e \in A
  PROVE  /\ ReplaceLast(s, e) \in Seq(A) /\ Len(ReplaceLast(s, e)) = Len(s)
         /\ \A i \in 1..(Len(s) - 1) : ReplaceLast(s, e)[i] = s[i]
         /\ ReplaceLast(s, e)[Len(s)] = e
<1>1. PICK m, p : m = Len(s) /\ p = SubSeq(s, 1, m - 1)
  OBVIOUS
<1>2. m \in Nat /\ m > 0 /\ p \in Seq(A) /\ Len(p) = m - 1 /\ \A i \in 1..(m - 1) : p[i] = s[i]
  BY <1>1
<1>3. /\ Append(p, e) \in Seq(A) /\ Len(Append(p, e)) = Len(p) + 1
      /\ \A i \in 1..Len(p) : Append(p, e)[i] = p[i]
      /\ Append(p, e)[Len(p) + 1] = e
  BY <1>2, AppendIs
<1>4. ReplaceLast(s, e) = Append(p, e)
  BY <1>1 DEF ReplaceLast, Front
<1>5. Len(p) + 1 = m
  BY <1>2
<1>6. QED
  BY <1>1, <1>2, <1>3, <1>4, <1>5

\* The header is one that CheckIncludeLine puts into the list (cpplint.py, 4495-4496).
NewHeader(s, h) == ~ FindHeader(s, h.name) /\ h.relation \notin {"cc", "third_party"}

\* The section that a header belongs to.
SectionFor(s, h) == SectionOf(s.section, ClassifyInclude(h))

\* t is s with the header h at the end of the last list.
Notes(s, h, n, t) ==
    /\ IsIncludes(t)
    /\ t.section = IF s.section > SectionFor(s, h) THEN s.section ELSE SectionFor(s, h)
    /\ Len(t.include_list) = Len(s.include_list)
    /\ \A i \in 1..(Len(s.include_list) - 1) : t.include_list[i] = s.include_list[i]
    /\ t.include_list[Len(s.include_list)] =
         Append(s.include_list[Len(s.include_list)], [name |-> h.name, line |-> n])

\* t is s behind a directive: with a new list, with an empty last list or with all lists.
Restarts(s, directive, t) ==
    /\ IsIncludes(t) /\ t.section = 0
    /\ directive = "if" => t.include_list = Append(s.include_list, <<>>)
    /\ directive = "else" => t.include_list = ReplaceLast(s.include_list, <<>>)
    /\ directive \notin {"if", "else"} => t.include_list = s.include_list

\* What becomes of the lists when a header is noted, and of the section.
LEMMA HeaderIsNoted ==
  ASSUME NEW s, IsIncludes(s), NEW h, NEW n, NewHeader(s, h)
  PROVE  Notes(s, h, n, AfterInclude(s, h, n))
<1> PICK k : k = SectionFor(s, h)
  OBVIOUS
<1>1. PICK A : s.include_list \in Seq(Seq(A))
  BY DEF IsIncludes
<1>2. PICK L, e, B, m, a, M : /\ L = s.include_list /\ e = [name |-> h.name, line |-> n]
                              /\ B = A \cup {e} /\ m = Len(L) /\ a = Append(L[m], e)
                              /\ M = ReplaceLast(L, a)
  OBVIOUS
<1>3. m \in Nat /\ m > 0 /\ m \in 1..m /\ L \in Seq(Seq(B))
  <2>1. L \in Seq(Seq(A)) /\ m \in Nat /\ m > 0
    BY <1>1, <1>2 DEF IsIncludes
  <2>2. Seq(A) \subseteq Seq(B)
    BY <1>2, SeqMonotonic
  <2>3. L \in Seq(Seq(B))
    BY <2>1, <2>2, SeqMonotonic
  <2>4. QED
    BY <2>1, <2>3
<1>4. a \in Seq(B)
  <2>1. L[m] \in Seq(B) /\ e \in B
    BY <1>2, <1>3
  <2>2. QED
    BY <1>2, <2>1
<1>5. /\ M \in Seq(Seq(B)) /\ Len(M) = m /\ \A i \in 1..(m - 1) : M[i] = L[i]
      /\ M[m] = a
  <2>1. PICK C : C = Seq(B)
    OBVIOUS
  <2>2. L \in Seq(C) /\ Len(L) > 0 /\ a \in C /\ Len(L) = m
    BY <1>2, <1>3, <1>4, <2>1
  <2>3. /\ ReplaceLast(L, a) \in Seq(C) /\ Len(ReplaceLast(L, a)) = Len(L)
        /\ \A i \in 1..(Len(L) - 1) : ReplaceLast(L, a)[i] = L[i]
        /\ ReplaceLast(L, a)[Len(L)] = a
    BY <2>2, ReplacedLast
  <2>4. M = ReplaceLast(L, a)
    BY <1>2
  <2>5. QED
    BY <2>1, <2>2, <2>3, <2>4
<1>6. PICK listed : listed = [s EXCEPT !.include_list = M]
  OBVIOUS
<1>7. /\ listed = [include_list |-> M, section |-> s.section, last_header |-> s.last_header]
  BY <1>6 DEF IsIncludes
<1>8. listed.section = s.section /\ (OutOfOrder(listed, h) <=> s.section > k)
  BY <1>7 DEF OutOfOrder, SectionFor
<1>9. \E x : NextSection(listed, h) =
               [include_list |-> M, section |-> IF s.section > k THEN s.section ELSE k,
                last_header |-> x]
  <2>1. CASE s.section > k
    BY <1>7, <1>8, <2>1 DEF NextSection, SectionFor
  <2>2. CASE ~ (s.section > k)
    <3>1. NextSection(listed, h) =
            [listed EXCEPT !.section = k, !.last_header = IF s.section # k THEN 0 ELSE @]
      BY <1>8, <2>2 DEF NextSection, SectionFor
    <3>2. NextSection(listed, h) =
            [include_list |-> M, section |-> k,
             last_header |-> IF s.section # k THEN 0 ELSE s.last_header]
      BY <1>7, <3>1
    <3>3. QED
      BY <2>2, <3>2
  <2>3. QED
    BY <2>1, <2>2
<1>10. AfterInclude(s, h, n) = [NextSection(listed, h) EXCEPT !.last_header = h.rank]
  <2>1. listed = [s EXCEPT !.include_list = ReplaceLast(@, Append(Last(@), e))]
    BY <1>2, <1>6 DEF Last
  <2>2. QED
    BY <1>2, <2>1 DEF AfterInclude, NewHeader
<1>11. AfterInclude(s, h, n) =
         [include_list |-> M, section |-> IF s.section > k THEN s.section ELSE k,
          last_header |-> h.rank]
  BY <1>9, <1>10
<1>12. k \in 0..4 /\ s.section \in 0..4
  BY DEF SectionFor, IsIncludes, SectionOf, C_SECTION, CPP_SECTION, MY_H_SECTION, OTHER_H_SECTION
<1>13. PICK t : t = AfterInclude(s, h, n)
  OBVIOUS
<1>14. t.include_list = M /\ t.section = (IF s.section > k THEN s.section ELSE k)
  BY <1>11, <1>13
<1>15. IsIncludes(t)
  BY <1>3, <1>5, <1>11, <1>12, <1>13 DEF IsIncludes
<1>16. QED
  BY <1>2, <1>5, <1>13, <1>14, <1>15 DEF Notes

\* Other headers change nothing.
LEMMA HeaderIsLeftAlone ==
  ASSUME NEW s, NEW h, NEW n, ~ NewHeader(s, h)
  PROVE  AfterInclude(s, h, n) = s
BY DEF AfterInclude, NewHeader

\* What a directive does to them.
LEMMA SectionIsReset ==
  ASSUME NEW s, IsIncludes(s), NEW directive
  PROVE  Restarts(s, directive, ResetSection(s, directive))
<1>1. PICK A : s.include_list \in Seq(Seq(A))
  BY DEF IsIncludes
<1>2. PICK L, m : L = s.include_list /\ m = Len(L)
  OBVIOUS
<1>3. L \in Seq(Seq(A)) /\ m \in Nat /\ m > 0 /\ <<>> \in Seq(A)
  BY <1>1, <1>2 DEF IsIncludes
<1>4. PICK M : M = CASE directive = "if" -> Append(L, <<>>)
                     [] directive = "else" -> ReplaceLast(L, <<>>)
                     [] OTHER -> L
  OBVIOUS
<1>5. M \in Seq(Seq(A)) /\ Len(M) > 0
  <2>1. CASE directive = "if"
    <3>1. Append(L, <<>>) \in Seq(Seq(A)) /\ Len(Append(L, <<>>)) = m + 1
      BY <1>2, <1>3, AppendIs
    <3>2. QED
      BY <1>3, <1>4, <2>1, <3>1
  <2>2. CASE directive = "else"
    <3>1. PICK C, e : C = Seq(A) /\ e = <<>>
      OBVIOUS
    <3>2. L \in Seq(C) /\ Len(L) > 0 /\ e \in C
      BY <1>2, <1>3, <3>1
    <3>3. ReplaceLast(L, e) \in Seq(C) /\ Len(ReplaceLast(L, e)) = Len(L)
      BY <3>2, ReplacedLast
    <3>4. M = ReplaceLast(L, e)
      BY <1>4, <2>2, <3>1
    <3>5. QED
      BY <3>1, <3>2, <3>3, <3>4
  <2>3. CASE directive \notin {"if", "else"}
    BY <1>2, <1>3, <1>4, <2>3
  <2>4. QED
    BY <2>1, <2>2, <2>3
<1>6. ResetSection(s, directive) = [include_list |-> M, section |-> 0, last_header |-> 0]
  <2>1. PICK x, y, z : s = [include_list |-> x, section |-> y, last_header |-> z]
    BY DEF IsIncludes
  <2>2. s.include_list = x /\ x = L
    BY <1>2, <2>1
  <2>3. ResetSection(s, directive) =
          [s EXCEPT !.section = 0, !.last_header = 0, !.include_list = M]
    BY <1>4, <2>1, <2>2 DEF ResetSection, INITIAL_SECTION
  <2>4. QED
    BY <2>1, <2>3
<1>7. PICK t : t = ResetSection(s, directive)
  OBVIOUS
<1>8. t.include_list = M /\ t.section = 0 /\ IsIncludes(t)
  BY <1>5, <1>6, <1>7 DEF IsIncludes
<1>9. QED
  BY <1>2, <1>4, <1>7, <1>8 DEF Restarts

-----------------------------------------------------------------------------
(* What a line does to the includes                                         *)

\* One header is included, or a directive starts over, or nothing happens.
IncludesOne(line, h) ==
    /\ line.include = {h} /\ line.directive = "none"
    /\ includes' = AfterInclude(includes, h, linenum + 1)
    /\ errors' = At(linenum + 1,
                    IndentationErrors(nesting.stack, nesting'.stack, line)
                      \cup {e.category : e \in FunctionErrors(functions, line.role)}
                      \cup LanguageErrors(line))

\* The line is a directive.
StartsOver(line) ==
    /\ line.include = {} /\ line.directive # "none"
    /\ includes' = ResetSection(includes, line.directive)

\* The line is neither.
LeavesIncludes(line) ==
    /\ line.include = {} /\ line.directive = "none" /\ includes' = includes

\* Every line is one of the three (cpplint.py, 4632-4641, 5730-5735).
LEMMA LineCases ==
  ASSUME AlphabetInv, linenum \in Nat, [PlainAssembly]_allVars,
         NEW line \in alphabet, ReadLine(line)
  PROVE  (\E h : IncludesOne(line, h)) \/ StartsOver(line) \/ LeavesIncludes(line)
<1>1. linenum' = linenum + 1 /\ linenum' # linenum
  BY DEF ReadLine
<1>2. PlainAssembly
  BY <1>1 DEF allVars, vars
<1>3. line \in UNION Alphabets
  BY DEF AlphabetInv
<1>4. line.include # {} => line.directive = "none" /\ \E h \in line.include : line.include = {h}
  BY <1>3, LinesAssumption
<1>5. CASE ReadAssembly(line)
  <2>1. InAsmBlock(nesting'.stack) /\ includes' = includes
    BY <1>5 DEF ReadAssembly
  <2>2. line.directive = "none" /\ line.include = {}
    BY <1>2, <2>1 DEF PlainAssembly
  <2>3. QED
    BY <2>1, <2>2 DEF LeavesIncludes
<1>6. CASE ReadCode(line)
  <2>1. ReadInclude(line) \/ ReadDirective(line)
    BY <1>6 DEF ReadCode
  <2>2. CASE ReadInclude(line)
    <3>1. /\ line.include # {}
          /\ \E h \in line.include : includes' = AfterInclude(includes, h, linenum + 1)
      BY <2>2 DEF ReadInclude
    <3>2. PICK h : line.include = {h} /\ includes' = AfterInclude(includes, h, linenum + 1)
      BY <1>4, <3>1
    <3>3. QED
      BY <1>4, <1>6, <3>1, <3>2 DEF ReadCode, IncludesOne
  <2>3. CASE ReadDirective(line)
    BY <2>3 DEF ReadDirective, StartsOver, LeavesIncludes
  <2>4. QED
    BY <2>1, <2>2, <2>3
<1>7. QED
  BY <1>5, <1>6 DEF ReadLine

-----------------------------------------------------------------------------
(* What is reported of an #include                                          *)

\* The checks of indentation and functions report nothing of includes.
LEMMA OtherCategories ==
  ASSUME NEW line, NEW before, NEW after
  PROVE  /\ IndentationErrors(before, after, line) \subseteq {"runtime/indentation_namespace"}
         /\ {e.category : e \in FunctionErrors(functions, line.role)}
              \subseteq {"readability/fn_size"}
<1>1. IndentationErrors(before, after, line) \subseteq {"runtime/indentation_namespace"}
  BY DEF IndentationErrors
<1>2. ASSUME NEW e \in FunctionErrors(functions, line.role) PROVE e.category = "readability/fn_size"
  BY <1>2 DEF FunctionErrors, CheckFunction
<1>3. QED
  BY <1>1, <1>2

\* What is reported of includes comes from the check of the includes.
LEMMA ReportsAre ==
  ASSUME linenum' = linenum + 1, NEW line, NEW h, IncludesOne(line, h),
         NEW c \in {"build/include", "build/include_order"}
  PROVE  Reported(c)' <=> c \in IncludeErrors(includes, h, after_include)
<1>1. LanguageErrors(line) = IncludeErrors(includes, h, after_include)
  BY DEF IncludesOne, LanguageErrors
<1>2. PICK I, F, G : /\ I = IndentationErrors(nesting.stack, nesting'.stack, line)
                     /\ F = {e.category : e \in FunctionErrors(functions, line.role)}
                     /\ G = LanguageErrors(line)
  OBVIOUS
<1>3. I \subseteq {"runtime/indentation_namespace"} /\ F \subseteq {"readability/fn_size"}
  BY <1>2, OtherCategories
<1>4. errors' = At(linenum + 1, I \cup F \cup G)
  BY <1>2 DEF IncludesOne
<1>5. c \in I \cup F \cup G <=> c \in G
  BY <1>3
<1>6. PICK n, H : n = linenum + 1 /\ H = I \cup F \cup G
  OBVIOUS
<1>7. [line |-> n, category |-> c] \in {[line |-> n, category |-> d] : d \in H} <=> c \in H
  <2>1. ASSUME NEW d, [line |-> n, category |-> c] = [line |-> n, category |-> d] PROVE c = d
    <3>1. [line |-> n, category |-> c].category = c /\ [line |-> n, category |-> d].category = d
      OBVIOUS
    <3>2. QED
      BY <2>1, <3>1
  <2>2. QED
    BY <2>1
<1>8. Reported(c)' <=> [line |-> n, category |-> c] \in At(n, H)
  BY <1>4, <1>6 DEF Reported
<1>9. QED
  BY <1>1, <1>2, <1>5, <1>6, <1>7, <1>8 DEF At

-----------------------------------------------------------------------------
(* The order of the sections                                                *)

\* The section is the highest of the headers since the latest directive.
Judged ==
    /\ IsIncludes(includes)
    /\ stretch \subseteq 1..4
    /\ stretch = {} => includes.section = 0
    /\ stretch # {} => includes.section \in stretch
    /\ \A r \in stretch : r <= includes.section

\* What the reader calls misplaced is what the code finds out of order.
LEMMA RanksAgree ==
  ASSUME Judged, NEW h
  PROVE  /\ Rank(h) = SectionOf(includes.section, ClassifyInclude(h))
         /\ OutOfOrder(includes, h) <=> Misplaced(h)
         /\ Rank(h) \in 1..4
<1>1. PICK n : n = includes.section
  OBVIOUS
<1>2. /\ n \in 0..4 /\ stretch \subseteq 1..4 /\ (stretch = {} => n = 0)
      /\ (stretch # {} => n \in stretch) /\ \A r \in stretch : r <= n
  BY <1>1 DEF Judged, IsIncludes
<1>3. stretch \subseteq {1} <=> n <= 1
  BY <1>2
<1>4. PICK c : c = ClassifyInclude(h)
  OBVIOUS
<1>5. c \in {"c_sys", "cpp_sys", "likely_my", "possible_my", "other"}
  BY <1>4 DEF ClassifyInclude
<1>6. Rank(h) = SectionOf(n, c)
  BY <1>2, <1>3, <1>4, <1>5
  DEF Rank, SectionOf, MY_H_SECTION, C_SECTION, CPP_SECTION, OTHER_H_SECTION
<1>7. Rank(h) \in 1..4
  BY <1>3, <1>4, <1>5 DEF Rank
<1>8. OutOfOrder(includes, h) <=> n > Rank(h)
  BY <1>1, <1>4, <1>6 DEF OutOfOrder
<1>9. n > Rank(h) => System(h)
  <2>1. CASE c = "other"
    BY <1>2, <1>4, <2>1 DEF Rank
  <2>2. CASE c \in {"likely_my", "possible_my"}
    BY <1>2, <1>3, <1>4, <2>2 DEF Rank
  <2>3. CASE c \in {"c_sys", "cpp_sys"}
    BY <1>4, <2>3 DEF System
  <2>4. QED
    BY <1>5, <2>1, <2>2, <2>3
<1>10. (\E r \in stretch : r > Rank(h)) <=> n > Rank(h)
  <2>1. PICK k : k = Rank(h)
    OBVIOUS
  <2>2. k \in 1..4
    BY <1>7, <2>1
  <2>3. (\E r \in stretch : r > k) <=> n > k
    BY <1>2, <2>2
  <2>4. QED
    BY <2>1, <2>3
<1>11. QED
  BY <1>1, <1>4, <1>6, <1>7, <1>8, <1>9, <1>10 DEF Misplaced

\* It is so at the beginning of a file, and is 0.
LEMMA JudgedAtFirst == HistoryInit => Judged
<1> SUFFICES ASSUME HistoryInit PROVE Judged
  OBVIOUS
<1>1. includes = [include_list |-> << <<>> >>, section |-> 0, last_header |-> 0] /\ stretch = {}
  BY DEF HistoryInit, Init, InitIncludes, INITIAL_SECTION
<1>2. includes.include_list = << <<>> >> /\ includes.section = 0
  BY <1>1
<1>3. << <<>> >> \in Seq(Seq({})) /\ Len(<< <<>> >>) > 0
  OBVIOUS
<1>4. IsIncludes(includes)
  BY <1>1, <1>2, <1>3 DEF IsIncludes
<1>5. QED
  BY <1>1, <1>2, <1>4 DEF Judged

\* Every line keeps it so.
LEMMA StepJudges ==
  ASSUME Judged, PathInv, AlphabetInv, [HistoryNext]_allVars, [PlainAssembly]_allVars
  PROVE  Judged'
<1>1. ASSUME UNCHANGED <<includes, stretch>> PROVE Judged'
  BY <1>1 DEF Judged, IsIncludes
<1>2. ASSUME NEW line \in alphabet, ReadLine(line), Observe(line) PROVE Judged'
  <2>1. (\E h : IncludesOne(line, h)) \/ StartsOver(line) \/ LeavesIncludes(line)
    BY <1>2, LineCases DEF PathInv
  <2>2. NoteStretch(line)
    BY <1>2 DEF Observe
  <2>3. CASE LeavesIncludes(line)
    <3>1. stretch' = stretch
      BY <2>2, <2>3 DEF LeavesIncludes, NoteStretch
    <3>2. QED
      BY <1>1, <2>3, <3>1 DEF LeavesIncludes
  <2>4. CASE StartsOver(line)
    <3>1. stretch' = {} /\ includes' = ResetSection(includes, line.directive)
      BY <2>2, <2>4 DEF StartsOver, NoteStretch
    <3>2. PICK t : t = ResetSection(includes, line.directive)
      OBVIOUS
    <3>3. IsIncludes(t) /\ t.section = 0
      BY <3>2, SectionIsReset DEF Judged, Restarts
    <3>4. includes' = t
      BY <3>1, <3>2
    <3>5. QED
      BY <3>1, <3>3, <3>4 DEF Judged
  <2>5. ASSUME NEW h, IncludesOne(line, h) PROVE Judged'
    <3>1. /\ line.directive = "none" /\ line.include = {h}
          /\ includes' = AfterInclude(includes, h, linenum + 1)
      BY <2>5 DEF IncludesOne
    <3>2. stretch' = stretch \cup {Rank(x) : x \in {g \in {h} :
                                          /\ ~ FindHeader(includes, g.name)
                                          /\ g.relation \notin {"cc", "third_party"}
                                          /\ ~ Misplaced(g)}}
      BY <2>2, <3>1 DEF NoteStretch
    <3>3. CASE FindHeader(includes, h.name) \/ h.relation \in {"cc", "third_party"}
      <4>1. includes' = includes
        BY <3>1, <3>3, HeaderIsLeftAlone DEF NewHeader
      <4>2. stretch' = stretch
        BY <3>2, <3>3
      <4>3. QED
        BY <1>1, <4>1, <4>2
    <3>4. CASE ~ FindHeader(includes, h.name) /\ h.relation \notin {"cc", "third_party"}
      <4>1. PICK k, t : k = SectionOf(includes.section, ClassifyInclude(h))
                        /\ t = AfterInclude(includes, h, linenum + 1)
        OBVIOUS
      <4>2. IsIncludes(t) /\ t.section = IF includes.section > k THEN includes.section ELSE k
        <5>1. PICK s, n : s = includes /\ n = linenum + 1
          OBVIOUS
        <5>2. IsIncludes(s) /\ NewHeader(s, h)
          BY <3>4, <5>1 DEF Judged, NewHeader
        <5>3. Notes(s, h, n, AfterInclude(s, h, n))
          BY <5>2, HeaderIsNoted
        <5>4. t = AfterInclude(s, h, n) /\ k = SectionFor(s, h)
          BY <4>1, <5>1 DEF SectionFor
        <5>5. QED
          BY <5>1, <5>3, <5>4 DEF Notes
      <4>3. Rank(h) = k /\ k \in 1..4 /\ (Misplaced(h) <=> includes.section > k)
        BY <4>1, RanksAgree DEF OutOfOrder
      <4>4. stretch' = IF includes.section > k THEN stretch ELSE stretch \cup {k}
        BY <3>2, <3>4, <4>3
      <4>5. PICK n : n = includes.section
        OBVIOUS
      <4>6. includes' = t /\ includes'.section = IF n > k THEN n ELSE k
        BY <3>1, <4>1, <4>2, <4>5
      <4>7. /\ n \in 0..4 /\ stretch \subseteq 1..4 /\ (stretch = {} => n = 0)
            /\ (stretch # {} => n \in stretch) /\ \A r \in stretch : r <= n
        BY <4>5 DEF Judged, IsIncludes
      <4>8. CASE n > k
        <5>1. includes'.section = n /\ stretch' = stretch
          BY <4>4, <4>5, <4>6, <4>8
        <5>2. QED
          BY <4>2, <4>6, <4>7, <5>1 DEF Judged
      <4>9. CASE ~ (n > k)
        <5>1. includes'.section = k /\ stretch' = stretch \cup {k}
          BY <4>4, <4>5, <4>6, <4>9
        <5>2. /\ stretch \cup {k} \subseteq 1..4 /\ k \in stretch \cup {k}
              /\ \A r \in stretch \cup {k} : r <= k
          BY <4>3, <4>7, <4>9
        <5>3. QED
          BY <4>2, <4>6, <5>1, <5>2 DEF Judged
      <4>10. QED
        BY <4>8, <4>9
    <3>5. QED
      BY <3>3, <3>4
  <2>6. QED
    BY <2>1, <2>3, <2>4, <2>5
<1>3. QED
  BY <1>1, <1>2 DEF HistoryNext, EndOfFile, allVars, vars, history

\* OrderIsJudged of one step.
OrderIsJudgedNow ==
    after_include' =>
        \A line \in IncludeLinesOf(alphabet) : ReadLine(line) =>
            \A h \in line.include :
                Reported("build/include_order")' <=>
                    /\ Misplaced(h)
                    /\ h.relation \notin {"cc", "third_party"}
                    /\ ~ FindHeader(includes, h.name)

\* While the section is the highest one, a step reports the order as a reader judges it.
LEMMA ReportsTheOrder ==
  ASSUME Judged, PathInv, AlphabetInv, [PlainAssembly]_allVars
  PROVE  OrderIsJudgedNow
<1> SUFFICES ASSUME NEW line \in IncludeLinesOf(alphabet), ReadLine(line), NEW g \in line.include
             PROVE  Reported("build/include_order")' <=>
                        /\ Misplaced(g)
                        /\ g.relation \notin {"cc", "third_party"}
                        /\ ~ FindHeader(includes, g.name)
  BY DEF OrderIsJudgedNow
<1>1. line \in alphabet /\ line.include # {}
  BY DEF IncludeLinesOf
<1>2. PICK h : IncludesOne(line, h)
  BY <1>1, LineCases DEF PathInv, StartsOver, LeavesIncludes
<1>3. g = h
  BY <1>2 DEF IncludesOne
<1>4. linenum' = linenum + 1
  BY DEF ReadLine
<1>5. Reported("build/include_order")'
        <=> "build/include_order" \in IncludeErrors(includes, h, after_include)
  BY <1>2, <1>4, ReportsAre
<1>6. OutOfOrder(includes, h) <=> Misplaced(h)
  BY RanksAgree
<1>7. "build/include_order" \in IncludeErrors(includes, h, after_include)
        <=> /\ OutOfOrder(includes, h)
            /\ h.relation \notin {"cc", "third_party"}
            /\ ~ FindHeader(includes, h.name)
  BY DEF IncludeErrors
<1>8. QED
  BY <1>3, <1>5, <1>6, <1>7

\* A header is reported as out of order exactly if, since the latest directive, a header of
\* a later section came before it (CheckNextIncludeOrder, cpplint.py, 814-847), if
\* directives and includes stand outside of assembly, which is not looked at.
THEOREM OrderIsRight == HistorySpec /\ [][PlainAssembly]_allVars => OrderIsJudged
<1>1. Judged /\ PathInv /\ AlphabetInv /\ [HistoryNext]_allVars /\ [PlainAssembly]_allVars
        => Judged'
  BY StepJudges
<1>2. Judged /\ PathInv /\ AlphabetInv /\ [PlainAssembly]_allVars => [OrderIsJudgedNow]_allVars
  BY ReportsTheOrder
<1>3. QED
  BY <1>1, <1>2, JudgedAtFirst, PathIsSound, AlphabetStays, PTL
  DEF HistorySpec, OrderIsJudged, OrderIsJudgedNow

-----------------------------------------------------------------------------
(* Which branches the names in the lists come from                          *)

\* No conditional is on both paths.
Apart(p, q) == \A i \in DOMAIN p, j \in DOMAIN q : p[i].opened # q[j].opened

\* Every name in the lists L was included under a path of S that has no conditional in
\* common with the path p or, if it is in the last list, is p.
Accounted(L, S, p) ==
    \A i \in 1..Len(L) : \A j \in 1..Len(L[i]) :
        \E e \in S : /\ e.name = L[i][j].name
                     /\ Apart(e.path, p) \/ (i = Len(L) /\ e.path = p)

\* A list that is begun is empty, and what was included before is apart.
LEMMA NewListAccounts ==
  ASSUME NEW A, NEW L \in Seq(Seq(A)), NEW S, NEW p, NEW q, Accounted(L, S, p),
         \A e \in S : Apart(e.path, q)
  PROVE  Accounted(Append(L, <<>>), S, q)
<1>1. PICK C, x, M, m : C = Seq(A) /\ x = <<>> /\ M = Append(L, x) /\ m = Len(L)
  OBVIOUS
<1>2. L \in Seq(C) /\ x \in C /\ m \in Nat
  BY <1>1
<1>3. M \in Seq(C) /\ Len(M) = m + 1 /\ (\A i \in 1..m : M[i] = L[i]) /\ M[m + 1] = x
  BY <1>1, <1>2, AppendIs
<1>4. ASSUME NEW i \in 1..Len(M), NEW j \in 1..Len(M[i])
      PROVE  \E e \in S : e.name = M[i][j].name /\ Apart(e.path, q)
  <2>1. i \in 1..m \/ i = m + 1
    BY <1>2, <1>3
  <2>2. i # m + 1
    BY <1>1, <1>3, <1>4
  <2>3. M[i] = L[i] /\ i \in 1..m /\ j \in 1..Len(L[i])
    BY <1>3, <2>1, <2>2
  <2>4. \E e \in S : e.name = L[i][j].name
    BY <1>1, <2>3 DEF Accounted
  <2>5. QED
    BY <2>3, <2>4
<1>5. Accounted(M, S, q)
  BY <1>4 DEF Accounted
<1>6. QED
  BY <1>1, <1>5

\* A list that is cleared at an #else has no names of the other branch.
LEMMA ClearedListAccounts ==
  ASSUME NEW A, NEW L \in Seq(Seq(A)), Len(L) > 0, NEW S, NEW p, NEW q, Accounted(L, S, p),
         DOMAIN p = DOMAIN q, \A i \in DOMAIN p : p[i].opened = q[i].opened
  PROVE  Accounted(ReplaceLast(L, <<>>), S, q)
<1>1. PICK C, x, M, m : C = Seq(A) /\ x = <<>> /\ M = ReplaceLast(L, x) /\ m = Len(L)
  OBVIOUS
<1>2. L \in Seq(C) /\ x \in C /\ m \in Nat /\ m > 0
  BY <1>1
<1>3. M \in Seq(C) /\ Len(M) = m /\ (\A i \in 1..(m - 1) : M[i] = L[i]) /\ M[m] = x
  <2>1. /\ ReplaceLast(L, x) \in Seq(C) /\ Len(ReplaceLast(L, x)) = Len(L)
        /\ \A i \in 1..(Len(L) - 1) : ReplaceLast(L, x)[i] = L[i]
        /\ ReplaceLast(L, x)[Len(L)] = x
    <3>1. L \in Seq(C) /\ Len(L) > 0 /\ x \in C
      BY <1>1, <1>2
    <3>2. QED
      BY <3>1, ReplacedLast
  <2>2. QED
    BY <1>1, <2>1
<1>4. ASSUME NEW i \in 1..Len(M), NEW j \in 1..Len(M[i])
      PROVE  \E e \in S : e.name = M[i][j].name /\ Apart(e.path, q)
  <2>1. i # m
    BY <1>1, <1>3, <1>4
  <2>2. M[i] = L[i] /\ i \in 1..m /\ j \in 1..Len(L[i])
    BY <1>2, <1>3, <2>1
  <2>3. \E e \in S : e.name = L[i][j].name /\ Apart(e.path, p)
    BY <1>1, <2>1, <2>2 DEF Accounted
  <2>4. ASSUME NEW w, Apart(w, p) PROVE Apart(w, q)
    BY <2>4 DEF Apart
  <2>5. QED
    BY <2>2, <2>3, <2>4
<1>5. Accounted(M, S, q)
  BY <1>4 DEF Accounted
<1>6. QED
  BY <1>1, <1>5

\* Outside of all conditionals nothing has one in common.
LEMMA OutsideAccounts ==
  ASSUME NEW L, NEW S, NEW p, Accounted(L, S, p)
  PROVE  Accounted(L, S, <<>>)
<1>1. \A w : Apart(w, <<>>)
  BY DEF Apart
<1>2. QED
  BY <1>1 DEF Accounted

\* A header that is noted was included under the current path.
LEMMA NotedAccounts ==
  ASSUME NEW s, IsIncludes(s), NEW h, NEW n, NEW t, Notes(s, h, n, t), NEW S, NEW p,
         Accounted(s.include_list, S, p), NEW T, S \subseteq T,
         [name |-> h.name, path |-> p] \in T
  PROVE  Accounted(t.include_list, T, p)
<1>1. PICK A : s.include_list \in Seq(Seq(A))
  BY DEF IsIncludes
<1>2. PICK L, M, m, x : /\ L = s.include_list /\ M = t.include_list /\ m = Len(L)
                        /\ x = [name |-> h.name, line |-> n]
  OBVIOUS
<1>3. /\ Len(M) = m /\ (\A i \in 1..(m - 1) : M[i] = L[i]) /\ M[m] = Append(L[m], x)
      /\ m \in Nat /\ m > 0 /\ L \in Seq(Seq(A))
  BY <1>1, <1>2 DEF Notes, IsIncludes
<1>4. PICK B : B = A \cup {x}
  OBVIOUS
<1>5. L[m] \in Seq(B) /\ x \in B
  <2>1. L[m] \in Seq(A)
    <3>1. PICK C : C = Seq(A)
      OBVIOUS
    <3>2. L \in Seq(C) /\ m \in 1..Len(L)
      BY <1>2, <1>3, <3>1
    <3>3. L[m] \in C
      BY <3>2
    <3>4. QED
      BY <3>1, <3>3
  <2>2. Seq(A) \subseteq Seq(B)
    BY <1>4, SeqMonotonic
  <2>3. QED
    BY <1>4, <2>1, <2>2
<1>6. PICK u, k : u = L[m] /\ k = Len(u)
  OBVIOUS
<1>7. k \in Nat /\ Len(M[m]) = k + 1 /\ (\A j \in 1..k : M[m][j] = u[j]) /\ M[m][k + 1] = x
  BY <1>3, <1>5, <1>6, AppendIs
<1>8. x.name = h.name
  BY <1>2
<1>9. ASSUME NEW i \in 1..Len(M), NEW j \in 1..Len(M[i])
      PROVE  \E e \in T : /\ e.name = M[i][j].name
                          /\ Apart(e.path, p) \/ (i = Len(M) /\ e.path = p)
  <2>1. ASSUME j \in 1..Len(L[i]), M[i][j] = L[i][j]
        PROVE  \E e \in T : /\ e.name = M[i][j].name
                            /\ Apart(e.path, p) \/ (i = Len(M) /\ e.path = p)
    <3>1. i \in 1..Len(L) /\ Len(M) = Len(L)
      BY <1>2, <1>3
    <3>2. Accounted(L, S, p)
      BY <1>2
    <3>3. \E e \in S : /\ e.name = L[i][j].name
                       /\ Apart(e.path, p) \/ (i = Len(L) /\ e.path = p)
      BY <2>1, <3>1, <3>2 DEF Accounted
    <3>4. QED
      BY <2>1, <3>1, <3>3
  <2>2. CASE i # m
    <3>1. i \in 1..(m - 1)
      BY <1>3, <2>2
    <3>2. M[i] = L[i]
      BY <1>3, <3>1
    <3>3. QED
      BY <2>1, <3>2
  <2>3. CASE i = m /\ j \in 1..k
    BY <1>6, <1>7, <2>1, <2>3
  <2>4. CASE i = m /\ j = k + 1
    <3>1. PICK e : e = [name |-> h.name, path |-> p]
      OBVIOUS
    <3>2. e \in T /\ e.name = h.name /\ e.path = p
      BY <3>1
    <3>3. M[i][j].name = h.name /\ i = Len(M)
      BY <1>3, <1>7, <1>8, <2>4
    <3>4. QED
      BY <3>2, <3>3
  <2>5. QED
    BY <1>7, <2>2, <2>3, <2>4
<1>10. Accounted(M, T, p)
  BY <1>9 DEF Accounted
<1>11. QED
  BY <1>2, <1>10

-----------------------------------------------------------------------------
(* No duplicates of other branches                                          *)

\* Until conditionals are nested, the names in the lists are those a line may repeat.
ListsInv == ~ nested => Len(path) <= 1 /\ Accounted(includes.include_list, seen, path)

\* It holds of the list of an empty file.
LEMMA ListsAtFirst == HistoryInit => ListsInv
<1> SUFFICES ASSUME HistoryInit PROVE ListsInv
  OBVIOUS
<1>1. includes = [include_list |-> << <<>> >>, section |-> 0, last_header |-> 0] /\ path = <<>>
  BY DEF HistoryInit, Init, InitIncludes, INITIAL_SECTION
<1>2. includes.include_list = << <<>> >>
  BY <1>1
<1>3. Accounted(<< <<>> >>, seen, path)
  <2>1. ASSUME NEW i \in 1..Len(<< <<>> >>), NEW j \in 1..Len(<< <<>> >>[i]) PROVE FALSE
    OBVIOUS
  <2>2. QED
    BY <2>1 DEF Accounted
<1>4. QED
  BY <1>1, <1>2, <1>3 DEF ListsInv

\* Under one conditional at most, no line excludes another of its own branch.
LEMMA OnePath ==
  ASSUME NEW n \in Nat, NEW p \in Seq(Marks(n)), Len(p) <= 1
  PROVE  ~ Exclusive(p, p)
<1>1. ASSUME NEW i \in DOMAIN p, NEW j \in DOMAIN p PROVE i = j
  <2>1. i \in 1..Len(p) /\ j \in 1..Len(p) /\ Len(p) \in Nat
    OBVIOUS
  <2>2. QED
    BY <2>1
<1>2. QED
  BY <1>1 DEF Exclusive

\* Every line keeps it.
LEMMA StepAccounts ==
  ASSUME ListsInv, Judged, PathInv, AlphabetInv, [HistoryNext]_allVars, [PlainAssembly]_allVars
  PROVE  ListsInv'
<1>1. ASSUME UNCHANGED <<includes, nested, path, seen>> PROVE ListsInv'
  BY <1>1 DEF ListsInv
<1>2. ASSUME NEW line \in alphabet, ReadLine(line), Observe(line) PROVE ListsInv'
  <2>1. (\E h : IncludesOne(line, h)) \/ StartsOver(line) \/ LeavesIncludes(line)
    BY <1>2, LineCases DEF PathInv
  <2>2. /\ path' = NextPath(line) /\ nested' = (nested \/ Len(path') > 1)
        /\ seen' = seen \cup {[name |-> h.name, path |-> path] : h \in line.include}
    BY <1>2 DEF Observe, NoteIncludes
  <2>3. SUFFICES ASSUME ~ nested'
                 PROVE  Len(path') <= 1 /\ Accounted(includes'.include_list, seen', path')
    BY DEF ListsInv
  <2>4. /\ linenum \in Nat /\ path \in Seq(Marks(linenum))
        /\ path' \in Seq(Marks(linenum + 1)) /\ Len(path') \in Nat
    <3>1. linenum \in Nat /\ path \in Seq(Marks(linenum))
      BY DEF PathInv
    <3>2. path' \in Seq(Marks(linenum + 1))
      BY <2>2, NextPathIsPath
    <3>3. QED
      BY <3>1, <3>2
  <2>5. ~ nested /\ Len(path') <= 1
    <3>1. ~ (nested \/ Len(path') > 1)
      BY <2>2, <2>3
    <3>2. PICK k : k = Len(path')
      OBVIOUS
    <3>3. k \in Nat /\ ~ (k > 1)
      BY <2>4, <3>1, <3>2
    <3>4. k <= 1
      BY <3>3
    <3>5. QED
      BY <3>1, <3>2, <3>4
  <2>6. Len(path) <= 1 /\ Accounted(includes.include_list, seen, path)
    BY <2>5 DEF ListsInv
  <2>7. CASE LeavesIncludes(line)
    <3>1. line.include = {} /\ line.directive = "none" /\ includes' = includes
      BY <2>7 DEF LeavesIncludes
    <3>2. seen' = seen /\ path' = path
      BY <2>2, <3>1, PathStays
    <3>3. QED
      BY <2>5, <2>6, <3>1, <3>2
  <2>8. ASSUME NEW h, IncludesOne(line, h) PROVE Accounted(includes'.include_list, seen', path')
    <3>1. /\ line.include = {h} /\ line.directive = "none"
          /\ includes' = AfterInclude(includes, h, linenum + 1)
      BY <2>8 DEF IncludesOne
    <3>2. path' = path
      BY <2>2, <3>1, PathStays
    <3>3. seen' = seen \cup {[name |-> h.name, path |-> path]}
      BY <2>2, <3>1
    <3>4. CASE NewHeader(includes, h)
      <4>1. PICK s, n, p, S, T : /\ s = includes /\ n = linenum + 1 /\ p = path
                                 /\ S = seen /\ T = seen'
        OBVIOUS
      <4>2. IsIncludes(s) /\ NewHeader(s, h)
        BY <3>4, <4>1 DEF Judged
      <4>3. PICK t : t = AfterInclude(s, h, n)
        OBVIOUS
      <4>4. Notes(s, h, n, t)
        BY <4>2, <4>3, HeaderIsNoted
      <4>5. Accounted(s.include_list, S, p) /\ S \subseteq T /\ [name |-> h.name, path |-> p] \in T
        BY <2>6, <3>3, <4>1
      <4>6. Accounted(t.include_list, T, p)
        BY <4>2, <4>4, <4>5, NotedAccounts
      <4>7. includes' = t
        BY <3>1, <4>1, <4>3
      <4>8. QED
        BY <3>2, <4>1, <4>6, <4>7
    <3>5. CASE ~ NewHeader(includes, h)
      <4>1. includes' = includes
        BY <3>1, <3>5, HeaderIsLeftAlone
      <4>2. ASSUME NEW L, NEW p, NEW S, NEW T, S \subseteq T, Accounted(L, S, p)
            PROVE  Accounted(L, T, p)
        BY <4>2 DEF Accounted
      <4>3. QED
        BY <2>6, <3>2, <3>3, <4>1, <4>2
    <3>6. QED
      BY <3>4, <3>5
  <2>9. CASE StartsOver(line)
    <3>1. /\ line.include = {} /\ line.directive # "none"
          /\ includes' = ResetSection(includes, line.directive)
      BY <2>9 DEF StartsOver
    <3>2. seen' = seen
      BY <2>2, <3>1
    <3>3. PICK L, s, t, p, q, S : /\ L = includes.include_list /\ s = includes
                                  /\ t = ResetSection(s, line.directive)
                                  /\ p = path /\ q = path' /\ S = seen
      OBVIOUS
    <3>4. IsIncludes(s) /\ Restarts(s, line.directive, t)
      BY <3>3, SectionIsReset DEF Judged
    <3>5. PICK A : L \in Seq(Seq(A))
      BY <3>3, <3>4 DEF IsIncludes
    <3>6. /\ Len(L) > 0 /\ Accounted(L, S, p) /\ includes' = t /\ seen' = S
      BY <2>6, <3>1, <3>2, <3>3, <3>4 DEF IsIncludes
    <3>7. CASE line.directive = "if"
      <4>1. t.include_list = Append(L, <<>>)
        BY <3>3, <3>4, <3>7 DEF Restarts
      <4>2. /\ Len(q) = Len(p) + 1
            /\ q[Len(p) + 1] = [opened |-> linenum + 1, branch |-> linenum + 1]
        BY <2>2, <3>3, <3>7, PathAtIf
      <4>3. Len(p) = 0 /\ Len(q) = 1 /\ q[1].opened = linenum + 1 /\ DOMAIN q = {1}
        <5>1. Len(p) \in Nat /\ DOMAIN q = 1..Len(q)
          BY <2>4, <3>3
        <5>2. Len(q) <= 1
          BY <2>5, <3>3
        <5>3. Len(p) = 0 /\ Len(q) = 1
          BY <4>2, <5>1, <5>2
        <5>4. q[1].opened = linenum + 1
          BY <4>2, <5>3
        <5>5. QED
          BY <5>1, <5>3, <5>4
      <4>4. ASSUME NEW e \in S PROVE Apart(e.path, q)
        <5>1. e.path \in Seq(Marks(linenum))
          BY <3>3, <4>4 DEF PathInv
        <5>2. ASSUME NEW i \in DOMAIN e.path PROVE e.path[i].opened # q[1].opened
          <6>1. e.path[i] \in Marks(linenum)
            BY <5>1, <5>2
          <6>2. e.path[i].opened \in 1..linenum
            BY <6>1 DEF Marks
          <6>3. QED
            BY <2>4, <4>3, <6>2
        <5>3. QED
          BY <4>3, <5>2 DEF Apart
      <4>5. Accounted(Append(L, <<>>), S, q)
        BY <3>5, <3>6, <4>4, NewListAccounts
      <4>6. QED
        BY <2>5, <3>3, <3>6, <4>1, <4>5
    <3>8. CASE line.directive = "else"
      <4>1. t.include_list = ReplaceLast(L, <<>>)
        BY <3>3, <3>4, <3>8 DEF Restarts
      <4>2. DOMAIN p = DOMAIN q /\ \A i \in DOMAIN p : p[i].opened = q[i].opened
        <5>1. CASE path = <<>>
          BY <2>2, <3>3, <3>8, <5>1, PathStays
        <5>2. CASE path # <<>>
          <6>1. /\ Len(q) = Len(p)
                /\ q[Len(p)] = [opened |-> p[Len(p)].opened, branch |-> linenum + 1]
            BY <2>2, <3>3, <3>8, <5>2, PathAtElse
          <6>2. Len(p) = 1
            <7>1. Len(path) \in Nat /\ Len(path) # 0
              BY <2>4, <5>2
            <7>2. PICK k : k = Len(path)
              OBVIOUS
            <7>3. k \in Nat /\ k # 0 /\ k <= 1
              BY <2>6, <7>1, <7>2
            <7>4. k = 1
              BY <7>3
            <7>5. QED
              BY <3>3, <7>2, <7>4
          <6>3. DOMAIN p = {1} /\ DOMAIN q = {1}
            BY <2>4, <3>3, <6>1, <6>2
          <6>4. q[1].opened = p[1].opened
            BY <6>1, <6>2
          <6>5. QED
            BY <6>3, <6>4
        <5>3. QED
          BY <5>1, <5>2
      <4>3. Accounted(ReplaceLast(L, <<>>), S, q)
        BY <3>5, <3>6, <4>2, ClearedListAccounts
      <4>4. QED
        BY <2>5, <3>3, <3>6, <4>1, <4>3
    <3>9. CASE line.directive \notin {"if", "else"}
      <4>1. t.include_list = L
        BY <3>3, <3>4, <3>9 DEF Restarts
      <4>2. q = p \/ q = <<>>
        <5>1. CASE line.directive = "endif" /\ path # <<>>
          <6>1. Len(q) = Len(p) - 1 /\ Len(p) \in Nat /\ Len(p) <= 1
            BY <2>2, <2>4, <2>6, <3>3, <5>1, PathAtEndif
          <6>2. Len(q) = 0
            BY <2>4, <3>3, <6>1
          <6>3. QED
            BY <2>4, <3>3, <6>2
        <5>2. CASE ~ (line.directive = "endif" /\ path # <<>>)
          BY <2>2, <3>3, <3>9, <5>2, PathStays
        <5>3. QED
          BY <5>1, <5>2
      <4>3. Accounted(L, S, q)
        BY <3>6, <4>2, OutsideAccounts
      <4>4. QED
        BY <2>5, <3>3, <3>6, <4>1, <4>3
    <3>10. QED
      BY <3>7, <3>8, <3>9
  <2>10. QED
    BY <2>1, <2>5, <2>7, <2>8, <2>9
<1>3. QED
  BY <1>1, <1>2 DEF HistoryNext, EndOfFile, allVars, vars, history

\* NoFalseDuplicates of one step.
NoFalseDuplicatesNow ==
    ~ nested /\ Reported("build/include")' =>
        \A line \in IncludeLinesOf(alphabet) : ReadLine(line) =>
            \A h \in line.include :
                \/ h.relation = "cc"
                \/ \E s \in seen : s.name = h.name /\ ~ Exclusive(s.path, path)

\* A name in the lists was included by a line that is compiled together with this one.
LEMMA DuplicatesAreCompiled ==
  ASSUME ListsInv, Judged, PathInv, AlphabetInv, [PlainAssembly]_allVars
  PROVE  NoFalseDuplicatesNow
<1> SUFFICES ASSUME ~ nested, Reported("build/include")',
                    NEW line \in IncludeLinesOf(alphabet), ReadLine(line), NEW g \in line.include,
                    g.relation # "cc"
             PROVE  \E s \in seen : s.name = g.name /\ ~ Exclusive(s.path, path)
  BY DEF NoFalseDuplicatesNow
<1>1. line \in alphabet /\ line.include # {}
  BY DEF IncludeLinesOf
<1>2. PICK h : IncludesOne(line, h)
  BY <1>1, LineCases DEF PathInv, StartsOver, LeavesIncludes
<1>3. g = h
  BY <1>2 DEF IncludesOne
<1>4. linenum' = linenum + 1
  BY DEF ReadLine
<1>5. "build/include" \in IncludeErrors(includes, h, after_include)
  BY <1>2, <1>4, ReportsAre
<1>6. FindHeader(includes, g.name)
  BY <1>3, <1>5 DEF IncludeErrors
<1>7. PICK L : L = includes.include_list
  OBVIOUS
<1>8. PICK A : L \in Seq(Seq(A))
  BY <1>7 DEF Judged, IsIncludes
<1>9. PICK i \in 1..Len(L) : \E j \in 1..Len(L[i]) : L[i][j].name = g.name
  <2>1. PICK i \in DOMAIN L : \E j \in DOMAIN L[i] : L[i][j].name = g.name
    BY <1>6, <1>7 DEF FindHeader
  <2>2. i \in 1..Len(L)
    BY <1>8
  <2>3. L[i] \in Seq(A)
    <3>1. PICK C : C = Seq(A)
      OBVIOUS
    <3>2. L \in Seq(C)
      BY <1>8, <3>1
    <3>3. L[i] \in C
      BY <2>2, <3>2
    <3>4. QED
      BY <3>1, <3>3
  <2>4. DOMAIN L[i] = 1..Len(L[i])
    BY <2>3
  <2>5. QED
    BY <2>1, <2>2, <2>4
<1>a. PICK j \in 1..Len(L[i]) : L[i][j].name = g.name
  BY <1>9
<1>10. Len(path) <= 1 /\ Accounted(L, seen, path)
  BY <1>7 DEF ListsInv
<1>11. PICK e \in seen : e.name = L[i][j].name /\ (Apart(e.path, path) \/ e.path = path)
  BY <1>10 DEF Accounted
<1>12. ~ Exclusive(e.path, path)
  <2>1. CASE Apart(e.path, path)
    BY <2>1 DEF Apart, Exclusive
  <2>2. CASE e.path = path
    BY <1>10, <2>2, OnePath DEF PathInv
  <2>3. QED
    BY <1>11, <2>1, <2>2
<1>13. QED
  BY <1>a, <1>11, <1>12

\* As long as conditionals are not nested, a header is reported as included twice only if
\* both lines can be compiled together (ResetSection and CheckIncludeLine, cpplint.py,
\* 739-755 and 4486-4496), if directives and includes stand outside of assembly.
THEOREM DuplicatesAreReal == HistorySpec /\ [][PlainAssembly]_allVars => NoFalseDuplicates
<1>1. Judged /\ PathInv /\ AlphabetInv /\ [HistoryNext]_allVars /\ [PlainAssembly]_allVars
        => Judged'
  BY StepJudges
<1>2. ListsInv /\ Judged /\ PathInv /\ AlphabetInv
        /\ [HistoryNext]_allVars /\ [PlainAssembly]_allVars
        => ListsInv'
  BY StepAccounts
<1>3. ListsInv /\ Judged /\ PathInv /\ AlphabetInv /\ [PlainAssembly]_allVars
        => [NoFalseDuplicatesNow]_allVars
  BY DuplicatesAreCompiled
<1>4. QED
  BY <1>1, <1>2, <1>3, JudgedAtFirst, ListsAtFirst, PathIsSound, AlphabetStays, PTL
  DEF HistorySpec, NoFalseDuplicates, NoFalseDuplicatesNow

-----------------------------------------------------------------------------
(* Folding a text                                                           *)

\* The steps of the folds over the text of a line.
FoldStep(kind, acc, token) ==
    CASE kind = "braces" -> BraceAt(acc, token)
      [] kind = "blocks" -> Consume(acc, token)
      [] OTHER -> OpenNamespace(acc)

\* h[i] is what the fold has come to behind position i.
Folds(kind, base, text, h) ==
    h[0] = base /\ \A i \in 1..Len(text) : h[i] = FoldStep(kind, h[i - 1], text[i])

\* A set of numbers without a least one is empty.
LEMMA NoFirst ==
  ASSUME NEW I \in SUBSET Nat, \A i \in I : \E j \in I : j < i
  PROVE  I = {}
<1>1. SUFFICES ASSUME I # {} PROVE FALSE
  OBVIOUS
<1>2. PICK i \in I : \A j \in I : ~ (<<j, i>> \in OpToRel(<, Nat))
  BY <1>1, WFMin, NatLessThanWellFounded
<1>3. PICK j \in I : j < i
  OBVIOUS
<1>4. <<j, i>> \in OpToRel(<, Nat)
  BY <1>3 DEF OpToRel
<1>5. QED
  BY <1>2, <1>4

\* A set of numbers with 0 that has each one's successor up to n holds all up to n.
LEMMA Climb ==
  ASSUME NEW n \in Nat, NEW S, 0 \in S, \A i \in 0..(n - 1) : i \in S => i + 1 \in S
  PROVE  \A i \in 0..n : i \in S
<1> DEFINE I == {i \in 0..n : i \notin S}
<1>1. \A i \in I : i - 1 \in I /\ i - 1 < i
  <2> SUFFICES ASSUME NEW i \in I PROVE i - 1 \in I /\ i - 1 < i
    OBVIOUS
  <2>1. i \in Nat /\ i # 0 /\ i <= n
    OBVIOUS
  <2>2. i - 1 \in 0..(n - 1) /\ (i - 1) + 1 = i /\ i - 1 \in 0..n /\ i - 1 < i
    BY <2>1
  <2>3. QED
    BY <2>2
<1>2. I = {}
  <2>1. I \in SUBSET Nat
    OBVIOUS
  <2>2. \A i \in I : \E j \in I : j < i
    BY <1>1
  <2> HIDE DEF I
  <2>3. QED
    BY <2>1, <2>2, NoFirst
<1>3. QED
  BY <1>2

\* The last of a set of positions with the last of all.
LEMMA MaxIsLast ==
  ASSUME NEW k \in Nat, NEW s \in SUBSET (1..(k + 1)), k + 1 \in s
  PROVE  Max(s) = k + 1
<1>1. k + 1 \in s /\ \A y \in s : k + 1 >= y
  OBVIOUS
<1>2. \A x \in s : (\A y \in s : x >= y) => x = k + 1
  <2> SUFFICES ASSUME NEW x \in s, \A y \in s : x >= y PROVE x = k + 1
    OBVIOUS
  <2>1. x >= k + 1 /\ x \in 1..(k + 1)
    BY <1>1
  <2> QED
    BY <2>1
<1>3. QED
  BY <1>1, <1>2 DEF Max

\* What a fold over the positions of a set is, for all sets of positions up to k.
FoldTable(kind, base, text, k, g) ==
    g = [s \in SUBSET (1..k) |->
           IF s = {} THEN base ELSE FoldStep(kind, g[s \ {Max(s)}], text[Max(s)])]

\* A table for one more position.
LEMMA TableGrows ==
  ASSUME NEW k \in Nat, NEW g, NEW kind, NEW base, NEW text, FoldTable(kind, base, text, k, g)
  PROVE  \E f : FoldTable(kind, base, text, k + 1, f)
<1> DEFINE Old == SUBSET (1..k)
           All == SUBSET (1..(k + 1))
           f == [s \in All |-> IF s \in Old THEN g[s]
                               ELSE FoldStep(kind, g[s \ {k + 1}], text[k + 1])]
<1>1. Old \subseteq All
  OBVIOUS
<1>2. ASSUME NEW s \in All, s \notin Old
      PROVE  s # {} /\ Max(s) = k + 1 /\ s \ {k + 1} \in Old
  <2>1. k + 1 \in s
    BY <1>2
  <2>2. QED
    BY <1>2, <2>1, MaxIsLast
<1>3. ASSUME NEW s \in Old
      PROVE  g[s] = IF s = {} THEN base ELSE FoldStep(kind, g[s \ {Max(s)}], text[Max(s)])
  BY DEF FoldTable
<1>4. ASSUME NEW s \in All
      PROVE  f[s] = IF s = {} THEN base ELSE FoldStep(kind, f[s \ {Max(s)}], text[Max(s)])
  <2>1. CASE s \in Old
    <3>1. f[s] = g[s]
      BY <1>1, <2>1
    <3>2. s \ {Max(s)} \in Old
      BY <2>1
    <3>3. f[s \ {Max(s)}] = g[s \ {Max(s)}]
      BY <1>1, <3>2
    <3>4. QED
      BY <1>3, <2>1, <3>1, <3>3
  <2>2. CASE s \notin Old
    <3>1. s # {} /\ Max(s) = k + 1 /\ s \ {k + 1} \in Old
      BY <1>2, <2>2
    <3>2. f[s \ {k + 1}] = g[s \ {k + 1}]
      BY <1>1, <3>1
    <3>3. f[s] = FoldStep(kind, g[s \ {k + 1}], text[k + 1])
      BY <2>2
    <3>4. QED
      BY <3>1, <3>2, <3>3
  <2>3. QED
    BY <2>1, <2>2
<1>5. f = [s \in All |->
             IF s = {} THEN base ELSE FoldStep(kind, f[s \ {Max(s)}], text[Max(s)])]
  BY <1>4
<1>6. FoldTable(kind, base, text, k + 1, f)
  BY <1>5 DEF FoldTable
<1>7. QED
  BY <1>6

\* There is such a table for any number of positions.
LEMMA TableExists ==
  ASSUME NEW n \in Nat, NEW kind, NEW base, NEW text
  PROVE  \E g : FoldTable(kind, base, text, n, g)
<1> DEFINE S == {k \in Nat : \E g : FoldTable(kind, base, text, k, g)}
<1>1. 0 \in S
  <2> DEFINE g == [s \in SUBSET (1..0) |-> base]
  <2>1. \A s \in SUBSET (1..0) : s = {}
    OBVIOUS
  <2>2. g = [s \in SUBSET (1..0) |->
               IF s = {} THEN base ELSE FoldStep(kind, g[s \ {Max(s)}], text[Max(s)])]
    BY <2>1
  <2>3. FoldTable(kind, base, text, 0, g)
    BY <2>2 DEF FoldTable
  <2>4. QED
    BY <2>3
<1>2. \A i \in 0..(n - 1) : i \in S => i + 1 \in S
  BY TableGrows
<1>3. n \in S
  <2> HIDE DEF S
  <2>1. \A i \in 0..n : i \in S
    BY <1>1, <1>2, Climb
  <2>2. QED
    BY <2>1
<1>4. QED
  BY <1>3

\* Such a table holds what the fold has come to behind every position.
LEMMA TableFolds ==
  ASSUME NEW kind, NEW base, NEW A, NEW text \in Seq(A), NEW g,
         FoldTable(kind, base, text, Len(text), g)
  PROVE  \E h : Folds(kind, base, text, h) /\ h[Len(text)] = g[1..Len(text)]
<1> DEFINE n == Len(text)
           h == [i \in 0..n |-> g[1..i]]
<1>1. n \in Nat
  OBVIOUS
<1>2. \A s \in SUBSET (1..n) :
        g[s] = IF s = {} THEN base ELSE FoldStep(kind, g[s \ {Max(s)}], text[Max(s)])
  BY DEF FoldTable
<1>3. h[0] = base
  <2>1. 1..0 = {} /\ 1..0 \in SUBSET (1..n) /\ 0 \in 0..n
    BY <1>1
  <2>2. QED
    BY <1>2, <2>1
<1>4. ASSUME NEW i \in 1..n PROVE h[i] = FoldStep(kind, h[i - 1], text[i])
  <2>1. 1..i \in SUBSET (1..n) /\ 1..i # {} /\ i \in 0..n /\ i - 1 \in 0..n
    <3>1. i \in Nat /\ 1 <= i /\ i <= n
      BY <1>1
    <3>2. 1..i \in SUBSET (1..n) /\ 1 \in 1..i
      BY <1>1, <3>1
    <3>3. i \in 0..n /\ i - 1 \in 0..n
      BY <1>1, <3>1
    <3>4. QED
      BY <3>2, <3>3
  <2>2. Max(1..i) = i
    <3>1. i - 1 \in Nat /\ (i - 1) + 1 = i /\ 1..i \in SUBSET (1..i) /\ i \in 1..i
      BY <1>1
    <3>2. QED
      BY <3>1, MaxIsLast
  <2>3. (1..i) \ {i} = 1..(i - 1)
    BY <1>1
  <2>4. g[1..i] = FoldStep(kind, g[1..(i - 1)], text[i])
    BY <1>2, <2>1, <2>2, <2>3
  <2>5. QED
    BY <2>1, <2>4
<1>5. h[n] = g[1..n]
  BY <1>1
<1>6. Folds(kind, base, text, h)
  BY <1>3, <1>4 DEF Folds
<1>7. QED
  BY <1>5, <1>6

\* The braces of a text, position by position.
LEMMA BracesFold ==
  ASSUME NEW base, NEW A, NEW text \in Seq(A)
  PROVE  \E h : Folds("braces", base, text, h) /\ h[Len(text)] = FoldLeft(BraceAt, base, text)
<1> DEFINE n == Len(text)
           Step(f) == [s \in SUBSET (1..n) |->
                         IF s = {} THEN base ELSE BraceAt(f[s \ {Max(s)}], text[Max(s)])]
           g == CHOOSE f : f = Step(f)
<1>1. n \in Nat /\ DOMAIN text = 1..n
  OBVIOUS
<1>2. \E f : f = Step(f)
  <2>1. PICK f : FoldTable("braces", base, text, n, f)
    BY <1>1, TableExists
  <2>2. f = Step(f)
    BY <2>1 DEF FoldTable, FoldStep
  <2>3. QED
    BY <2>2
<1>3. g = Step(g)
  BY <1>2
<1>4. FoldLeft(BraceAt, base, text) = g[1..n]
  BY <1>1 DEF FoldLeft, MapThenFoldSet
<1>5. FoldTable("braces", base, text, n, g)
  BY <1>3 DEF FoldTable, FoldStep
<1> HIDE DEF g
<1>6. QED
  BY <1>4, <1>5, TableFolds

\* The blocks of a text, position by position.
LEMMA BlocksFold ==
  ASSUME NEW base, NEW A, NEW text \in Seq(A)
  PROVE  \E h : Folds("blocks", base, text, h) /\ h[Len(text)] = FoldLeft(Consume, base, text)
<1> DEFINE n == Len(text)
           Step(f) == [s \in SUBSET (1..n) |->
                         IF s = {} THEN base ELSE Consume(f[s \ {Max(s)}], text[Max(s)])]
           g == CHOOSE f : f = Step(f)
<1>1. n \in Nat /\ DOMAIN text = 1..n
  OBVIOUS
<1>2. \E f : f = Step(f)
  <2>1. PICK f : FoldTable("blocks", base, text, n, f)
    BY <1>1, TableExists
  <2>2. f = Step(f)
    BY <2>1 DEF FoldTable, FoldStep
  <2>3. QED
    BY <2>2
<1>3. g = Step(g)
  BY <1>2
<1>4. FoldLeft(Consume, base, text) = g[1..n]
  BY <1>1 DEF FoldLeft, MapThenFoldSet
<1>5. FoldTable("blocks", base, text, n, g)
  BY <1>3 DEF FoldTable, FoldStep
<1> HIDE DEF g
<1>6. QED
  BY <1>4, <1>5, TableFolds

\* The namespaces at the beginning of a text, one after the other.
LEMMA NamespacesFold ==
  ASSUME NEW stack, NEW A, NEW text \in Seq(A)
  PROVE  \E h : /\ Folds("namespaces", [stack |-> stack, rest |-> text], text, h)
                /\ h[Len(text)] = OpenNamespaces(stack, text)
<1> DEFINE n == Len(text)
           base == [stack |-> stack, rest |-> text]
           Step(f) == [s \in SUBSET (1..n) |->
                         IF s = {} THEN base ELSE OpenNamespace(f[s \ {Max(s)}])]
           g == CHOOSE f : f = Step(f)
<1>1. n \in Nat /\ DOMAIN text = 1..n
  OBVIOUS
<1>2. \E f : f = Step(f)
  <2>1. PICK f : FoldTable("namespaces", base, text, n, f)
    BY <1>1, TableExists
  <2>2. f = Step(f)
    BY <2>1 DEF FoldTable, FoldStep
  <2>3. QED
    BY <2>2
<1>3. g = Step(g)
  BY <1>2
<1>4. OpenNamespaces(stack, text) = g[1..n]
  BY <1>1 DEF OpenNamespaces, FoldLeft, MapThenFoldSet
<1>5. FoldTable("namespaces", base, text, n, g)
  BY <1>3 DEF FoldTable, FoldStep
<1> HIDE DEF g, base
<1>6. \E h : Folds("namespaces", base, text, h) /\ h[n] = OpenNamespaces(stack, text)
  BY <1>4, <1>5, TableFolds
<1>7. QED
  BY <1>6 DEF base

-----------------------------------------------------------------------------
(* Stacks of blocks                                                         *)

\* A block of the stack, of any kind.
IsBlock(b) ==
    /\ b = [kind |-> b.kind, seen_open_brace |-> b.seen_open_brace,
            open_parentheses |-> b.open_parentheses, inline_asm |-> b.inline_asm,
            access |-> b.access]
    /\ b.seen_open_brace \in BOOLEAN

\* A stack of blocks.
IsStack(st) == \E A : st \in Seq(A) /\ \A b \in A : IsBlock(b)

\* d blocks whose braces were seen.
Full(st, d) ==
    /\ IsStack(st) /\ d \in Nat /\ Len(st) = d
    /\ \A i \in 1..d : st[i].seen_open_brace

\* One more on top that waits for its brace.
Headed(st, d) ==
    /\ IsStack(st) /\ d \in Nat /\ Len(st) = d + 1
    /\ \A i \in 1..d : st[i].seen_open_brace
    /\ ~ st[d + 1].seen_open_brace

\* A block is put on top.
LEMMA PushBlock ==
  ASSUME NEW st, IsStack(st), NEW b, IsBlock(b)
  PROVE  /\ IsStack(Append(st, b)) /\ Len(Append(st, b)) = Len(st) + 1 /\ Len(st) \in Nat
         /\ \A i \in 1..Len(st) : Append(st, b)[i] = st[i]
         /\ Append(st, b)[Len(st) + 1] = b
<1>1. PICK A : st \in Seq(A) /\ \A x \in A : IsBlock(x)
  BY DEF IsStack
<1>2. PICK B : B = A \cup {b}
  OBVIOUS
<1>3. st \in Seq(B) /\ b \in B /\ \A x \in B : IsBlock(x)
  <2>1. Seq(A) \subseteq Seq(B)
    BY <1>2, SeqMonotonic
  <2>2. QED
    BY <1>1, <1>2, <2>1
<1>4. /\ Append(st, b) \in Seq(B) /\ Len(Append(st, b)) = Len(st) + 1
      /\ \A i \in 1..Len(st) : Append(st, b)[i] = st[i]
      /\ Append(st, b)[Len(st) + 1] = b
  BY <1>3, AppendIs
<1>5. IsStack(Append(st, b))
  BY <1>3, <1>4 DEF IsStack
<1>6. Len(st) \in Nat
  BY <1>1
<1>7. QED
  BY <1>4, <1>5, <1>6

\* The top is taken off.
LEMMA PopBlock ==
  ASSUME NEW st, IsStack(st), Len(st) > 0
  PROVE  /\ IsStack(Pop(st)) /\ Len(Pop(st)) = Len(st) - 1 /\ Len(st) \in Nat
         /\ \A i \in 1..(Len(st) - 1) : Pop(st)[i] = st[i]
<1>1. PICK A : st \in Seq(A) /\ \A x \in A : IsBlock(x)
  BY DEF IsStack
<1>2. PICK m, p : m = Len(st) /\ p = SubSeq(st, 1, m - 1)
  OBVIOUS
<1>3. m \in Nat /\ p \in Seq(A) /\ Len(p) = m - 1 /\ \A i \in 1..(m - 1) : p[i] = st[i]
  BY <1>1, <1>2
<1>4. Pop(st) = p
  BY <1>2 DEF Pop, Front
<1>5. IsStack(p)
  BY <1>1, <1>3 DEF IsStack
<1>6. QED
  BY <1>2, <1>3, <1>4, <1>5

\* The top is the last block.
LEMMA TopBlock ==
  ASSUME NEW st, IsStack(st), Len(st) > 0
  PROVE  IsBlock(Top(st)) /\ Top(st) = st[Len(st)] /\ st # <<>>
<1>1. PICK A : st \in Seq(A) /\ \A x \in A : IsBlock(x)
  BY DEF IsStack
<1>2. Len(st) \in Nat /\ Len(st) \in 1..Len(st) /\ st # <<>>
  BY <1>1
<1>3. st[Len(st)] \in A
  BY <1>1, <1>2
<1>4. Top(st) = st[Len(st)]
  BY DEF Top, Last
<1>5. QED
  BY <1>1, <1>2, <1>3, <1>4

\* Another block takes the place of the top.
LEMMA ReplaceBlock ==
  ASSUME NEW st, IsStack(st), Len(st) > 0, NEW b, IsBlock(b)
  PROVE  /\ IsStack(ReplaceTop(st, b)) /\ Len(ReplaceTop(st, b)) = Len(st) /\ Len(st) \in Nat
         /\ \A i \in 1..(Len(st) - 1) : ReplaceTop(st, b)[i] = st[i]
         /\ ReplaceTop(st, b)[Len(st)] = b
<1>1. PICK m, p : m = Len(st) /\ p = Pop(st)
  OBVIOUS
<1>2. /\ IsStack(p) /\ Len(p) = m - 1 /\ m \in Nat
      /\ \A i \in 1..(m - 1) : p[i] = st[i]
  BY <1>1, PopBlock
<1>3. /\ IsStack(Append(p, b)) /\ Len(Append(p, b)) = Len(p) + 1
      /\ \A i \in 1..Len(p) : Append(p, b)[i] = p[i]
      /\ Append(p, b)[Len(p) + 1] = b
  BY <1>2, PushBlock
<1>4. ReplaceTop(st, b) = Append(p, b)
  BY <1>1 DEF ReplaceTop, Pop
<1>5. Len(p) + 1 = m
  BY <1>2
<1>6. QED
  BY <1>1, <1>2, <1>3, <1>4, <1>5

-----------------------------------------------------------------------------
(* Blocks and their braces                                                  *)

\* With a block whose brace was seen there is one more of them.
LEMMA FullPush ==
  ASSUME NEW st, NEW d, Full(st, d), NEW b, IsBlock(b), b.seen_open_brace
  PROVE  Full(Append(st, b), d + 1)
<1>1. PICK M : M = Append(st, b)
  OBVIOUS
<1>2. IsStack(st) /\ d \in Nat /\ Len(st) = d /\ \A i \in 1..d : st[i].seen_open_brace
  BY DEF Full
<1>3. IsStack(M) /\ Len(M) = d + 1 /\ (\A i \in 1..d : M[i] = st[i]) /\ M[d + 1] = b
  <2>1. /\ IsStack(Append(st, b)) /\ Len(Append(st, b)) = Len(st) + 1
        /\ \A i \in 1..Len(st) : Append(st, b)[i] = st[i]
        /\ Append(st, b)[Len(st) + 1] = b
    BY <1>2, PushBlock
  <2>2. QED
    BY <1>1, <1>2, <2>1
<1>4. ASSUME NEW i \in 1..(d + 1) PROVE M[i].seen_open_brace
  <2>1. i \in 1..d \/ i = d + 1
    BY <1>2
  <2>2. QED
    BY <1>2, <1>3, <2>1
<1>5. QED
  BY <1>1, <1>2, <1>3, <1>4 DEF Full

\* A block that waits for its brace is the one on top.
LEMMA FullHead ==
  ASSUME NEW st, NEW d, Full(st, d), NEW b, IsBlock(b), ~ b.seen_open_brace
  PROVE  Headed(Append(st, b), d)
<1>1. PICK M : M = Append(st, b)
  OBVIOUS
<1>2. IsStack(st) /\ d \in Nat /\ Len(st) = d /\ \A i \in 1..d : st[i].seen_open_brace
  BY DEF Full
<1>3. IsStack(M) /\ Len(M) = d + 1 /\ (\A i \in 1..d : M[i] = st[i]) /\ M[d + 1] = b
  <2>1. /\ IsStack(Append(st, b)) /\ Len(Append(st, b)) = Len(st) + 1
        /\ \A i \in 1..Len(st) : Append(st, b)[i] = st[i]
        /\ Append(st, b)[Len(st) + 1] = b
    BY <1>2, PushBlock
  <2>2. QED
    BY <1>1, <1>2, <2>1
<1>4. QED
  BY <1>1, <1>2, <1>3 DEF Headed

\* Without the top there is one less.
LEMMA FullPop ==
  ASSUME NEW st, NEW d, Full(st, d), d > 0
  PROVE  Full(Pop(st), d - 1)
<1>1. PICK M : M = Pop(st)
  OBVIOUS
<1>2. IsStack(st) /\ d \in Nat /\ Len(st) = d /\ \A i \in 1..d : st[i].seen_open_brace
  BY DEF Full
<1>3. IsStack(M) /\ Len(M) = d - 1 /\ \A i \in 1..(d - 1) : M[i] = st[i]
  BY <1>1, <1>2, PopBlock
<1>4. d - 1 \in Nat /\ \A i \in 1..(d - 1) : i \in 1..d
  BY <1>2
<1>5. QED
  BY <1>1, <1>2, <1>3, <1>4 DEF Full

\* Without the top no block waits for its brace.
LEMMA HeadedPop ==
  ASSUME NEW st, NEW d, Headed(st, d)
  PROVE  Full(Pop(st), d)
<1>1. PICK M : M = Pop(st)
  OBVIOUS
<1>2. IsStack(st) /\ d \in Nat /\ Len(st) = d + 1 /\ \A i \in 1..d : st[i].seen_open_brace
  BY DEF Headed
<1>3. IsStack(M) /\ Len(M) = d /\ \A i \in 1..d : M[i] = st[i]
  <2>1. Len(st) > 0 /\ Len(st) - 1 = d
    BY <1>2
  <2>2. QED
    BY <1>1, <1>2, <2>1, PopBlock
<1>4. QED
  BY <1>1, <1>2, <1>3 DEF Full

\* The block that waits gets its brace.
LEMMA HeadedOpens ==
  ASSUME NEW st, NEW d, Headed(st, d), NEW b, IsBlock(b), b.seen_open_brace
  PROVE  Full(ReplaceTop(st, b), d + 1)
<1>1. PICK M : M = ReplaceTop(st, b)
  OBVIOUS
<1>2. IsStack(st) /\ d \in Nat /\ Len(st) = d + 1 /\ \A i \in 1..d : st[i].seen_open_brace
  BY DEF Headed
<1>3. IsStack(M) /\ Len(M) = d + 1 /\ (\A i \in 1..d : M[i] = st[i]) /\ M[d + 1] = b
  <2>1. Len(st) > 0 /\ Len(st) - 1 = d
    BY <1>2
  <2>2. QED
    BY <1>1, <1>2, <2>1, ReplaceBlock
<1>4. ASSUME NEW i \in 1..(d + 1) PROVE M[i].seen_open_brace
  <2>1. i \in 1..d \/ i = d + 1
    BY <1>2
  <2>2. QED
    BY <1>2, <1>3, <2>1
<1>5. QED
  BY <1>1, <1>2, <1>3, <1>4 DEF Full

\* All blocks have their braces, so the top has.
LEMMA FullTop ==
  ASSUME NEW st, NEW d, Full(st, d)
  PROVE  /\ SeenOpenBrace(st) /\ (st = <<>> <=> d = 0)
         /\ st # <<>> => IsBlock(Top(st)) /\ Top(st).seen_open_brace
<1>1. IsStack(st) /\ d \in Nat /\ Len(st) = d /\ \A i \in 1..d : st[i].seen_open_brace
  BY DEF Full
<1>2. st = <<>> <=> d = 0
  <2>1. PICK A : st \in Seq(A)
    BY <1>1 DEF IsStack
  <2>2. QED
    BY <1>1, <2>1
<1>3. ASSUME st # <<>> PROVE IsBlock(Top(st)) /\ Top(st).seen_open_brace
  <2>1. Len(st) > 0 /\ d \in 1..d
    BY <1>1, <1>2, <1>3
  <2>2. IsBlock(Top(st)) /\ Top(st) = st[d]
    BY <1>1, <2>1, TopBlock
  <2>3. QED
    BY <1>1, <2>1, <2>2
<1>4. QED
  BY <1>2, <1>3 DEF SeenOpenBrace

\* The top is the block that waits.
LEMMA HeadedTop ==
  ASSUME NEW st, NEW d, Headed(st, d)
  PROVE  ~ SeenOpenBrace(st) /\ st # <<>> /\ IsBlock(Top(st)) /\ ~ Top(st).seen_open_brace
<1>1. IsStack(st) /\ d \in Nat /\ Len(st) = d + 1 /\ ~ st[d + 1].seen_open_brace
  BY DEF Headed
<1>2. Len(st) > 0
  BY <1>1
<1>3. IsBlock(Top(st)) /\ Top(st) = st[d + 1] /\ st # <<>>
  BY <1>1, <1>2, TopBlock
<1>4. QED
  BY <1>1, <1>3 DEF SeenOpenBrace

\* The top may change as long as its brace does not.
LEMMA FullReplaced ==
  ASSUME NEW st, NEW d, Full(st, d), st # <<>>, NEW b, IsBlock(b), b.seen_open_brace
  PROVE  Full(ReplaceTop(st, b), d)
<1>1. PICK M : M = ReplaceTop(st, b)
  OBVIOUS
<1>2. IsStack(st) /\ d \in Nat /\ Len(st) = d /\ \A i \in 1..d : st[i].seen_open_brace
  BY DEF Full
<1>3. d > 0
  BY <1>2, FullTop
<1>4. IsStack(M) /\ Len(M) = d /\ (\A i \in 1..(d - 1) : M[i] = st[i]) /\ M[d] = b
  BY <1>1, <1>2, <1>3, ReplaceBlock
<1>5. ASSUME NEW i \in 1..d PROVE M[i].seen_open_brace
  <2>1. i \in 1..(d - 1) \/ i = d
    BY <1>2
  <2>2. QED
    BY <1>2, <1>4, <2>1
<1>6. QED
  BY <1>1, <1>2, <1>4, <1>5 DEF Full

\* The block that waits may change too.
LEMMA HeadedReplaced ==
  ASSUME NEW st, NEW d, Headed(st, d), NEW b, IsBlock(b), ~ b.seen_open_brace
  PROVE  Headed(ReplaceTop(st, b), d)
<1>1. PICK M : M = ReplaceTop(st, b)
  OBVIOUS
<1>2. IsStack(st) /\ d \in Nat /\ Len(st) = d + 1 /\ \A i \in 1..d : st[i].seen_open_brace
  BY DEF Headed
<1>3. IsStack(M) /\ Len(M) = d + 1 /\ (\A i \in 1..d : M[i] = st[i]) /\ M[d + 1] = b
  <2>1. Len(st) > 0 /\ Len(st) - 1 = d
    BY <1>2
  <2>2. QED
    BY <1>1, <1>2, <2>1, ReplaceBlock
<1>4. QED
  BY <1>1, <1>2, <1>3 DEF Headed

-----------------------------------------------------------------------------
(* A stack and the braces of the reader                                     *)

\* What the reader counts.
IsBraces(s) ==
    /\ s = [depth |-> s.depth, heading |-> s.heading]
    /\ s.heading \in BOOLEAN /\ s.depth \in Int

\* One block for every open brace, and one that waits for its brace at most.
Agree(st, s) ==
    /\ IsBraces(s)
    /\ s.depth >= 0 => Full(st, s.depth) \/ (Headed(st, s.depth) /\ s.heading)

\* What begins a declaration that waits for its brace.
Heads == {"namespace", "class"}
\* What ends a declaration without one.
Ending == {";", ")"}

\* What becomes of the braces at a token.
Counts(s, token, t) ==
    /\ IsBraces(t)
    /\ s.depth < 0 => t.depth < 0
    /\ s.depth >= 0 =>
         \/ t.depth < 0 /\ token \in {"}"} \cup Heads
         \/ t.depth = s.depth + 1 /\ token \in OpeningBraces
         \/ ~ s.heading /\ s.depth > 0 /\ t.depth = s.depth - 1 /\ token = "}"
         \/ ~ s.heading /\ t.depth = s.depth /\ t.heading /\ token \in Heads
         \/ t.depth = s.depth /\ token \in Ending
         \/ t = s /\ token \notin OpeningBraces \cup Heads \cup Ending \cup {"}"}

\* The reader does at a token what Counts says.
LEMMA BracesAre ==
  ASSUME NEW s, IsBraces(s), NEW token
  PROVE  Counts(s, token, BraceAt(s, token))
<1>1. PICK d, b : s = [depth |-> d, heading |-> b] /\ d \in Int /\ b \in BOOLEAN
  BY DEF IsBraces
<1>2. s.depth = d /\ s.heading = b
  BY <1>1
<1>3. PICK t : t = BraceAt(s, token)
  OBVIOUS
<1>a. Counts(s, token, t) => Counts(s, token, BraceAt(s, token))
  BY <1>3
<1>4. CASE d < 0
  <2>1. t = s
    BY <1>2, <1>3, <1>4 DEF BraceAt
  <2>2. s.depth < 0 /\ ~ (s.depth >= 0)
    BY <1>1, <1>2, <1>4
  <2>3. Counts(s, token, t)
    BY <2>1, <2>2 DEF Counts
  <2>4. QED
    BY <1>a, <2>3
<1>5. CASE d >= 0
  <2>1. ~ (s.depth < 0) /\ d \in Nat /\ s.depth >= 0
    BY <1>1, <1>2, <1>5
  <2>2. CASE token \in OpeningBraces
    <3>1. t = [depth |-> s.depth + 1, heading |-> FALSE]
      <4>1. token # "}" /\ token \notin {"namespace", "class"} /\ token \notin {";", ")"}
        BY <2>2 DEF OpeningBraces
      <4>2. QED
        BY <1>3, <2>1, <2>2, <4>1 DEF BraceAt
    <3>2. IsBraces(t) /\ t.depth = s.depth + 1
      BY <1>2, <2>1, <3>1 DEF IsBraces
    <3>3. Counts(s, token, t)
      BY <2>1, <2>2, <3>2 DEF Counts
    <3>4. QED
      BY <1>a, <3>3
  <2>3. CASE token = "}"
    <3>1. token \notin OpeningBraces
      BY <2>3 DEF OpeningBraces
    <3>2. CASE s.heading \/ s.depth = 0
      <4>1. t = [s EXCEPT !.depth = -1]
        BY <1>3, <2>1, <2>3, <3>1, <3>2 DEF BraceAt
      <4>2. t = [depth |-> -1, heading |-> b]
        BY <1>1, <4>1
      <4>3. IsBraces(t) /\ t.depth < 0
        BY <1>1, <4>2 DEF IsBraces
      <4>4. Counts(s, token, t)
        BY <2>1, <2>3, <4>3 DEF Counts
      <4>5. QED
        BY <1>a, <4>4
    <3>3. CASE ~ (s.heading \/ s.depth = 0)
      <4>1. t = [s EXCEPT !.depth = s.depth - 1]
        BY <1>3, <2>1, <2>3, <3>1, <3>3 DEF BraceAt
      <4>2. t = [depth |-> d - 1, heading |-> b]
        BY <1>1, <1>2, <4>1
      <4>3. IsBraces(t) /\ t.depth = d - 1
        BY <1>1, <2>1, <4>2 DEF IsBraces
      <4>4. s.depth > 0 /\ t.depth = s.depth - 1
        BY <1>2, <2>1, <3>3, <4>3
      <4>5. Counts(s, token, t)
        BY <2>1, <2>3, <3>3, <4>3, <4>4 DEF Counts
      <4>6. QED
        BY <1>a, <4>5
    <3>4. QED
      BY <3>2, <3>3
  <2>4. CASE token \in Heads
    <3>1. token \notin OpeningBraces /\ token # "}"
      BY <2>4 DEF OpeningBraces, Heads
    <3>2. CASE s.heading
      <4>1. t = [s EXCEPT !.depth = -1]
        BY <1>3, <2>1, <2>4, <3>1, <3>2 DEF BraceAt, Heads
      <4>2. t = [depth |-> -1, heading |-> b]
        BY <1>1, <4>1
      <4>3. IsBraces(t) /\ t.depth < 0
        BY <1>1, <4>2 DEF IsBraces
      <4>4. Counts(s, token, t)
        BY <2>1, <2>4, <4>3 DEF Counts
      <4>5. QED
        BY <1>a, <4>4
    <3>3. CASE ~ s.heading
      <4>1. t = [s EXCEPT !.heading = TRUE]
        BY <1>3, <2>1, <2>4, <3>1, <3>3 DEF BraceAt, Heads
      <4>2. t = [depth |-> d, heading |-> TRUE]
        BY <1>1, <4>1
      <4>3. IsBraces(t) /\ t.depth = s.depth /\ t.heading
        BY <1>1, <1>2, <4>2 DEF IsBraces
      <4>4. Counts(s, token, t)
        BY <2>1, <2>4, <3>3, <4>3 DEF Counts
      <4>5. QED
        BY <1>a, <4>4
    <3>4. QED
      BY <3>2, <3>3
  <2>5. CASE token \in Ending
    <3>1. token \notin OpeningBraces /\ token # "}" /\ token \notin Heads
      BY <2>5 DEF OpeningBraces, Heads, Ending
    <3>2. t = [s EXCEPT !.heading = FALSE]
      BY <1>3, <2>1, <2>5, <3>1 DEF BraceAt, Heads, Ending
    <3>3. t = [depth |-> d, heading |-> FALSE]
      BY <1>1, <3>2
    <3>4. IsBraces(t) /\ t.depth = s.depth
      BY <1>1, <1>2, <3>3 DEF IsBraces
    <3>5. Counts(s, token, t)
      BY <2>1, <2>5, <3>4 DEF Counts
    <3>6. QED
      BY <1>a, <3>5
  <2>6. CASE token \notin OpeningBraces \cup Heads \cup Ending \cup {"}"}
    <3>1. t = s
      BY <1>3, <2>1, <2>6 DEF BraceAt, Heads, Ending
    <3>2. IsBraces(t)
      BY <3>1
    <3>3. Counts(s, token, t)
      BY <2>1, <2>6, <3>1, <3>2 DEF Counts
    <3>4. QED
      BY <1>a, <3>3
  <2>7. QED
    BY <2>2, <2>3, <2>4, <2>5, <2>6
<1>6. QED
  BY <1>1, <1>4, <1>5

\* A new block has its brace or waits for it.
LEMMA NewBlockIs ==
  ASSUME NEW kind, NEW seen_ \in BOOLEAN
  PROVE  /\ IsBlock(Block(kind, seen_)) /\ (Block(kind, seen_).seen_open_brace <=> seen_)
         /\ IsBlock([Block(kind, seen_) EXCEPT !.inline_asm = "block"])
         /\ [Block(kind, seen_) EXCEPT !.inline_asm = "block"].seen_open_brace <=> seen_
BY DEF Block, IsBlock

\* A brace that opens is the one the top waits for, or begins a block.
LEMMA AgreeOpens ==
  ASSUME NEW st, NEW d, Full(st, d) \/ Headed(st, d), NEW token
  PROVE  Full(OpenBrace(st, token), d + 1)
<1>1. CASE Headed(st, d)
  <2>1. ~ SeenOpenBrace(st) /\ IsBlock(Top(st))
    BY <1>1, HeadedTop
  <2>2. PICK w, b : w = Top(st) /\ b = [w EXCEPT !.seen_open_brace = TRUE]
    OBVIOUS
  <2>3. IsBlock(w)
    BY <2>1, <2>2
  <2>4. b = [kind |-> w.kind, seen_open_brace |-> TRUE,
             open_parentheses |-> w.open_parentheses, inline_asm |-> w.inline_asm,
             access |-> w.access]
    BY <2>2, <2>3 DEF IsBlock
  <2>5. IsBlock(b) /\ b.seen_open_brace
    BY <2>4 DEF IsBlock
  <2>6. Full(ReplaceTop(st, b), d + 1)
    BY <1>1, <2>5, HeadedOpens
  <2>7. QED
    BY <2>1, <2>2, <2>6 DEF OpenBrace
<1>2. CASE Full(st, d)
  <2>1. SeenOpenBrace(st)
    BY <1>2, FullTop
  <2>2. PICK b : /\ IsBlock(b) /\ b.seen_open_brace
                 /\ OpenBrace(st, token) = Append(st, b)
    <3>1. PICK c1, c2, c3 : /\ c1 = Block("extern", TRUE) /\ c3 = Block("block", TRUE)
                            /\ c2 = [Block("block", TRUE) EXCEPT !.inline_asm = "block"]
      OBVIOUS
    <3>2. /\ IsBlock(c1) /\ c1.seen_open_brace /\ IsBlock(c2) /\ c2.seen_open_brace
          /\ IsBlock(c3) /\ c3.seen_open_brace
      BY <3>1, NewBlockIs
    <3>3. \/ OpenBrace(st, token) = Append(st, c1)
          \/ OpenBrace(st, token) = Append(st, c2)
          \/ OpenBrace(st, token) = Append(st, c3)
      BY <2>1, <3>1 DEF OpenBrace
    <3>4. QED
      BY <3>2, <3>3
  <2>3. QED
    BY <1>2, <2>2, FullPush
<1>3. QED
  BY <1>1, <1>2

\* Token by token the stack follows the reader.
LEMMA AgreeAlong ==
  ASSUME NEW st, NEW s, Agree(st, s), NEW token
  PROVE  Agree(Consume(st, token), BraceAt(s, token))
<1>1. PICK t, u, d : t = BraceAt(s, token) /\ u = Consume(st, token) /\ d = s.depth
  OBVIOUS
<1>2. Counts(s, token, t)
  BY <1>1, BracesAre DEF Agree
<1>3. SUFFICES ASSUME t.depth >= 0
               PROVE  Full(u, t.depth) \/ (Headed(u, t.depth) /\ t.heading)
  BY <1>1, <1>2 DEF Agree, Counts
<1>4. d \in Int /\ t.depth \in Int
  BY <1>1, <1>2 DEF Agree, IsBraces, Counts
<1>5. d >= 0 /\ ~ (t.depth < 0)
  <2>1. PICK e : e = t.depth
    OBVIOUS
  <2>2. e \in Int /\ e >= 0 /\ (d < 0 => e < 0)
    BY <1>1, <1>2, <1>3, <1>4, <2>1 DEF Counts
  <2>3. d >= 0 /\ ~ (e < 0)
    BY <1>4, <2>2
  <2>4. QED
    BY <2>1, <2>3
<1>b. \/ t.depth = d + 1 /\ token \in OpeningBraces
      \/ ~ s.heading /\ d > 0 /\ t.depth = d - 1 /\ token = "}"
      \/ ~ s.heading /\ t.depth = d /\ t.heading /\ token \in Heads
      \/ t.depth = d /\ token \in Ending
      \/ t = s /\ token \notin OpeningBraces \cup Heads \cup Ending \cup {"}"}
  BY <1>1, <1>2, <1>5 DEF Counts
<1>6. Full(st, d) \/ (Headed(st, d) /\ s.heading)
  BY <1>1, <1>5 DEF Agree
<1>7. CASE t.depth = d + 1 /\ token \in OpeningBraces
  <2>1. u = OpenBrace(st, token)
    <3>1. token # "}" /\ token \notin {";", ")"}
      BY <1>7 DEF OpeningBraces
    <3>2. QED
      BY <1>1, <1>7, <3>1 DEF Consume
  <2>2. QED
    BY <1>6, <1>7, <2>1, AgreeOpens
<1>8. CASE ~ s.heading /\ d > 0 /\ t.depth = d - 1 /\ token = "}"
  <2>1. ~ s.heading /\ d > 0 /\ t.depth = d - 1
    BY <1>8
  <2>2. Full(st, d) /\ st # <<>>
    <3>1. Full(st, d)
      BY <1>6, <2>1
    <3>2. st = <<>> <=> d = 0
      BY <3>1, FullTop
    <3>3. d # 0
      BY <1>4, <2>1
    <3>4. QED
      BY <3>1, <3>2, <3>3
  <2>3. u = Pop(st)
    BY <1>1, <1>8, <2>2 DEF Consume, OpeningBraces
  <2>4. QED
    BY <2>1, <2>2, <2>3, FullPop
<1>9. CASE ~ s.heading /\ t.depth = d /\ t.heading /\ token \in Heads
  <2>1. ~ s.heading /\ t.depth = d
    BY <1>9
  <2>2. u = st
    BY <1>1, <1>9 DEF Consume, OpeningBraces, Heads
  <2>3. QED
    BY <1>6, <2>1, <2>2
<1>10. CASE t.depth = d /\ token \in Ending
  <2>1. u = DropDeclaration(st) /\ t.depth = d
    BY <1>1, <1>10 DEF Consume, OpeningBraces, Ending
  <2>2. CASE Full(st, d)
    <3>1. SeenOpenBrace(st)
      BY <2>2, FullTop
    <3>2. QED
      BY <2>1, <2>2, <3>1 DEF DropDeclaration
  <2>3. CASE Headed(st, d)
    <3>1. ~ SeenOpenBrace(st)
      BY <2>3, HeadedTop
    <3>2. Full(Pop(st), d)
      BY <2>3, HeadedPop
    <3>3. QED
      BY <2>1, <3>1, <3>2 DEF DropDeclaration
  <2>4. QED
    BY <1>6, <2>2, <2>3
<1>11. CASE t = s /\ token \notin OpeningBraces \cup Heads \cup Ending \cup {"}"}
  <2>1. t = s
    BY <1>11
  <2>2. u = st
    BY <1>1, <1>11 DEF Consume, Ending
  <2>3. QED
    BY <1>1, <1>6, <2>1, <2>2
<1>12. QED
  BY <1>b, <1>7, <1>8, <1>9, <1>10, <1>11

-----------------------------------------------------------------------------
(* The rest of a text                                                       *)

\* The text behind the position p.
Rest(text, p) == SubSeq(text, p + 1, Len(text))

\* Its tokens are those behind p.
LEMMA RestIs ==
  ASSUME NEW A, NEW text \in Seq(A), NEW p \in 0..Len(text)
  PROVE  /\ Rest(text, p) \in Seq(A) /\ Len(Rest(text, p)) = Len(text) - p
         /\ \A i \in 1..(Len(text) - p) : Rest(text, p)[i] = text[p + i]
<1>1. PICK n : n = Len(text)
  OBVIOUS
<1>2. n \in Nat /\ p \in 0..n
  BY <1>1
<1>3. \A i \in (p + 1)..n : text[i] \in A
  BY <1>1, <1>2
<1>4. /\ SubSeq(text, p + 1, n) \in Seq(A) /\ Len(SubSeq(text, p + 1, n)) = n - p
      /\ \A i \in 1..(n - p) : SubSeq(text, p + 1, n)[i] = text[p + i]
  BY <1>1, <1>2, <1>3
<1>5. QED
  BY <1>1, <1>4 DEF Rest

\* The rest of a rest is a rest.
LEMMA RestOfRest ==
  ASSUME NEW A, NEW text \in Seq(A), NEW p \in 0..Len(text), NEW m \in 0..(Len(text) - p)
  PROVE  SubSeq(Rest(text, p), m + 1, Len(Rest(text, p))) = Rest(text, p + m)
<1>1. PICK n, r, u, v : /\ n = Len(text) /\ r = Rest(text, p)
                        /\ u = Rest(r, m) /\ v = Rest(text, p + m)
  OBVIOUS
<1>2. n \in Nat /\ p \in 0..n /\ m \in 0..(n - p) /\ p + m \in 0..n
  BY <1>1
<1>3. r \in Seq(A) /\ Len(r) = n - p /\ \A i \in 1..(n - p) : r[i] = text[p + i]
  BY <1>1, <1>2, RestIs
<1>4. u \in Seq(A) /\ Len(u) = (n - p) - m /\ \A i \in 1..((n - p) - m) : u[i] = r[m + i]
  <2>1. r \in Seq(A) /\ m \in 0..Len(r) /\ Len(r) = n - p
    BY <1>2, <1>3
  <2>2. /\ Rest(r, m) \in Seq(A) /\ Len(Rest(r, m)) = Len(r) - m
        /\ \A i \in 1..(Len(r) - m) : Rest(r, m)[i] = r[m + i]
    BY <2>1, RestIs
  <2>3. QED
    BY <1>1, <2>1, <2>2
<1>5. v \in Seq(A) /\ Len(v) = n - (p + m) /\ \A i \in 1..(n - (p + m)) : v[i] = text[(p + m) + i]
  BY <1>1, <1>2, RestIs
<1>6. Len(u) = Len(v)
  BY <1>2, <1>4, <1>5
<1>7. ASSUME NEW i \in 1..Len(u) PROVE u[i] = v[i]
  <2>1. /\ i \in 1..((n - p) - m) /\ i \in 1..(n - (p + m)) /\ m + i \in 1..(n - p)
        /\ p + (m + i) = (p + m) + i
    BY <1>2, <1>4
  <2>2. u[i] = text[p + (m + i)] /\ v[i] = text[(p + m) + i]
    BY <1>3, <1>4, <1>5, <2>1
  <2>3. QED
    BY <2>1, <2>2
<1>8. u = v
  BY <1>4, <1>5, <1>6, <1>7, SeqEqual
<1>9. QED
  BY <1>1, <1>8 DEF Rest

\* So is its tail.
LEMMA TailOfRest ==
  ASSUME NEW A, NEW text \in Seq(A), NEW p \in 0..Len(text), p < Len(text)
  PROVE  Tail(Rest(text, p)) = Rest(text, p + 1)
<1>1. PICK n, r, u, v : /\ n = Len(text) /\ r = Rest(text, p)
                        /\ u = Tail(r) /\ v = Rest(text, p + 1)
  OBVIOUS
<1>2. n \in Nat /\ p \in 0..n /\ p < n /\ p + 1 \in 0..n
  BY <1>1
<1>3. r \in Seq(A) /\ Len(r) = n - p /\ \A i \in 1..(n - p) : r[i] = text[p + i]
  BY <1>1, <1>2, RestIs
<1>4. u \in Seq(A) /\ Len(u) = (n - p) - 1 /\ \A i \in 1..((n - p) - 1) : u[i] = r[i + 1]
  <2>1. r # <<>> /\ r \in Seq(A)
    BY <1>2, <1>3
  <2>2. /\ Tail(r) \in Seq(A) /\ Len(Tail(r)) = Len(r) - 1
        /\ \A i \in 1..Len(Tail(r)) : Tail(r)[i] = r[i + 1]
    BY <2>1, HeadTailProperties
  <2>3. Len(r) = n - p
    BY <1>3
  <2>4. QED
    BY <1>1, <2>2, <2>3
<1>5. v \in Seq(A) /\ Len(v) = n - (p + 1) /\ \A i \in 1..(n - (p + 1)) : v[i] = text[(p + 1) + i]
  BY <1>1, <1>2, RestIs
<1>6. Len(u) = Len(v)
  BY <1>2, <1>4, <1>5
<1>7. ASSUME NEW i \in 1..Len(u) PROVE u[i] = v[i]
  <2>1. /\ i \in 1..((n - p) - 1) /\ i \in 1..(n - (p + 1)) /\ i + 1 \in 1..(n - p)
        /\ p + (i + 1) = (p + 1) + i
    BY <1>2, <1>4
  <2>2. u[i] = text[p + (i + 1)] /\ v[i] = text[(p + 1) + i]
    BY <1>3, <1>4, <1>5, <2>1
  <2>3. QED
    BY <2>1, <2>2
<1>8. u = v
  BY <1>4, <1>5, <1>6, <1>7, SeqEqual
<1>9. QED
  BY <1>1, <1>8

\* The least of a set of numbers.
LEMMA MinIs ==
  ASSUME NEW S \in SUBSET Nat, S # {}
  PROVE  Min(S) \in S /\ \A y \in S : Min(S) <= y
<1>1. \E x \in S : \A y \in S : x <= y
  <2>1. ~ \A x \in S : \E y \in S : y < x
    BY NoFirst
  <2>2. QED
    BY <2>1
<1>2. QED
  BY <1>1 DEF Min

-----------------------------------------------------------------------------
(* The top may change as long as its brace does not                         *)

\* So it may in a stack that agrees with the reader.
LEMMA AgreeReplaced ==
  ASSUME NEW st, NEW s, Agree(st, s), st # <<>>, NEW b,
         IsBlock(Top(st)) => IsBlock(b) /\ (b.seen_open_brace <=> Top(st).seen_open_brace)
  PROVE  Agree(ReplaceTop(st, b), s)
<1>1. ASSUME s.depth >= 0
      PROVE  \/ Full(ReplaceTop(st, b), s.depth)
             \/ Headed(ReplaceTop(st, b), s.depth) /\ s.heading
  <2>1. CASE Full(st, s.depth)
    <3>1. IsBlock(Top(st)) /\ Top(st).seen_open_brace
      BY <2>1, FullTop
    <3>2. IsBlock(b) /\ b.seen_open_brace
      BY <3>1
    <3>3. QED
      BY <2>1, <3>2, FullReplaced
  <2>2. CASE Headed(st, s.depth) /\ s.heading
    <3>1. IsBlock(Top(st)) /\ ~ Top(st).seen_open_brace
      BY <2>2, HeadedTop
    <3>2. IsBlock(b) /\ ~ b.seen_open_brace
      BY <3>1
    <3>3. QED
      BY <2>2, <3>2, HeadedReplaced
  <2>3. QED
    BY <1>1, <2>1, <2>2 DEF Agree
<1>2. QED
  BY <1>1 DEF Agree

\* Parentheses, assembly and access are no braces.
LEMMA BlockChanges ==
  ASSUME NEW w, IsBlock(w), NEW x
  PROVE  /\ IsBlock([w EXCEPT !.open_parentheses = x])
         /\ [w EXCEPT !.open_parentheses = x].seen_open_brace = w.seen_open_brace
         /\ IsBlock([w EXCEPT !.inline_asm = x])
         /\ [w EXCEPT !.inline_asm = x].seen_open_brace = w.seen_open_brace
         /\ IsBlock([w EXCEPT !.access = x])
         /\ [w EXCEPT !.access = x].seen_open_brace = w.seen_open_brace
<1>1. PICK k, o, p, i, a : w = [kind |-> k, seen_open_brace |-> o, open_parentheses |-> p,
                                inline_asm |-> i, access |-> a] /\ o \in BOOLEAN
  BY DEF IsBlock
<1>2. [w EXCEPT !.open_parentheses = x] =
         [kind |-> k, seen_open_brace |-> o, open_parentheses |-> x, inline_asm |-> i, access |-> a]
  BY <1>1
<1>3. [w EXCEPT !.inline_asm = x] =
         [kind |-> k, seen_open_brace |-> o, open_parentheses |-> p, inline_asm |-> x, access |-> a]
  BY <1>1
<1>4. [w EXCEPT !.access = x] =
         [kind |-> k, seen_open_brace |-> o, open_parentheses |-> p, inline_asm |-> i, access |-> x]
  BY <1>1
<1>5. PICK b1, b2, b3 : /\ b1 = [w EXCEPT !.open_parentheses = x]
                        /\ b2 = [w EXCEPT !.inline_asm = x]
                        /\ b3 = [w EXCEPT !.access = x]
  OBVIOUS
<1>6. IsBlock(b1) /\ b1.seen_open_brace = w.seen_open_brace
  BY <1>1, <1>2, <1>5 DEF IsBlock
<1>7. IsBlock(b2) /\ b2.seen_open_brace = w.seen_open_brace
  BY <1>1, <1>3, <1>5 DEF IsBlock
<1>8. IsBlock(b3) /\ b3.seen_open_brace = w.seen_open_brace
  BY <1>1, <1>4, <1>5 DEF IsBlock
<1>9. QED
  BY <1>5, <1>6, <1>7, <1>8

\* Counting parentheses keeps the agreement (cpplint.py, 2512-2531).
LEMMA AgreeCounted ==
  ASSUME NEW st, NEW s, Agree(st, s), NEW text
  PROVE  Agree(CountParentheses(st, text), s)
<1>1. CASE st = <<>>
  BY <1>1 DEF CountParentheses
<1>2. CASE st # <<>>
  <2>1. PICK w, x, c, y, b : /\ w = Top(st) /\ x = w.open_parentheses + DepthChange(text)
                             /\ c = [w EXCEPT !.open_parentheses = x]
                             /\ y = NextAsm(c, DepthChange(text), text)
                             /\ b = [c EXCEPT !.inline_asm = y]
    OBVIOUS
  <2>2. ASSUME IsBlock(w) PROVE IsBlock(b) /\ (b.seen_open_brace <=> w.seen_open_brace)
    <3>1. IsBlock(c) /\ c.seen_open_brace = w.seen_open_brace
      BY <2>1, <2>2, BlockChanges
    <3>2. /\ IsBlock([c EXCEPT !.inline_asm = y])
          /\ [c EXCEPT !.inline_asm = y].seen_open_brace = c.seen_open_brace
      BY <3>1, BlockChanges
    <3>3. b = [c EXCEPT !.inline_asm = y]
      BY <2>1
    <3>4. IsBlock(b) /\ b.seen_open_brace = c.seen_open_brace
      BY <3>2, <3>3
    <3>5. QED
      BY <3>1, <3>4
  <2>3. CountParentheses(st, text) = ReplaceTop(st, b)
    BY <1>2, <2>1 DEF CountParentheses
  <2>4. Agree(ReplaceTop(st, b), s)
    BY <1>2, <2>1, <2>2, AgreeReplaced
  <2>5. QED
    BY <2>3, <2>4
<1>3. QED
  BY <1>1, <1>2

\* So does an access specifier (cpplint.py, 2586-2593).
LEMMA AgreeAccess ==
  ASSUME NEW st, NEW s, Agree(st, s), NEW text
  PROVE  Agree(SetAccess(st, text), s)
<1>1. CASE SetAccess(st, text) = st
  BY <1>1
<1>2. CASE SetAccess(st, text) # st
  <2>1. PICK w, b : w = Top(st) /\ b = [w EXCEPT !.access = "public"]
    OBVIOUS
  <2>2. st # <<>> /\ SetAccess(st, text) = ReplaceTop(st, b)
    BY <1>2, <2>1 DEF SetAccess, InClass
  <2>3. ASSUME IsBlock(w) PROVE IsBlock(b) /\ (b.seen_open_brace <=> w.seen_open_brace)
    <3>1. IsBlock(b) /\ b.seen_open_brace = w.seen_open_brace
      BY <2>1, <2>3, BlockChanges
    <3>2. QED
      BY <3>1
  <2>4. Agree(ReplaceTop(st, b), s)
    BY <2>1, <2>2, <2>3, AgreeReplaced
  <2>5. QED
    BY <2>2, <2>4
<1>3. QED
  BY <1>1, <1>2

\* A head that is put on the stack.
LEMMA AgreeHeads ==
  ASSUME NEW st, NEW s, Agree(st, s), NEW token \in Heads, NEW kind
  PROVE  Agree(Append(st, Block(kind, FALSE)), BraceAt(s, token))
<1>1. PICK t, b : t = BraceAt(s, token) /\ b = Block(kind, FALSE)
  OBVIOUS
<1>2. Counts(s, token, t) /\ IsBraces(s)
  BY <1>1, BracesAre DEF Agree
<1>3. token \notin OpeningBraces /\ token # "}" /\ token \notin Ending
  BY DEF Heads, OpeningBraces, Ending
<1>4. PICK d, e : d = s.depth /\ e = t.depth
  OBVIOUS
<1>5. d \in Int /\ e \in Int
  BY <1>2, <1>4 DEF Counts, IsBraces
<1>6. (d < 0 => e < 0) /\ (d >= 0 => e < 0 \/ (~ s.heading /\ e = d /\ t.heading))
  BY <1>2, <1>3, <1>4 DEF Counts
<1>7. ASSUME e >= 0 PROVE Headed(Append(st, b), e) /\ t.heading
  <2>1. d >= 0 /\ ~ (e < 0)
    BY <1>5, <1>6, <1>7
  <2>2. ~ s.heading /\ e = d /\ t.heading
    BY <1>6, <2>1
  <2>3. Full(st, d)
    BY <1>4, <2>1, <2>2 DEF Agree
  <2>4. IsBlock(b) /\ ~ b.seen_open_brace
    BY <1>1, NewBlockIs
  <2>5. QED
    BY <2>2, <2>3, <2>4, FullHead
<1>8. Agree(Append(st, b), t)
  BY <1>2, <1>4, <1>7 DEF Agree, Counts
<1>9. QED
  BY <1>1, <1>8

-----------------------------------------------------------------------------
(* The declarations at the beginning of a line                              *)

\* No block is closed between a namespace and the next brace that opens one.
HeadsOnly(text) ==
    \A i, j \in DOMAIN text :
        /\ i < j /\ text[i] = "namespace" /\ text[j] = "}"
        => \E k \in DOMAIN text : i < k /\ k < j /\ text[k] \in OpeningBraces

\* h holds the braces behind every position of the text.
Reads(text, h) ==
    /\ \E base : Folds("braces", base, text, h)
    /\ IsBraces(h[0])

\* The stack of x agrees with the braces behind p, and the rest of x is what follows.
InStep(text, h, x, p) ==
    /\ p \in 0..Len(text)
    /\ x = [stack |-> x.stack, rest |-> Rest(text, p)]
    /\ Agree(x.stack, h[p])

\* The braces behind a position are those before it and its token.
LEMMA ReadsOn ==
  ASSUME NEW text, NEW h, Reads(text, h), NEW i \in 1..Len(text)
  PROVE  h[i] = BraceAt(h[i - 1], text[i])
BY DEF Reads, Folds, FoldStep

\* At every position the reader has a count, or no answer.
LEMMA ReadsBraces ==
  ASSUME NEW A, NEW text \in Seq(A), NEW h, Reads(text, h)
  PROVE  \A i \in 0..Len(text) : IsBraces(h[i])
<1> DEFINE S == {i \in 0..Len(text) : IsBraces(h[i])}
<1>1. Len(text) \in Nat
  OBVIOUS
<1>2. 0 \in S
  BY <1>1 DEF Reads
<1>3. ASSUME NEW i \in 0..(Len(text) - 1), i \in S PROVE i + 1 \in S
  <2>1. i + 1 \in 1..Len(text) /\ (i + 1) - 1 = i /\ i + 1 \in 0..Len(text)
    BY <1>1
  <2>2. h[i + 1] = BraceAt(h[i], text[i + 1])
    BY <2>1, ReadsOn
  <2>3. IsBraces(h[i + 1])
    <3>1. IsBraces(h[i])
      BY <1>3
    <3>2. IsBraces(BraceAt(h[i], text[i + 1]))
      BY <3>1, BracesAre DEF Counts
    <3>3. QED
      BY <2>2, <3>2
  <2>4. QED
    BY <2>1, <2>3
<1>4. \A i \in 0..Len(text) : i \in S
  <2> HIDE DEF S
  <2>1. QED
    BY <1>1, <1>2, <1>3, Climb
<1>5. QED
  BY <1>4

\* None of the m tokens behind p opens a block.
Quiet(text, p, m) == \A i \in 1..m : text[p + i] \notin OpeningBraces

\* The depth is the same behind all of them, or has no answer.
StaysOrFails(h, p, m) == \A i \in 0..m : h[p + i].depth < 0 \/ h[p + i].depth = h[p].depth

\* Until the next brace the depth is what it is behind the namespace, or has no answer.
LEMMA NothingCloses ==
  ASSUME NEW A, NEW text \in Seq(A), NEW h, Reads(text, h), HeadsOnly(text),
         NEW p \in 1..Len(text), text[p] = "namespace",
         NEW m \in Nat, p + m <= Len(text), Quiet(text, p, m)
  PROVE  StaysOrFails(h, p, m)
<1> DEFINE S == {i \in 0..m : h[p + i].depth < 0 \/ h[p + i].depth = h[p].depth}
<1>1. Len(text) \in Nat /\ DOMAIN text = 1..Len(text)
  OBVIOUS
<1>2. 0 \in S
  OBVIOUS
<1>3. ASSUME NEW i \in 0..(m - 1), i \in S PROVE i + 1 \in S
  <2>1. PICK q, s, t, token, d : /\ q = p + i /\ s = h[q] /\ t = h[q + 1] /\ token = text[q + 1]
                                 /\ d = h[p].depth
    OBVIOUS
  <2>2. /\ q \in 0..Len(text) /\ q + 1 \in 1..Len(text) /\ (q + 1) - 1 = q /\ i + 1 \in 1..m
        /\ q + 1 = p + (i + 1) /\ p < q + 1 /\ q \in Nat
    BY <1>1, <2>1
  <2>3. t = BraceAt(s, token) /\ IsBraces(s)
    BY <2>1, <2>2, ReadsOn, ReadsBraces
  <2>4. Counts(s, token, t)
    BY <2>3, BracesAre
  <2>5. token \notin OpeningBraces
    BY <2>1, <2>2 DEF Quiet
  <2>6. token # "}"
    <3>1. SUFFICES ASSUME text[q + 1] = "}" PROVE FALSE
      BY <2>1
    <3>2. PICK k \in 1..Len(text) : p < k /\ k < q + 1 /\ text[k] \in OpeningBraces
      BY <1>1, <2>2, <3>1 DEF HeadsOnly
    <3>3. PICK j : j = k - p
      OBVIOUS
    <3>4. j \in 1..m /\ k = p + j
      BY <1>1, <2>1, <2>2, <3>2, <3>3
    <3>5. text[p + j] \notin OpeningBraces
      BY <3>4 DEF Quiet
    <3>6. QED
      BY <3>2, <3>4, <3>5
  <2>7. (s.depth < 0 => t.depth < 0) /\ (s.depth >= 0 => t.depth < 0 \/ t.depth = s.depth)
    BY <2>4, <2>5, <2>6 DEF Counts
  <2>8. s.depth \in Int
    BY <2>3 DEF IsBraces
  <2>9. s.depth < 0 \/ s.depth = d
    BY <1>3, <2>1
  <2>10. t.depth < 0 \/ t.depth = d
    <3>1. PICK u : u = s.depth
      OBVIOUS
    <3>2. u < 0 \/ u >= 0
      BY <2>8, <3>1
    <3>3. QED
      BY <2>7, <2>9, <3>1, <3>2
  <2>11. i + 1 \in 0..m
    BY <2>2
  <2>12. QED
    BY <2>1, <2>2, <2>10, <2>11
<1>4. \A i \in 0..m : i \in S
  <2> HIDE DEF S
  <2>1. QED
    BY <1>2, <1>3, Climb
<1>5. QED
  BY <1>4 DEF StaysOrFails

\* A namespace whose brace follows in the line opens one block, and the reader comes to
\* the same depth.
LEMMA NamespaceOpens ==
  ASSUME NEW A, NEW text \in Seq(A), NEW h, Reads(text, h), HeadsOnly(text),
         NEW p \in 0..Len(text), NEW m \in Nat, m >= 2, p + m <= Len(text),
         text[p + 1] = "namespace", text[p + m] \in OpeningBraces,
         \A i \in 2..(m - 1) : text[p + i] \notin OpeningBraces,
         NEW st, Agree(st, h[p])
  PROVE  Agree(Append(st, Block("namespace", TRUE)), h[p + m])
<1>1. PICK n, q, k : n = Len(text) /\ q = p + 1 /\ k = m - 2
  OBVIOUS
<1>2. /\ n \in Nat /\ q \in 1..n /\ q - 1 = p /\ k \in Nat /\ q + k <= n
      /\ p + m \in 1..n /\ (p + m) - 1 = q + k /\ q + k \in 0..n
  BY <1>1
<1>3. Quiet(text, q, k)
  <2>1. SUFFICES ASSUME NEW i \in 1..k PROVE text[q + i] \notin OpeningBraces
    BY DEF Quiet
  <2>2. i + 1 \in 2..(m - 1) /\ q + i = p + (i + 1)
    BY <1>1, <1>2
  <2>3. QED
    BY <2>2
<1>4. h[q + k].depth < 0 \/ h[q + k].depth = h[q].depth
  <2>1. k \in 0..k
    BY <1>2
  <2>2. text[q] = "namespace" /\ q \in 1..Len(text) /\ q + k <= Len(text)
    BY <1>1, <1>2
  <2>3. StaysOrFails(h, q, k)
    BY <1>2, <1>3, <2>2, NothingCloses
  <2>4. QED
    BY <2>1, <2>3 DEF StaysOrFails
<1>5. PICK s, t, u, v : s = h[p] /\ t = h[q] /\ u = h[q + k] /\ v = h[p + m]
  OBVIOUS
<1>6. Counts(s, "namespace", t) /\ IsBraces(s)
  <2>1. t = BraceAt(s, "namespace")
    BY <1>1, <1>2, <1>5, ReadsOn
  <2>2. IsBraces(s)
    BY <1>5 DEF Agree
  <2>3. QED
    BY <2>1, <2>2, BracesAre
<1>7. Counts(u, text[p + m], v) /\ IsBraces(u)
  <2>1. v = BraceAt(u, text[p + m])
    BY <1>1, <1>2, <1>5, ReadsOn
  <2>2. IsBraces(u)
    BY <1>1, <1>2, <1>5, ReadsBraces
  <2>3. QED
    BY <2>1, <2>2, BracesAre
<1>8. PICK a, b, c, d : a = s.depth /\ b = t.depth /\ c = u.depth /\ d = v.depth
  OBVIOUS
<1>9. a \in Int /\ b \in Int /\ c \in Int /\ d \in Int
  BY <1>6, <1>7, <1>8 DEF Counts, IsBraces
<1>10. (a < 0 => b < 0) /\ (a >= 0 => b < 0 \/ (~ s.heading /\ b = a))
  <2>1. "namespace" \in Heads /\ "namespace" \notin OpeningBraces /\ "namespace" \notin Ending
    BY DEF Heads, OpeningBraces, Ending
  <2>2. QED
    BY <1>6, <1>8, <2>1 DEF Counts
<1>11. c < 0 \/ c = b
  BY <1>4, <1>5, <1>8
<1>12. (c < 0 => d < 0) /\ (c >= 0 => d = c + 1)
  <2>1. text[p + m] \notin Heads \cup Ending \cup {"}"}
    BY DEF Heads, OpeningBraces, Ending
  <2>2. QED
    BY <1>7, <1>8, <2>1 DEF Counts
<1>13. ASSUME d >= 0 PROVE Full(Append(st, Block("namespace", TRUE)), d)
  <2>1. a >= 0 /\ c = a /\ d = a + 1 /\ b = a /\ ~ (b < 0)
    BY <1>9, <1>10, <1>11, <1>12, <1>13
  <2>2. ~ s.heading
    BY <1>10, <2>1
  <2>3. Full(st, a)
    BY <1>5, <1>8, <2>1, <2>2 DEF Agree
  <2>4. PICK w : w = Block("namespace", TRUE)
    OBVIOUS
  <2>5. IsBlock(w) /\ w.seen_open_brace
    BY <2>4, NewBlockIs
  <2>6. Full(Append(st, w), a + 1)
    BY <2>3, <2>5, FullPush
  <2>7. QED
    BY <2>1, <2>4, <2>6
<1>14. QED
  BY <1>5, <1>7, <1>8, <1>13 DEF Agree, Counts

\* A stack that agrees behind p is in step there.
LEMMA InStepIs ==
  ASSUME NEW text, NEW h, NEW st, NEW p \in 0..Len(text), Agree(st, h[p]),
         NEW x, x = [stack |-> st, rest |-> Rest(text, p)]
  PROVE  InStep(text, h, x, p)
<1>1. x.stack = st
  OBVIOUS
<1>2. QED
  BY <1>1 DEF InStep

\* One namespace is opened, or none (cpplint.py, 2541-2551).
LEMMA NamespaceInStep ==
  ASSUME NEW A, NEW text \in Seq(A), NEW h, Reads(text, h), HeadsOnly(text),
         NEW x, NEW p, InStep(text, h, x, p)
  PROVE  \E q : InStep(text, h, OpenNamespace(x), q)
<1>1. PICK n, r, st : n = Len(text) /\ r = Rest(text, p) /\ st = x.stack
  OBVIOUS
<1>2. /\ n \in Nat /\ p \in 0..n /\ x = [stack |-> st, rest |-> r] /\ Agree(st, h[p])
      /\ x.rest = r
  BY <1>1 DEF InStep
<1>3. r \in Seq(A) /\ Len(r) = n - p /\ \A i \in 1..(n - p) : r[i] = text[p + i]
  BY <1>1, <1>2, RestIs
<1>4. CASE r = <<>> \/ r[1] # "namespace"
  <2>1. OpenNamespace(x) = x
    BY <1>2, <1>4 DEF OpenNamespace
  <2>2. QED
    BY <2>1
<1>5. CASE r # <<>> /\ r[1] = "namespace"
  <2>1. p < n /\ p + 1 \in 1..n /\ p + 1 \in 0..n /\ (p + 1) - 1 = p /\ 1 \in 1..(n - p)
    <3>1. Len(r) # 0
      BY <1>3, <1>5
    <3>2. QED
      BY <1>2, <1>3, <3>1
  <2>2. text[p + 1] = "namespace"
    BY <1>3, <1>5, <2>1
  <2>3. PICK braces : braces = {i \in DOMAIN x.rest : x.rest[i] \in OpeningBraces}
    OBVIOUS
  <2>4. braces = {i \in 1..(n - p) : r[i] \in OpeningBraces}
    BY <1>2, <1>3, <2>3
  <2>5. CASE braces = {}
    <3>1. OpenNamespace(x) = [stack |-> Append(st, Block("namespace", FALSE)), rest |-> Tail(r)]
      BY <1>2, <1>5, <2>3, <2>5 DEF OpenNamespace
    <3>2. Tail(r) = Rest(text, p + 1)
      BY <1>1, <1>2, <2>1, TailOfRest
    <3>3. h[p + 1] = BraceAt(h[p], "namespace")
      BY <1>1, <2>1, <2>2, ReadsOn
    <3>4. Agree(Append(st, Block("namespace", FALSE)), h[p + 1])
      <4>1. "namespace" \in Heads
        BY DEF Heads
      <4>2. QED
        BY <1>2, <3>3, <4>1, AgreeHeads
    <3>5. InStep(text, h, OpenNamespace(x), p + 1)
      <4>1. OpenNamespace(x) = [stack |-> Append(st, Block("namespace", FALSE)),
                                rest |-> Rest(text, p + 1)]
        BY <3>1, <3>2
      <4>2. p + 1 \in 0..Len(text)
        BY <1>1, <2>1
      <4>3. QED
        BY <3>4, <4>1, <4>2, InStepIs
    <3>6. QED
      BY <3>5
  <2>6. CASE braces # {}
    <3>1. PICK m : m = Min(braces)
      OBVIOUS
    <3>2. m \in braces /\ \A y \in braces : m <= y
      <4>1. braces \in SUBSET Nat
        BY <2>4
      <4>2. QED
        BY <2>6, <3>1, <4>1, MinIs
    <3>3. m \in 1..(n - p) /\ r[m] \in OpeningBraces
      BY <2>4, <3>2
    <3>4. m # 1
      BY <1>5, <3>3 DEF OpeningBraces
    <3>5. m \in Nat /\ m >= 2 /\ p + m <= n /\ p + m \in 0..n /\ m \in 0..(n - p)
      BY <1>2, <3>3, <3>4
    <3>6. text[p + m] \in OpeningBraces
      BY <1>3, <3>3
    <3>7. \A i \in 2..(m - 1) : text[p + i] \notin OpeningBraces
      <4>1. SUFFICES ASSUME NEW i \in 2..(m - 1), text[p + i] \in OpeningBraces PROVE FALSE
        OBVIOUS
      <4>2. i \in 1..(n - p) /\ i < m /\ i \in Nat
        BY <1>2, <3>5
      <4>3. i \in braces
        BY <1>3, <2>4, <4>1, <4>2
      <4>4. QED
        BY <3>2, <3>5, <4>2, <4>3
    <3>8. OpenNamespace(x) = [stack |-> Append(st, Block("namespace", TRUE)),
                              rest |-> SubSeq(r, m + 1, Len(r))]
      BY <1>2, <1>5, <2>3, <2>6, <3>1 DEF OpenNamespace
    <3>9. SubSeq(r, m + 1, Len(r)) = Rest(text, p + m)
      BY <1>1, <1>2, <3>5, RestOfRest
    <3>10. Agree(Append(st, Block("namespace", TRUE)), h[p + m])
      BY <1>1, <1>2, <2>2, <3>5, <3>6, <3>7, NamespaceOpens
    <3>11. InStep(text, h, OpenNamespace(x), p + m)
      <4>1. OpenNamespace(x) = [stack |-> Append(st, Block("namespace", TRUE)),
                                rest |-> Rest(text, p + m)]
        BY <3>8, <3>9
      <4>2. p + m \in 0..Len(text)
        BY <1>1, <3>5
      <4>3. QED
        BY <3>10, <4>1, <4>2, InStepIs
    <3>12. QED
      BY <3>11
  <2>7. QED
    BY <2>5, <2>6
<1>6. QED
  BY <1>4, <1>5

\* The rest behind position 0 is the whole text.
LEMMA WholeText ==
  ASSUME NEW A, NEW text \in Seq(A)
  PROVE  Rest(text, 0) = text
<1>1. PICK n, r : n = Len(text) /\ r = Rest(text, 0)
  OBVIOUS
<1>2. n \in Nat /\ 0 \in 0..n
  BY <1>1
<1>3. r \in Seq(A) /\ Len(r) = n - 0 /\ \A i \in 1..(n - 0) : r[i] = text[0 + i]
  BY <1>1, <1>2, RestIs
<1>4. Len(r) = Len(text) /\ \A i \in 1..Len(r) : r[i] = text[i]
  BY <1>1, <1>2, <1>3
<1>5. QED
  BY <1>1, <1>3, <1>4, SeqEqual

\* All namespaces at the beginning of a line keep the stack in step with the reader.
LEMMA NamespacesInStep ==
  ASSUME NEW A, NEW text \in Seq(A), NEW h, Reads(text, h), HeadsOnly(text),
         NEW st, Agree(st, h[0])
  PROVE  \E q : InStep(text, h, OpenNamespaces(st, text), q)
<1>1. PICK n, base : n = Len(text) /\ base = [stack |-> st, rest |-> text]
  OBVIOUS
<1>2. n \in Nat
  BY <1>1
<1>3. PICK f : Folds("namespaces", base, text, f) /\ f[n] = OpenNamespaces(st, text)
  BY <1>1, NamespacesFold
<1> DEFINE S == {i \in 0..n : \E q : InStep(text, h, f[i], q)}
<1>4. 0 \in S
  <2>1. base = [stack |-> base.stack, rest |-> Rest(text, 0)] /\ base.stack = st
    BY <1>1, WholeText
  <2>2. 0 \in 0..n
    BY <1>2
  <2>3. InStep(text, h, base, 0)
    BY <1>1, <2>1, <2>2 DEF InStep
  <2>4. f[0] = base
    BY <1>3 DEF Folds
  <2>5. QED
    BY <2>2, <2>3, <2>4
<1>5. ASSUME NEW i \in 0..(n - 1), i \in S PROVE i + 1 \in S
  <2>1. i + 1 \in 1..n /\ (i + 1) - 1 = i /\ i + 1 \in 0..n
    BY <1>2
  <2>2. f[i + 1] = FoldStep("namespaces", f[i], text[i + 1])
    BY <1>1, <1>3, <2>1 DEF Folds
  <2>3. f[i + 1] = OpenNamespace(f[i])
    BY <2>2 DEF FoldStep
  <2>4. PICK x, p : x = f[i] /\ InStep(text, h, x, p)
    BY <1>5
  <2>5. \E q : InStep(text, h, OpenNamespace(x), q)
    BY <2>4, NamespaceInStep
  <2>6. QED
    BY <2>1, <2>3, <2>4, <2>5
<1>6. \A i \in 0..n : i \in S
  <2> HIDE DEF S
  <2>1. QED
    BY <1>2, <1>4, <1>5, Climb
<1>7. n \in S
  BY <1>2, <1>6
<1>8. QED
  BY <1>3, <1>7

\* A class or struct behind them does as well (cpplint.py, 2558-2578).
LEMMA ClassInStep ==
  ASSUME NEW A, NEW text \in Seq(A), NEW h, Reads(text, h),
         NEW x, NEW p, InStep(text, h, x, p)
  PROVE  \E q : InStep(text, h, OpenClass(x.stack, x.rest), q)
<1>1. PICK n, r, st, y : /\ n = Len(text) /\ r = Rest(text, p) /\ st = x.stack
                         /\ y = OpenClass(st, r)
  OBVIOUS
<1>2. /\ n \in Nat /\ p \in 0..n /\ x = [stack |-> st, rest |-> r] /\ Agree(st, h[p])
      /\ x.rest = r
  BY <1>1 DEF InStep
<1>3. r \in Seq(A) /\ Len(r) = n - p /\ \A i \in 1..(n - p) : r[i] = text[p + i]
  BY <1>1, <1>2, RestIs
<1>4. \/ y = x
      \/ /\ r # <<>> /\ r[1] = "class"
         /\ y = [stack |-> Append(st, Block("class", FALSE)), rest |-> Tail(r)]
  BY <1>1, <1>2 DEF OpenClass
<1>5. CASE y = x
  BY <1>1, <1>2, <1>5
<1>6. CASE /\ r # <<>> /\ r[1] = "class"
           /\ y = [stack |-> Append(st, Block("class", FALSE)), rest |-> Tail(r)]
  <2>1. p < n /\ p + 1 \in 1..n /\ p + 1 \in 0..n /\ (p + 1) - 1 = p /\ 1 \in 1..(n - p)
    <3>1. Len(r) # 0
      BY <1>3, <1>6
    <3>2. QED
      BY <1>2, <1>3, <3>1
  <2>2. text[p + 1] = "class"
    BY <1>3, <1>6, <2>1
  <2>3. Tail(r) = Rest(text, p + 1)
    BY <1>1, <1>2, <2>1, TailOfRest
  <2>4. h[p + 1] = BraceAt(h[p], "class")
    BY <1>1, <2>1, <2>2, ReadsOn
  <2>5. Agree(Append(st, Block("class", FALSE)), h[p + 1])
    <3>1. "class" \in Heads
      BY DEF Heads
    <3>2. QED
      BY <1>2, <2>4, <3>1, AgreeHeads
  <2>6. InStep(text, h, y, p + 1)
    <3>1. y = [stack |-> Append(st, Block("class", FALSE)), rest |-> Rest(text, p + 1)]
      BY <1>6, <2>3
    <3>2. p + 1 \in 0..Len(text)
      BY <1>1, <2>1
    <3>3. QED
      BY <2>5, <3>1, <3>2, InStepIs
  <2>7. QED
    BY <1>1, <1>2, <2>6
<1>7. QED
  BY <1>4, <1>5, <1>6

-----------------------------------------------------------------------------
(* The braces of a line                                                     *)

\* The braces of the rest of the line are read in step to its end.
LEMMA BlocksInStep ==
  ASSUME NEW A, NEW text \in Seq(A), NEW h, Reads(text, h),
         NEW p \in 0..Len(text), NEW st, Agree(st, h[p])
  PROVE  Agree(FoldLeft(Consume, st, Rest(text, p)), h[Len(text)])
<1>1. PICK n, r, m : n = Len(text) /\ r = Rest(text, p) /\ m = n - p
  OBVIOUS
<1>2. n \in Nat /\ p \in 0..n /\ m \in Nat /\ p + m = n
  BY <1>1
<1>3. r \in Seq(A) /\ Len(r) = m /\ \A i \in 1..m : r[i] = text[p + i]
  BY <1>1, <1>2, RestIs
<1>4. PICK f : Folds("blocks", st, r, f) /\ f[m] = FoldLeft(Consume, st, r)
  BY <1>3, BlocksFold
<1> DEFINE S == {i \in 0..m : Agree(f[i], h[p + i])}
<1>5. 0 \in S
  <2>1. f[0] = st /\ p + 0 = p /\ 0 \in 0..m
    BY <1>2, <1>4 DEF Folds
  <2>2. QED
    BY <2>1
<1>6. ASSUME NEW i \in 0..(m - 1), i \in S PROVE i + 1 \in S
  <2>1. /\ i + 1 \in 1..m /\ (i + 1) - 1 = i /\ i + 1 \in 0..m
        /\ p + (i + 1) \in 1..n /\ (p + (i + 1)) - 1 = p + i
    BY <1>2
  <2>2. f[i + 1] = FoldStep("blocks", f[i], r[i + 1])
    BY <1>3, <1>4, <2>1 DEF Folds
  <2>3. f[i + 1] = Consume(f[i], text[p + (i + 1)])
    BY <1>3, <2>1, <2>2 DEF FoldStep
  <2>4. h[p + (i + 1)] = BraceAt(h[p + i], text[p + (i + 1)])
    BY <1>1, <2>1, ReadsOn
  <2>5. Agree(f[i + 1], h[p + (i + 1)])
    <3>1. Agree(f[i], h[p + i])
      BY <1>6
    <3>2. Agree(Consume(f[i], text[p + (i + 1)]), BraceAt(h[p + i], text[p + (i + 1)]))
      BY <3>1, AgreeAlong
    <3>3. QED
      BY <2>3, <2>4, <3>2
  <2>6. QED
    BY <2>1, <2>5
<1>7. \A i \in 0..m : i \in S
  <2> HIDE DEF S
  <2>1. QED
    BY <1>2, <1>5, <1>6, Climb
<1>8. m \in S
  BY <1>2, <1>7
<1>9. QED
  BY <1>1, <1>2, <1>4, <1>8

\* Over one line the stack follows the reader.
LEMMA LineAgrees ==
  ASSUME NEW A, NEW line, line.text \in Seq(A), HeadsOnly(line.text),
         NEW st, NEW s, Agree(st, s)
  PROVE  Agree(ParseLine(st, line), FoldLeft(BraceAt, s, line.text))
<1>1. PICK text, n : text = line.text /\ n = Len(text) /\ text \in Seq(A)
  OBVIOUS
<1>2. PICK h : Folds("braces", s, text, h) /\ h[n] = FoldLeft(BraceAt, s, text)
  BY <1>1, BracesFold
<1>3. h[0] = s /\ Reads(text, h)
  <2>1. h[0] = s
    BY <1>2 DEF Folds
  <2>2. IsBraces(h[0])
    BY <2>1 DEF Agree
  <2>3. QED
    BY <1>2, <2>1, <2>2 DEF Reads
<1>4. PICK c, o, k, e : /\ c = CountParentheses(st, text) /\ o = OpenNamespaces(c, text)
                        /\ k = OpenClass(o.stack, o.rest) /\ e = SetAccess(k.stack, k.rest)
  OBVIOUS
<1>5. Agree(c, h[0])
  BY <1>3, <1>4, AgreeCounted
<1>6. HeadsOnly(text)
  BY <1>1
<1>7. PICK p : InStep(text, h, o, p)
  BY <1>1, <1>3, <1>4, <1>5, <1>6, NamespacesInStep
<1>8. PICK q : InStep(text, h, k, q)
  BY <1>1, <1>3, <1>4, <1>7, ClassInStep
<1>9. q \in 0..n /\ k.rest = Rest(text, q) /\ Agree(k.stack, h[q])
  BY <1>1, <1>8 DEF InStep
<1>10. Agree(e, h[q])
  BY <1>4, <1>9, AgreeAccess
<1>11. Agree(FoldLeft(Consume, e, Rest(text, q)), h[n])
  BY <1>1, <1>3, <1>9, <1>10, BlocksInStep
<1>12. ParseLine(st, line) = FoldLeft(Consume, e, Rest(text, q))
  BY <1>1, <1>4, <1>9 DEF ParseLine
<1>13. QED
  BY <1>1, <1>2, <1>11, <1>12

-----------------------------------------------------------------------------
(* The branches of the reader and those of the checkpoints                  *)

\* The bits behind an #else, one by one.
LEMMA TurnedIs ==
  ASSUME NEW bits \in Seq(BOOLEAN)
  PROVE  /\ Turned(bits) \in Seq(BOOLEAN) /\ Len(Turned(bits)) = Len(bits)
         /\ \A i \in 1..Len(bits) : Turned(bits)[i] <=> i = Len(bits) \/ bits[i]
<1>1. PICK n, t : n = Len(bits) /\ t = Turned(bits)
  OBVIOUS
<1>2. n \in Nat /\ DOMAIN bits = 1..n
  BY <1>1
<1>3. t = [i \in 1..n |-> i = n \/ bits[i]]
  BY <1>1, <1>2 DEF Turned
<1>4. t \in [1..n -> BOOLEAN]
  BY <1>3, Zenon
<1>5. t \in Seq(BOOLEAN)
  BY <1>2, <1>4, SeqDef
<1>6. DOMAIN t = 1..n /\ DOMAIN t = 1..Len(t) /\ Len(t) \in Nat
  BY <1>4, <1>5
<1>7. Len(t) = n
  BY <1>2, <1>6
<1>8. \A i \in 1..n : t[i] <=> i = n \/ bits[i]
  BY <1>3, Zenon
<1>9. QED
  BY <1>1, <1>5, <1>7, <1>8

\* A branch that is not the first one began behind its #if.
Later(mark) == mark.opened # mark.branch

\* The checkpoints know which first branches are over.
SameBranches(bits, p) ==
    /\ Len(bits) = Len(p)
    /\ \A i \in 1..Len(p) : bits[i] <=> Later(p[i])

\* At a #if both know of one more conditional in its first branch.
LEMMA BranchesAtIf ==
  ASSUME PathInv, NEW bits \in Seq(BOOLEAN), SameBranches(bits, path),
         NEW line, line.directive = "if"
  PROVE  SameBranches(Append(bits, FALSE), NextPath(line))
<1>1. PICK q, b, n : q = NextPath(line) /\ b = Append(bits, FALSE) /\ n = Len(path)
  OBVIOUS
<1>2. n \in Nat /\ n = Len(bits) /\ \A i \in 1..n : bits[i] <=> Later(path[i])
  BY <1>1 DEF SameBranches, PathInv
<1>3. /\ Len(q) = n + 1 /\ (\A i \in 1..n : q[i] = path[i])
      /\ q[n + 1] = [opened |-> linenum + 1, branch |-> linenum + 1]
  BY <1>1, PathAtIf
<1>4. /\ Len(b) = n + 1 /\ (\A i \in 1..n : b[i] = bits[i])
      /\ b[n + 1] = FALSE
  BY <1>1, <1>2, AppendFalse
<1>5. ~ Later(q[n + 1]) /\ ~ b[n + 1]
  BY <1>3, <1>4 DEF Later
<1>6. ASSUME NEW i \in 1..(n + 1) PROVE b[i] <=> Later(q[i])
  <2>1. CASE i = n + 1
    BY <1>5, <2>1
  <2>2. CASE i \in 1..n
    BY <1>2, <1>3, <1>4, <2>2
  <2>3. i = n + 1 \/ i \in 1..n
    BY <1>2
  <2>4. QED
    BY <2>1, <2>2, <2>3
<1>7. QED
  BY <1>1, <1>3, <1>4, <1>6 DEF SameBranches

\* At an #else both know that a first branch is over.
LEMMA BranchesAtElse ==
  ASSUME PathInv, NEW bits \in Seq(BOOLEAN), SameBranches(bits, path),
         NEW line, line.directive = "else"
  PROVE  SameBranches(Turned(bits), NextPath(line))
<1>1. PICK q, b, n : q = NextPath(line) /\ b = Turned(bits) /\ n = Len(path)
  OBVIOUS
<1>2. n \in Nat /\ n = Len(bits) /\ \A i \in 1..n : bits[i] <=> Later(path[i])
  BY <1>1 DEF SameBranches, PathInv
<1>3. Len(b) = n /\ \A i \in 1..n : b[i] <=> i = n \/ bits[i]
  BY <1>1, <1>2, TurnedIs
<1>4. CASE path = <<>>
  <2>1. q = path /\ n = 0
    BY <1>1, <1>4, PathStays
  <2>2. Len(q) = n /\ \A i \in 1..n : FALSE
    BY <1>1, <2>1
  <2>3. QED
    BY <1>1, <1>3, <2>2 DEF SameBranches
<1>5. CASE path # <<>>
  <2>1. /\ Len(q) = n /\ (\A i \in 1..(n - 1) : q[i] = path[i]) /\ n \in 1..n
        /\ q[n] = [opened |-> path[n].opened, branch |-> linenum + 1]
    BY <1>1, <1>5, PathAtElse
  <2>2. Later(q[n])
    <3>1. path[n] \in Marks(linenum) /\ linenum \in Nat
      <4>1. PICK M : M = Marks(linenum)
        OBVIOUS
      <4>2. path \in Seq(M) /\ linenum \in Nat
        BY <4>1 DEF PathInv
      <4>3. n \in 1..Len(path)
        BY <1>1, <2>1
      <4>4. path[n] \in M
        BY <4>2, <4>3
      <4>5. QED
        BY <4>1, <4>2, <4>4
    <3>2. path[n].opened \in 1..linenum
      BY <3>1 DEF Marks
    <3>3. path[n].opened # linenum + 1
      BY <3>1, <3>2
    <3>4. q[n].opened = path[n].opened /\ q[n].branch = linenum + 1
      BY <2>1
    <3>5. QED
      BY <3>3, <3>4 DEF Later
  <2>3. ASSUME NEW i \in 1..n PROVE b[i] <=> Later(q[i])
    <3>1. CASE i = n
      <4>1. b[i]
        BY <1>3, <3>1
      <4>2. QED
        BY <2>2, <3>1, <4>1
    <3>2. CASE i # n
      <4>1. i \in 1..(n - 1)
        BY <1>2, <3>2
      <4>2. q[i] = path[i]
        BY <2>1, <4>1
      <4>3. (b[i] <=> bits[i]) /\ (bits[i] <=> Later(path[i]))
        BY <1>2, <1>3, <3>2
      <4>4. QED
        BY <4>2, <4>3
    <3>3. QED
      BY <3>1, <3>2
  <2>4. QED
    BY <1>1, <1>3, <2>1, <2>3 DEF SameBranches
<1>6. QED
  BY <1>4, <1>5

\* At an #endif both forget the last conditional.
LEMMA BranchesAtEndif ==
  ASSUME PathInv, NEW bits \in Seq(BOOLEAN), SameBranches(bits, path),
         NEW line, line.directive = "endif"
  PROVE  SameBranches(Left(bits), NextPath(line))
<1>1. PICK q, b, n : q = NextPath(line) /\ b = Left(bits) /\ n = Len(path)
  OBVIOUS
<1>2. n \in Nat /\ n = Len(bits) /\ \A i \in 1..n : bits[i] <=> Later(path[i])
  BY <1>1 DEF SameBranches, PathInv
<1>3. (path = <<>> <=> n = 0) /\ (bits = <<>> <=> n = 0)
  <2>1. PICK S : path \in Seq(S)
    BY DEF PathInv
  <2>2. path = <<>> <=> Len(path) = 0
    BY <2>1
  <2>3. bits = <<>> <=> Len(bits) = 0
    OBVIOUS
  <2>4. Len(path) = n /\ Len(bits) = n
    BY <1>1, <1>2
  <2>5. QED
    BY <2>2, <2>3, <2>4
<1>4. CASE n = 0
  <2>1. q = path /\ b = bits
    BY <1>1, <1>3, <1>4, PathStays DEF Left
  <2>2. QED
    BY <1>1, <2>1
<1>5. CASE n # 0
  <2>1. /\ Len(q) = n - 1 /\ \A i \in 1..(n - 1) : q[i] = path[i]
    BY <1>1, <1>3, <1>5, PathAtEndif
  <2>2. /\ Len(b) = n - 1 /\ \A i \in 1..(n - 1) : b[i] = bits[i]
    BY <1>1, <1>2, <1>5, LeftIs
  <2>3. ASSUME NEW i \in 1..(n - 1) PROVE b[i] <=> Later(q[i])
    <3>1. i \in 1..n
      BY <1>2
    <3>2. QED
      BY <1>2, <2>1, <2>2, <3>1
  <2>4. QED
    BY <1>1, <2>1, <2>2, <2>3 DEF SameBranches
<1>6. QED
  BY <1>4, <1>5

-----------------------------------------------------------------------------
(* The stack of the file                                                    *)

\* The braces as the reader of the file has counted them.
Reader == [depth |-> depth, heading |-> heading]

\* The stack that will count agrees with the reader.
BraceInv == Agree(Nesting!CountedStack(nesting), Reader)

\* The checkpoints know the branches of the reader.
BranchInv == SameBranches(Skipping(nesting), path)

\* A file begins without blocks and conditionals.
LEMMA StartsEmpty == HistoryInit => BraceInv /\ BranchInv
<1> SUFFICES ASSUME HistoryInit PROVE BraceInv /\ BranchInv
  OBVIOUS
<1>1. /\ nesting.pp_stack = <<>> /\ nesting.stack = <<>> /\ path = <<>>
      /\ depth = 0 /\ heading = FALSE
  BY DEF HistoryInit, Init, Nesting!InitNesting
<1>2. DOMAIN nesting.pp_stack = {}
  BY <1>1
<1>3. Nesting!CountedStack(nesting) = <<>>
  BY <1>1, <1>2 DEF Nesting!Over, Nesting!CountedStack
<1>4. Len(Skipping(nesting)) = 0
  <2>1. NestInv
    BY InitNests
  <2>2. Len(Skipping(nesting)) = Len(nesting.pp_stack)
    BY <2>1, Bits DEF NestInv
  <2>3. QED
    BY <1>1, <2>2
<1>5. BranchInv
  <2>1. Len(path) = 0
    BY <1>1
  <2>2. \A i \in 1..Len(path) : FALSE
    BY <2>1
  <2>3. QED
    BY <1>4, <2>1, <2>2 DEF BranchInv, SameBranches
<1>6. IsStack(<<>>)
  <2>1. PICK e, A : e = <<>> /\ A = {}
    OBVIOUS
  <2>2. e \in Seq(A) /\ \A b \in A : IsBlock(b)
    BY <2>1
  <2>3. IsStack(e)
    BY <2>2 DEF IsStack
  <2>4. QED
    BY <2>1, <2>3
<1>7. Full(<<>>, 0)
  BY <1>6 DEF Full
<1>8. Reader = [depth |-> 0, heading |-> FALSE]
  BY <1>1 DEF Reader
<1>9. Reader.depth = 0 /\ IsBraces(Reader)
  BY <1>8 DEF IsBraces
<1>10. BraceInv
  BY <1>3, <1>7, <1>9 DEF BraceInv, Agree
<1>11. QED
  BY <1>5, <1>10

\* What a line does to the stack that counts.
LEMMA CountedAfter ==
  ASSUME NestInv, NEW line, ReadLine(line)
  PROVE  /\ \/ line.directive = "if" /\ Skipping(nesting)' = Append(Skipping(nesting), FALSE)
            \/ line.directive = "else" /\ Skipping(nesting)' = Turned(Skipping(nesting))
            \/ line.directive = "endif" /\ Skipping(nesting)' = Left(Skipping(nesting))
            \/ /\ line.directive \notin {"if", "else", "endif"}
               /\ Skipping(nesting)' = Skipping(nesting)
         /\ Nesting!CountedStack(nesting)' =
              IF Counting(nesting)' THEN ParseLine(Nesting!CountedStack(nesting), line)
              ELSE Nesting!CountedStack(nesting)
<1>1. PICK s, u : s = nesting /\ u = Nesting!UpdatedBy(s, line)
  OBVIOUS
<1>2. IsNesting(s) /\ HasOutermost(s)
  BY <1>1 DEF NestInv
<1>3. /\ \/ DirectiveOf(line) = "if" /\ Skipping(u) = Append(Skipping(s), FALSE)
         \/ DirectiveOf(line) = "else" /\ Skipping(u) = Turned(Skipping(s))
         \/ DirectiveOf(line) = "endif" /\ Skipping(u) = Left(Skipping(s))
         \/ DirectiveOf(line) \notin {"if", "else", "endif"} /\ Skipping(u) = Skipping(s)
      /\ Nesting!CountedStack(u) = IF Counting(u) THEN ParseLine(Nesting!CountedStack(s), line)
                                   ELSE Nesting!CountedStack(s)
  BY <1>1, <1>2, LineRefines
<1>4. nesting' = u
  BY <1>1 DEF ReadLine
<1>5. /\ Skipping(nesting)' = Skipping(u) /\ (Counting(nesting)' <=> Counting(u))
      /\ Nesting!CountedStack(nesting)' = Nesting!CountedStack(u)
  BY <1>4
<1>6. QED
  BY <1>1, <1>3, <1>5 DEF DirectiveOf

\* Every line keeps the branches.
LEMMA StepBranches ==
  ASSUME BranchInv, PathInv, NestInv, [HistoryNext]_allVars
  PROVE  BranchInv'
<1>1. ASSUME UNCHANGED <<nesting, path>> PROVE BranchInv'
  BY <1>1 DEF BranchInv, SameBranches, Skipping
<1>2. ASSUME NEW line \in alphabet, ReadLine(line), Observe(line) PROVE BranchInv'
  <2>1. PICK bits, after : bits = Skipping(nesting) /\ after = Skipping(nesting)'
    OBVIOUS
  <2>2. bits \in Seq(BOOLEAN)
    BY <2>1, Bits DEF NestInv
  <2>3. SameBranches(bits, path)
    BY <2>1 DEF BranchInv
  <2>4. path' = NextPath(line)
    BY <1>2 DEF Observe
  <2>5. \/ line.directive = "if" /\ after = Append(bits, FALSE)
        \/ line.directive = "else" /\ after = Turned(bits)
        \/ line.directive = "endif" /\ after = Left(bits)
        \/ line.directive \notin {"if", "else", "endif"} /\ after = bits
    BY <1>2, <2>1, CountedAfter
  <2>6. SameBranches(after, NextPath(line))
    <3>1. CASE line.directive = "if" /\ after = Append(bits, FALSE)
      BY <2>2, <2>3, <3>1, BranchesAtIf
    <3>2. CASE line.directive = "else" /\ after = Turned(bits)
      BY <2>2, <2>3, <3>2, BranchesAtElse
    <3>3. CASE line.directive = "endif" /\ after = Left(bits)
      BY <2>2, <2>3, <3>3, BranchesAtEndif
    <3>4. CASE line.directive \notin {"if", "else", "endif"} /\ after = bits
      BY <2>3, <3>4, PathStays
    <3>5. QED
      BY <2>5, <3>1, <3>2, <3>3, <3>4
  <2>7. QED
    BY <2>1, <2>4, <2>6 DEF BranchInv
<1>3. QED
  BY <1>1, <1>2 DEF HistoryNext, EndOfFile, allVars, vars, history

\* The reader reads the braces of a line exactly if the line counts for the stack.
LEMMA CountsForBoth ==
  ASSUME NEW s, IsNesting(s), NEW A, NEW p \in Seq(A), SameBranches(Skipping(s), p)
  PROVE  Counting(s) <=> \A i \in DOMAIN p : p[i].opened = p[i].branch
<1>1. PICK bits, n : bits = Skipping(s) /\ n = Len(p)
  OBVIOUS
<1>2. bits \in Seq(BOOLEAN)
  BY <1>1, Bits
<1>3. Len(bits) = n /\ \A i \in 1..n : bits[i] <=> Later(p[i])
  BY <1>1 DEF SameBranches
<1>4. DOMAIN bits = 1..n /\ DOMAIN p = 1..n
  BY <1>1, <1>2, <1>3
<1>5. Counting(s) <=> \A i \in 1..n : ~ bits[i]
  BY <1>1, <1>4 DEF Counting
<1>6. QED
  BY <1>3, <1>4, <1>5 DEF Later

\* Every line keeps the braces.
LEMMA StepMatches ==
  ASSUME NamespacesAreHeads,
         BraceInv, BranchInv, BranchInv', PathInv, PathInv', NestInv, NestInv', AlphabetInv,
         [HistoryNext]_allVars
  PROVE  BraceInv'
<1>1. ASSUME UNCHANGED <<nesting, depth, heading>> PROVE BraceInv'
  BY <1>1 DEF BraceInv, Reader, Nesting!CountedStack, Nesting!Over, Nesting!Outermost
<1>2. ASSUME NEW line \in alphabet, ReadLine(line), Observe(line) PROVE BraceInv'
  <2>1. PICK st, s : st = Nesting!CountedStack(nesting) /\ s = Reader
    OBVIOUS
  <2>2. Agree(st, s)
    BY <2>1 DEF BraceInv
  <2>3. line \in UNION Alphabets
    BY DEF AlphabetInv
  <2>4. line.text \in Seq(Tokens) /\ HeadsOnly(line.text)
    BY <2>3, LinesAssumption DEF NamespacesAreHeads, HeadsOnly
  <2>5. PICK t : t = FoldLeft(BraceAt, s, line.text)
    OBVIOUS
  <2>6. Agree(ParseLine(st, line), t)
    BY <2>2, <2>4, <2>5, LineAgrees
  <2>7. IsBraces(t)
    BY <2>6 DEF Agree
  <2>8. Nesting!CountedStack(nesting)' = IF Counting(nesting)' THEN ParseLine(st, line) ELSE st
    BY <1>2, <2>1, CountedAfter
  <2>9. Counting(nesting)' <=> \A i \in DOMAIN path' : path'[i].opened = path'[i].branch
    <3>1. PICK r, p, n : r = nesting' /\ p = path' /\ n = linenum'
      OBVIOUS
    <3>2. IsNesting(r) /\ SameBranches(Skipping(r), p) /\ p \in Seq(Marks(n))
      BY <3>1 DEF NestInv, BranchInv, PathInv
    <3>3. Counting(r) <=> \A i \in DOMAIN p : p[i].opened = p[i].branch
      BY <3>2, CountsForBoth
    <3>4. QED
      BY <3>1, <3>3
  <2>10. IF \A i \in DOMAIN path' : path'[i].opened = path'[i].branch
         THEN depth' = t.depth /\ heading' = t.heading
         ELSE depth' = depth /\ heading' = heading
    BY <1>2, <2>1, <2>5 DEF Observe, ReadBraces, Reader
  <2>11. CASE Counting(nesting)'
    <3>1. depth' = t.depth /\ heading' = t.heading
      BY <2>9, <2>10, <2>11
    <3>2. Reader' = t
      BY <2>7, <3>1 DEF Reader, IsBraces
    <3>3. Nesting!CountedStack(nesting)' = ParseLine(st, line)
      BY <2>8, <2>11
    <3>4. QED
      BY <2>6, <3>2, <3>3 DEF BraceInv
  <2>12. CASE ~ Counting(nesting)'
    <3>1. depth' = depth /\ heading' = heading
      BY <2>9, <2>10, <2>12
    <3>2. Reader' = s
      BY <2>1, <3>1 DEF Reader
    <3>3. Nesting!CountedStack(nesting)' = st
      BY <2>8, <2>12
    <3>4. QED
      BY <2>2, <3>2, <3>3 DEF BraceInv
  <2>13. QED
    BY <2>11, <2>12
<1>3. QED
  BY <1>1, <1>2 DEF HistoryNext, EndOfFile, allVars, vars, history

\* The blocks whose braces were seen are as many as the open braces.
LEMMA OpenedAre ==
  ASSUME NEW st, NEW s, Agree(st, s), s.depth >= 0
  PROVE  Cardinality(Opened(st)) = s.depth
<1>1. PICK d : d = s.depth
  OBVIOUS
<1>2. Full(st, d) \/ Headed(st, d)
  BY <1>1 DEF Agree
<1>3. d \in Nat /\ IsStack(st)
  BY <1>2 DEF Full, Headed
<1>4. PICK A : st \in Seq(A)
  BY <1>3 DEF IsStack
<1>5. DOMAIN st = 1..Len(st)
  BY <1>4
<1>6. Opened(st) = 1..d
  <2>1. CASE Full(st, d)
    BY <1>5, <2>1 DEF Full, Opened
  <2>2. CASE Headed(st, d)
    <3>1. Len(st) = d + 1 /\ (\A i \in 1..d : st[i].seen_open_brace) /\ ~ st[d + 1].seen_open_brace
      BY <2>2 DEF Headed
    <3>2. \A i \in 1..(d + 1) : i \in 1..d \/ i = d + 1
      BY <1>3
    <3>3. \A i \in 1..d : i \in 1..(d + 1)
      BY <1>3
    <3>4. QED
      BY <1>5, <3>1, <3>2, <3>3 DEF Opened
  <2>3. QED
    BY <1>2, <2>1, <2>2
<1>7. Cardinality(1..d) = d
  BY <1>3, FS_Interval
<1>8. QED
  BY <1>1, <1>6, <1>7

\* For all lines in which no block is closed between a namespace and its brace, the stack
\* that will count has as many open blocks as the reader has open braces, over files of any
\* length with conditionals of any depth (NestingState.Update, cpplint.py, 2486-2648).
THEOREM BracesAreMatched ==
  ASSUME NamespacesAreHeads
  PROVE  HistorySpec => []StackMatchesBraces
<1>1. BranchInv /\ PathInv /\ NestInv /\ [HistoryNext]_allVars => BranchInv'
  BY StepBranches
<1>2. BraceInv /\ BranchInv /\ BranchInv' /\ PathInv /\ PathInv' /\ NestInv /\ NestInv'
        /\ AlphabetInv /\ [HistoryNext]_allVars => BraceInv'
  BY StepMatches
<1>3. BraceInv => StackMatchesBraces
  <2>1. Reader.depth = depth
    BY DEF Reader
  <2>2. QED
    BY <2>1, OpenedAre DEF BraceInv, StackMatchesBraces
<1>4. QED
  BY <1>1, <1>2, <1>3, StartsEmpty, PathIsSound, StackIsSound, AlphabetStays, PTL
  DEF HistorySpec

=============================================================================
