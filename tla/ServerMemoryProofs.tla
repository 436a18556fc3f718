------------------------- MODULE ServerMemoryProofs -------------------------
(***************************************************************************)
(* ServerMemory for every set of names and contents, every hash function,  *)
(* every set of addresses and every capacity: the lists and the tables     *)
(* stay sound, no pointer of the cache's table dangles, and the server's   *)
(* memory behaves as ServerStorage says.                                   *)
(*                                                                         *)
(* The first part is what the operators of LinkedList and of HashTable do, *)
(* for every list and every table: they keep the links, the chains and the *)
(* counts right, and seen from outside a list is a sequence and a table is *)
(* a map.                                                                  *)
(***************************************************************************)
EXTENDS ServerMemory, Integers, SequenceTheorems, FiniteSetTheorems, TLAPS

-----------------------------------------------------------------------------
(* Lists                                                                    *)

(***************************************************************************)
(* The address at position i of the sequence s of n addresses, NULL beyond *)
(* either end, and what it is for s to be the nodes of l in their order:   *)
(* WellLinked without the claim that there is no other allocated node.     *)
(***************************************************************************)
At(s, n, i) == IF i \in 1..n THEN s[i] ELSE NULL

Linked(l, s) ==
    /\ s \in [1..l.size -> Allocated(l)]
    /\ \A i, j \in 1..l.size : s[i] = s[j] => i = j
    /\ l.head = At(s, l.size, 1) /\ l.tail = At(s, l.size, l.size)
    /\ \A i \in 1..l.size : /\ l.node[s[i]].prev = At(s, l.size, i - 1)
                            /\ l.node[s[i]].next = At(s, l.size, i + 1)

\* No allocated node is left out of the list.
Complete(l, s) == \A a \in Allocated(l) : \E i \in 1..l.size : s[i] = a

LEMMA WellLinkedParts ==
  ASSUME NEW D, NEW l \in List(D)
  PROVE  WellLinked(l) <=> \E s : Linked(l, s) /\ Complete(l, s)
<1>1. l.size \in Nat
  BY DEF List
<1>2. ASSUME NEW s \in [1..l.size -> Allocated(l)]
      PROVE  /\ IsInjective(s) <=> \A i, j \in 1..l.size : s[i] = s[j] => i = j
             /\ Range(s) = Allocated(l) <=> Complete(l, s)
  <2>1. DOMAIN s = 1..l.size
    OBVIOUS
  <2>2. QED
    BY <2>1 DEF IsInjective, Range, Complete
<1>3. ASSUME NEW s \in [1..l.size -> Allocated(l)]
      PROVE  /\ (IF l.size = 0 THEN NULL ELSE s[1]) = At(s, l.size, 1)
             /\ (IF l.size = 0 THEN NULL ELSE s[l.size]) = At(s, l.size, l.size)
             /\ \A i \in 1..l.size :
                   /\ (IF i = 1 THEN NULL ELSE s[i - 1]) = At(s, l.size, i - 1)
                   /\ (IF i = l.size THEN NULL ELSE s[i + 1]) = At(s, l.size, i + 1)
  BY <1>1 DEF At
<1>4. ASSUME NEW s, s \in [1..l.size -> Allocated(l)]
      PROVE  Linked(l, s) /\ Complete(l, s) <=>
                /\ IsInjective(s) /\ Range(s) = Allocated(l)
                /\ l.head = (IF l.size = 0 THEN NULL ELSE s[1])
                /\ l.tail = (IF l.size = 0 THEN NULL ELSE s[l.size])
                /\ \A i \in 1..l.size :
                      /\ l.node[s[i]].prev = (IF i = 1 THEN NULL ELSE s[i - 1])
                      /\ l.node[s[i]].next = (IF i = l.size THEN NULL ELSE s[i + 1])
  <2> DEFINE links == \A i \in 1..l.size :
                         /\ l.node[s[i]].prev = At(s, l.size, i - 1)
                         /\ l.node[s[i]].next = At(s, l.size, i + 1)
             ends  == l.head = At(s, l.size, 1) /\ l.tail = At(s, l.size, l.size)
             apart == \A i, j \in 1..l.size : s[i] = s[j] => i = j
  <2>1. Linked(l, s) <=> apart /\ ends /\ links
    BY <1>4 DEF Linked
  <2>2. links <=> \A i \in 1..l.size :
                     /\ l.node[s[i]].prev = (IF i = 1 THEN NULL ELSE s[i - 1])
                     /\ l.node[s[i]].next = (IF i = l.size THEN NULL ELSE s[i + 1])
    <3>1. \A i \in 1..l.size :
             /\ (IF i = 1 THEN NULL ELSE s[i - 1]) = At(s, l.size, i - 1)
             /\ (IF i = l.size THEN NULL ELSE s[i + 1]) = At(s, l.size, i + 1)
      BY <1>3, <1>4
    <3>2. QED
      BY <3>1, Zenon
  <2>3. ends <=> /\ l.head = (IF l.size = 0 THEN NULL ELSE s[1])
                 /\ l.tail = (IF l.size = 0 THEN NULL ELSE s[l.size])
    BY <1>3, <1>4
  <2>4. IsInjective(s) <=> apart
    BY <1>2, <1>4
  <2>5. Range(s) = Allocated(l) <=> Complete(l, s)
    BY <1>2, <1>4
  <2> HIDE DEF links, ends, apart
  <2>6. QED
    BY <2>1, <2>2, <2>3, <2>4, <2>5
<1>5. \A s : Linked(l, s) => s \in [1..l.size -> Allocated(l)]
  BY DEF Linked
<1>6. QED
  BY <1>4, <1>5 DEF WellLinked

-----------------------------------------------------------------------------
(* Walking along the list, forwards and backwards.                          *)

\* The smallest element of a set of positions.
LEMMA FirstOf ==
  ASSUME NEW I \in SUBSET Nat, I # {}
  PROVE  Min(I) \in I /\ \A i \in I : Min(I) <= i
<1>1. PICK x \in I : \A y \in I : ~ (<<y, x>> \in OpToRel(<, Nat))
  BY WFMin, NatLessThanWellFounded
<1>2. ASSUME NEW y \in I PROVE x <= y
  <2>1. x \in Nat /\ y \in Nat
    OBVIOUS
  <2>2. <<y, x>> \notin OpToRel(<, Nat)
    BY <1>1
  <2>3. ~ (y < x)
    BY <2>1, <2>2 DEF OpToRel
  <2>4. QED
    BY <2>1, <2>3
<1>3. QED
  BY <1>2 DEF Min

\* A set of positions that has a smaller one for each of its own is empty.
LEMMA NoFirst ==
  ASSUME NEW I \in SUBSET Nat, \A i \in I : \E j \in I : j < i
  PROVE  I = {}
<1>1. SUFFICES ASSUME I # {} PROVE FALSE
  OBVIOUS
<1>2. Min(I) \in I /\ \A i \in I : Min(I) <= i
  BY <1>1, FirstOf
<1>3. PICK j \in I : j < Min(I)
  BY <1>2
<1>4. Min(I) \in Nat /\ j \in Nat /\ Min(I) <= j
  BY <1>2
<1>5. QED
  BY <1>3, <1>4

LEMMA WalkIsOrder ==
  ASSUME NEW D, NEW l \in List(D), NEW s, Linked(l, s)
  PROVE  Walk(l) = s
<1> DEFINE Step(at) == [i \in 1..l.size |-> IF i = 1 THEN l.head ELSE l.node[at[i - 1]].next]
           w == CHOOSE at : at = Step(at)
<1>1. l.size \in Nat /\ s = [i \in 1..l.size |-> s[i]]
  BY DEF List, Linked
<1>2. \A i \in 1..l.size : s[i] = IF i = 1 THEN l.head ELSE l.node[s[i - 1]].next
  <2>1. ASSUME NEW i \in 1..l.size, i # 1 PROVE s[i] = l.node[s[i - 1]].next
    <3>1. i - 1 \in 1..l.size /\ (i - 1) + 1 = i
      BY <1>1, <2>1
    <3>2. QED
      BY <3>1 DEF Linked, At
  <2>2. 1 \in 1..l.size => s[1] = l.head
    BY DEF Linked, At
  <2>3. QED
    BY <2>1, <2>2
<1>3. s = Step(s)
  BY <1>1, <1>2
<1>4. w = Step(w)
  BY <1>3
<1>5. Walk(l) = w
  BY DEF Walk
<1> HIDE DEF w
<1>6. w = [i \in 1..l.size |-> w[i]]
  BY <1>4
<1>7. \A i \in 1..l.size : w[i] = IF i = 1 THEN l.head ELSE l.node[w[i - 1]].next
  BY <1>4
<1>8. \A i \in 1..l.size : (i = 1 \/ s[i - 1] = w[i - 1]) => s[i] = w[i]
  BY <1>2, <1>7
<1>9. \A i \in 1..l.size : s[i] = w[i]
  <2> DEFINE apart == {i \in 1..l.size : s[i] # w[i]}
  <2>1. ASSUME NEW i \in apart PROVE i - 1 \in apart /\ i - 1 < i
    <3>1. i \in 1..l.size /\ s[i] # w[i]
      OBVIOUS
    <3>2. i # 1 /\ s[i - 1] # w[i - 1]
      BY <1>8, <3>1
    <3>3. i - 1 \in 1..l.size /\ i - 1 < i
      BY <1>1, <3>1, <3>2
    <3>4. QED
      BY <3>2, <3>3
  <2>2. apart \in SUBSET Nat
    BY <1>1
  <2> HIDE DEF apart
  <2>3. apart = {}
    BY <2>1, <2>2, NoFirst
  <2>4. QED
    BY <2>3 DEF apart
<1>10. s = w
  <2>1. [i \in 1..l.size |-> s[i]] = [i \in 1..l.size |-> w[i]]
    BY <1>9
  <2>2. QED
    BY <1>1, <1>6, <2>1
<1>11. QED
  BY <1>5, <1>10

LEMMA WalkBackIsOrder ==
  ASSUME NEW D, NEW l \in List(D), NEW s, Linked(l, s)
  PROVE  WalkBack(l) = [i \in 1..l.size |-> s[l.size + 1 - i]]
<1> DEFINE Step(at) == [i \in 1..l.size |-> IF i = 1 THEN l.tail ELSE l.node[at[i - 1]].prev]
           w == CHOOSE at : at = Step(at)
           r == [i \in 1..l.size |-> s[l.size + 1 - i]]
<1>1. l.size \in Nat /\ s = [i \in 1..l.size |-> s[i]] /\ r = [i \in 1..l.size |-> r[i]]
  BY DEF List, Linked
<1>2. \A i \in 1..l.size : r[i] = IF i = 1 THEN l.tail ELSE l.node[r[i - 1]].prev
  <2>1. ASSUME NEW i \in 1..l.size, i = 1 PROVE r[i] = l.tail
    BY <1>1, <2>1 DEF Linked, At
  <2>2. ASSUME NEW i \in 1..l.size, i # 1 PROVE r[i] = l.node[r[i - 1]].prev
    <3>1. /\ i - 1 \in 1..l.size /\ l.size + 1 - i \in 1..l.size
          /\ l.size + 2 - i \in 1..l.size /\ (l.size + 2 - i) - 1 = l.size + 1 - i
          /\ l.size + 1 - (i - 1) = l.size + 2 - i
      BY <1>1, <2>2
    <3>2. r[i - 1] = s[l.size + 2 - i] /\ r[i] = s[l.size + 1 - i]
      BY <3>1
    <3>3. l.node[s[l.size + 2 - i]].prev = s[l.size + 1 - i]
      BY <3>1 DEF Linked, At
    <3>4. QED
      BY <3>2, <3>3
  <2>3. QED
    BY <2>1, <2>2
<1> HIDE DEF r
<1>3. r = Step(r)
  BY <1>1, <1>2
<1>4. w = Step(w)
  BY <1>3
<1>5. WalkBack(l) = w
  BY DEF WalkBack
<1> HIDE DEF w
<1>6. w = [i \in 1..l.size |-> w[i]]
  BY <1>4
<1>7. \A i \in 1..l.size : w[i] = IF i = 1 THEN l.tail ELSE l.node[w[i - 1]].prev
  BY <1>4
<1>8. \A i \in 1..l.size : (i = 1 \/ r[i - 1] = w[i - 1]) => r[i] = w[i]
  BY <1>2, <1>7
<1>9. \A i \in 1..l.size : r[i] = w[i]
  <2> DEFINE apart == {i \in 1..l.size : r[i] # w[i]}
  <2>1. ASSUME NEW i \in apart PROVE i - 1 \in apart /\ i - 1 < i
    <3>1. i \in 1..l.size /\ r[i] # w[i]
      OBVIOUS
    <3>2. i # 1 /\ r[i - 1] # w[i - 1]
      BY <1>8, <3>1
    <3>3. i - 1 \in 1..l.size /\ i - 1 < i
      BY <1>1, <3>1, <3>2
    <3>4. QED
      BY <3>2, <3>3
  <2>2. apart \in SUBSET Nat
    BY <1>1
  <2> HIDE DEF apart
  <2>3. apart = {}
    BY <2>1, <2>2, NoFirst
  <2>4. QED
    BY <2>3 DEF apart
<1>10. r = w
  <2>1. [i \in 1..l.size |-> r[i]] = [i \in 1..l.size |-> w[i]]
    BY <1>9
  <2>2. QED
    BY <1>1, <1>6, <2>1
<1>11. QED
  BY <1>5, <1>10 DEF r

LEMMA GetNthNodeIsAt ==
  ASSUME NEW D, NEW l \in List(D), NEW s, Linked(l, s), NEW n \in Nat
  PROVE  GetNthNode(l, n) = At(s, l.size, n + 1)
<1>1. l.size \in Nat
  BY DEF List
<1>2. Walk(l) = s /\ WalkBack(l) = [i \in 1..l.size |-> s[l.size + 1 - i]]
  BY WalkIsOrder, WalkBackIsOrder
<1>3. CASE n >= l.size
  BY <1>1, <1>3 DEF GetNthNode, At
<1>4. CASE n < l.size
  <2>1. /\ n + 1 \in 1..l.size /\ l.size - n \in 1..l.size
        /\ l.size + 1 - (l.size - n) = n + 1 /\ ~ (n >= l.size)
    BY <1>1, <1>4
  <2>2. Walk(l)[n + 1] = s[n + 1]
    BY <1>2
  <2>3. WalkBack(l)[l.size - n] = s[n + 1]
    BY <1>2, <2>1
  <2>4. GetNthNode(l, n) = s[n + 1]
    BY <2>1, <2>2, <2>3 DEF GetNthNode
  <2>5. QED
    BY <2>1, <2>4 DEF At
<1>5. QED
  BY <1>1, <1>3, <1>4

-----------------------------------------------------------------------------
(* Writing a link.                                                          *)

LEMMA NodeParts ==
  ASSUME NEW D, NULL \notin Node(D), NEW l \in List(D), NEW x \in Allocated(l)
  PROVE  /\ x \in Addr /\ x # NULL /\ l.node[x] \in Node(D)
         /\ l.node[x].data \in D /\ l.node[x].prev \in Pointer /\ l.node[x].next \in Pointer
<1>1. x \in Addr /\ l.node[x] \in Node(D)
  BY DEF Allocated, List
<1>2. QED
  BY <1>1, AddrAssumption DEF Node

LEMMA SetNextSound ==
  ASSUME NEW D, NULL \notin Node(D), NEW l \in List(D), NEW x \in Allocated(l) \cup {NULL},
         NEW p \in Pointer,
         NEW after, after = SetNext(l, x, p)
  PROVE  /\ after \in List(D)
         /\ after.head = (IF x = NULL THEN p ELSE l.head)
         /\ after.tail = l.tail /\ after.size = l.size
         /\ Allocated(after) = Allocated(l)
         /\ \A y \in Allocated(l) :
               /\ after.node[y].data = l.node[y].data
               /\ after.node[y].prev = l.node[y].prev
               /\ after.node[y].next = (IF y = x THEN p ELSE l.node[y].next)
<1>1. CASE x = NULL
  <2>1. after = [l EXCEPT !.head = p]
    BY <1>1 DEF SetNext
  <2>2. /\ after \in List(D) /\ after.node = l.node /\ after.head = p
        /\ after.tail = l.tail /\ after.size = l.size
    BY <2>1 DEF List
  <2>3. \A y \in Allocated(l) : y # x
    BY <1>1, NodeParts
  <2>4. Allocated(after) = Allocated(l)
    BY <2>2 DEF Allocated
  <2>5. QED
    BY <1>1, <2>2, <2>3, <2>4
<1>2. CASE x # NULL
  <2>1. x \in Allocated(l) /\ x \in Addr /\ l.node[x] \in Node(D)
    BY <1>2, NodeParts
  <2> DEFINE n == [l.node[x] EXCEPT !.next = p]
  <2>2. /\ n \in Node(D) /\ n.data = l.node[x].data /\ n.prev = l.node[x].prev
        /\ n.next = p
    BY <2>1 DEF Node
  <2>3. after = [l EXCEPT !.node[x].next = p]
    BY <1>2 DEF SetNext
  <2>4. after = [l EXCEPT !.node = [l.node EXCEPT ![x] = n]]
    BY <2>3, <2>1 DEF List
  <2> HIDE DEF n
  <2>5. /\ after.node = [l.node EXCEPT ![x] = n] /\ after.head = l.head
        /\ after.tail = l.tail /\ after.size = l.size
    BY <2>4 DEF List
  <2>6. l.node \in [Addr -> Node(D) \cup {NULL}]
    BY DEF List
  <2>7. [l.node EXCEPT ![x] = n] \in [Addr -> Node(D) \cup {NULL}]
    BY <2>2, <2>6
  <2>8. after \in List(D)
    BY <2>4, <2>7 DEF List
  <2>9. \A y \in Addr : after.node[y] = IF y = x THEN n ELSE l.node[y]
    BY <2>1, <2>5, <2>6
  <2>10. Allocated(after) = Allocated(l)
    BY <2>1, <2>2, <2>9, Zenon DEF Allocated
  <2>11. \A y \in Allocated(l) : y \in Addr
    BY DEF Allocated
  <2>12. \A y \in Allocated(l) :
           /\ after.node[y].data = l.node[y].data
           /\ after.node[y].prev = l.node[y].prev
           /\ after.node[y].next = (IF y = x THEN p ELSE l.node[y].next)
    BY <2>2, <2>9, <2>11
  <2>13. QED
    BY <1>2, <2>5, <2>8, <2>10, <2>12
<1>3. QED
  BY <1>1, <1>2

LEMMA SetPrevSound ==
  ASSUME NEW D, NULL \notin Node(D), NEW l \in List(D), NEW x \in Allocated(l) \cup {NULL},
         NEW p \in Pointer,
         NEW after, after = SetPrev(l, x, p)
  PROVE  /\ after \in List(D)
         /\ after.tail = (IF x = NULL THEN p ELSE l.tail)
         /\ after.head = l.head /\ after.size = l.size
         /\ Allocated(after) = Allocated(l)
         /\ \A y \in Allocated(l) :
               /\ after.node[y].data = l.node[y].data
               /\ after.node[y].prev = (IF y = x THEN p ELSE l.node[y].prev)
               /\ after.node[y].next = l.node[y].next
<1>1. CASE x = NULL
  <2>1. after = [l EXCEPT !.tail = p]
    BY <1>1 DEF SetPrev
  <2>2. /\ after \in List(D) /\ after.node = l.node /\ after.tail = p
        /\ after.head = l.head /\ after.size = l.size
    BY <2>1 DEF List
  <2>3. \A y \in Allocated(l) : y # x
    BY <1>1, NodeParts
  <2>4. Allocated(after) = Allocated(l)
    BY <2>2 DEF Allocated
  <2>5. QED
    BY <1>1, <2>2, <2>3, <2>4
<1>2. CASE x # NULL
  <2>1. x \in Allocated(l) /\ x \in Addr /\ l.node[x] \in Node(D)
    BY <1>2, NodeParts
  <2> DEFINE n == [l.node[x] EXCEPT !.prev = p]
  <2>2. /\ n \in Node(D) /\ n.data = l.node[x].data /\ n.next = l.node[x].next
        /\ n.prev = p
    BY <2>1 DEF Node
  <2>3. after = [l EXCEPT !.node[x].prev = p]
    BY <1>2 DEF SetPrev
  <2>4. after = [l EXCEPT !.node = [l.node EXCEPT ![x] = n]]
    BY <2>3, <2>1 DEF List
  <2> HIDE DEF n
  <2>5. /\ after.node = [l.node EXCEPT ![x] = n] /\ after.head = l.head
        /\ after.tail = l.tail /\ after.size = l.size
    BY <2>4 DEF List
  <2>6. l.node \in [Addr -> Node(D) \cup {NULL}]
    BY DEF List
  <2>7. [l.node EXCEPT ![x] = n] \in [Addr -> Node(D) \cup {NULL}]
    BY <2>2, <2>6
  <2>8. after \in List(D)
    BY <2>4, <2>7 DEF List
  <2>9. \A y \in Addr : after.node[y] = IF y = x THEN n ELSE l.node[y]
    BY <2>1, <2>5, <2>6
  <2>10. Allocated(after) = Allocated(l)
    BY <2>1, <2>2, <2>9, Zenon DEF Allocated
  <2>11. \A y \in Allocated(l) : y \in Addr
    BY DEF Allocated
  <2>12. \A y \in Allocated(l) :
           /\ after.node[y].data = l.node[y].data
           /\ after.node[y].prev = (IF y = x THEN p ELSE l.node[y].prev)
           /\ after.node[y].next = l.node[y].next
    BY <2>2, <2>9, <2>11
  <2>13. QED
    BY <1>2, <2>5, <2>8, <2>10, <2>12
<1>3. QED
  BY <1>1, <1>2

\* A new node that nothing points to yet.
WithNode(l, a, n) == [l EXCEPT !.node[a] = n, !.size = @ + 1]

LEMMA MakeNodeSound ==
  ASSUME NEW D, NULL \notin Node(D), NEW l \in List(D), NEW a \in Unallocated(l),
         NEW n \in Node(D), NEW made, made = WithNode(l, a, n)
  PROVE  /\ made \in List(D) /\ made.size = l.size + 1
         /\ made.head = l.head /\ made.tail = l.tail
         /\ Allocated(made) = Allocated(l) \cup {a} /\ a \notin Allocated(l)
         /\ made.node[a] = n /\ \A y \in Allocated(l) : made.node[y] = l.node[y]
<1>1. a \in Addr /\ a \notin Allocated(l) /\ l.node \in [Addr -> Node(D) \cup {NULL}]
  BY DEF Unallocated, Allocated, List
<1>2. made \in List(D)
  <2> DEFINE nodes == [l.node EXCEPT ![a] = n]
  <2>1. nodes \in [Addr -> Node(D) \cup {NULL}]
    BY <1>1
  <2>2. made = [l EXCEPT !.node = nodes, !.size = l.size + 1]
    BY DEF List, WithNode
  <2> HIDE DEF nodes
  <2>3. l.size + 1 \in Nat
    BY DEF List
  <2>4. QED
    BY <2>1, <2>2, <2>3 DEF List
<1>3. /\ made.size = l.size + 1 /\ made.head = l.head /\ made.tail = l.tail
      /\ made.node = [l.node EXCEPT ![a] = n]
  BY DEF List, WithNode
<1>4. \A y \in Addr : made.node[y] = IF y = a THEN n ELSE l.node[y]
  BY <1>1, <1>3
<1>5. Allocated(made) = Allocated(l) \cup {a}
  <2>1. n # NULL
    OBVIOUS
  <2>2. \A y \in Addr : made.node[y] # NULL <=> y = a \/ l.node[y] # NULL
    BY <1>4, <2>1
  <2>3. QED
    BY <1>1, <2>2 DEF Allocated
<1>6. made.node[a] = n /\ \A y \in Allocated(l) : made.node[y] = l.node[y]
  BY <1>1, <1>4 DEF Allocated
<1>7. QED
  BY <1>1, <1>2, <1>3, <1>5, <1>6

\* A node goes back to the heap.
LEMMA FreeSound ==
  ASSUME NEW D, NULL \notin Node(D), NEW l \in List(D), NEW a \in Allocated(l),
         NEW after, after = Free(l, a)
  PROVE  /\ after \in List(D) /\ after.size = l.size
         /\ after.head = l.head /\ after.tail = l.tail
         /\ Allocated(after) = Allocated(l) \ {a}
         /\ \A y \in Allocated(after) : after.node[y] = l.node[y]
<1>1. a \in Addr /\ l.node \in [Addr -> Node(D) \cup {NULL}]
  BY DEF Allocated, List
<1>2. after \in List(D)
  BY <1>1 DEF Free, List
<1>3. /\ after.size = l.size /\ after.head = l.head /\ after.tail = l.tail
      /\ after.node = [l.node EXCEPT ![a] = NULL]
  BY DEF Free, List
<1>4. \A y \in Addr : after.node[y] = IF y = a THEN NULL ELSE l.node[y]
  BY <1>1, <1>3
<1>5. Allocated(after) = Allocated(l) \ {a}
  BY <1>1, <1>4 DEF Allocated
<1>6. \A y \in Allocated(after) : after.node[y] = l.node[y]
  BY <1>4, <1>5 DEF Allocated
<1>7. QED
  BY <1>2, <1>3, <1>5, <1>6

-----------------------------------------------------------------------------
(* Adding a node anywhere: ll_add_nth_node.                                 *)

\* The sequence s of n addresses with a put in at position k + 1.
Inserted(s, n, k, a) ==
    [i \in 1..(n + 1) |-> IF i <= k THEN s[i] ELSE IF i = k + 1 THEN a ELSE s[i - 1]]

\* What AddNthNode does to the links.
LinkedIn(l, after, a, prev, next) ==
    /\ after.size = l.size + 1 /\ Allocated(after) = Allocated(l) \cup {a}
    /\ after.head = (IF prev = NULL THEN a ELSE l.head)
    /\ after.tail = (IF next = NULL THEN a ELSE l.tail)
    /\ \A y \in Allocated(l) :
          /\ after.node[y].prev = (IF y = next THEN a ELSE l.node[y].prev)
          /\ after.node[y].next = (IF y = prev THEN a ELSE l.node[y].next)
    /\ after.node[a].prev = prev /\ after.node[a].next = next

LEMMA InsertedIsLinked ==
  ASSUME NEW l, l.size \in Nat, NEW s, Linked(l, s), NEW k \in 0..l.size,
         NEW a, a \notin Allocated(l), a # NULL, NULL \notin Allocated(l), NEW after,
         LinkedIn(l, after, a, At(s, l.size, k), At(s, l.size, k + 1))
  PROVE  Linked(after, Inserted(s, l.size, k, a))
<1>1. PICK n \in Nat : n = l.size
  OBVIOUS
<1> DEFINE prev == At(s, n, k)
           next == At(s, n, k + 1)
           t    == Inserted(s, n, k, a)
<1>2. k \in 0..n
  BY <1>1
<1>3. /\ after.size = n + 1 /\ Allocated(after) = Allocated(l) \cup {a}
      /\ after.head = (IF prev = NULL THEN a ELSE l.head)
      /\ after.tail = (IF next = NULL THEN a ELSE l.tail)
      /\ after.node[a].prev = prev /\ after.node[a].next = next
  BY <1>1 DEF LinkedIn
<1>4. \A y \in Allocated(l) :
         /\ after.node[y].prev = (IF y = next THEN a ELSE l.node[y].prev)
         /\ after.node[y].next = (IF y = prev THEN a ELSE l.node[y].next)
  BY <1>1 DEF LinkedIn
<1>5. /\ \A i \in 1..n : s[i] \in Allocated(l) /\ s[i] # NULL /\ s[i] # a
      /\ \A i, j \in 1..n : s[i] = s[j] => i = j
      /\ l.head = At(s, n, 1) /\ l.tail = At(s, n, n)
  BY <1>1 DEF Linked
<1>6. \A i \in 1..n :
         l.node[s[i]].prev = At(s, n, i - 1) /\ l.node[s[i]].next = At(s, n, i + 1)
  BY <1>1 DEF Linked
<1>7. /\ t = Inserted(s, n, k, a)
      /\ \A i \in 1..(n + 1) : t[i] = IF i <= k THEN s[i] ELSE IF i = k + 1 THEN a ELSE s[i - 1]
  BY DEF Inserted
<1>8. prev = At(s, n, k) /\ next = At(s, n, k + 1)
  OBVIOUS
<1> HIDE DEF prev, next, t
<1>9. /\ t[k + 1] = a
      /\ At(t, n + 1, k) = At(s, n, k) /\ At(t, n + 1, k + 2) = At(s, n, k + 1)
  BY <1>2, <1>7 DEF At
<1>10. \A i \in 1..k : /\ t[i] = s[i] /\ i \in 1..n
                      /\ At(t, n + 1, i - 1) = At(s, n, i - 1)
                      /\ At(t, n + 1, i + 1) = IF i = k THEN a ELSE At(s, n, i + 1)
  BY <1>2, <1>7 DEF At
<1>11. \A i \in (k + 2)..(n + 1) :
         /\ t[i] = s[i - 1] /\ i - 1 \in 1..n
         /\ At(t, n + 1, i - 1) = IF i = k + 2 THEN a ELSE At(s, n, i - 2)
         /\ At(t, n + 1, i + 1) = At(s, n, i)
  BY <1>2, <1>7 DEF At
<1>12. \A i \in 1..(n + 1) : i \in 1..k \/ i = k + 1 \/ i \in (k + 2)..(n + 1)
  BY <1>2
<1>13. t \in [1..(n + 1) -> Allocated(after)]
  <2>1. \A i \in 1..k : t[i] \in Allocated(l)
    BY <1>5, <1>10
  <2>2. \A i \in (k + 2)..(n + 1) : t[i] \in Allocated(l)
    BY <1>5, <1>11
  <2>3. \A i \in 1..(n + 1) : t[i] \in Allocated(l) \cup {a}
    BY <1>9, <1>12, <2>1, <2>2
  <2>4. t = [i \in 1..(n + 1) |-> t[i]]
    BY <1>7 DEF Inserted
  <2>5. QED
    BY <1>3, <2>3, <2>4
<1>14. \A i, j \in 1..(n + 1) : t[i] = t[j] => i = j
  <2> DEFINE from(i) == IF i <= k THEN i ELSE i - 1
  <2>1. \A i \in 1..(n + 1) : i # k + 1 => from(i) \in 1..n /\ t[i] = s[from(i)]
    BY <1>2, <1>10, <1>11, <1>12
  <2>2. \A i, j \in 1..(n + 1) : i # k + 1 /\ j # k + 1 /\ from(i) = from(j) => i = j
    BY <1>2
  <2> HIDE DEF from
  <2>3. \A i, j \in 1..(n + 1) : i # k + 1 /\ j # k + 1 /\ t[i] = t[j] => i = j
    BY <1>5, <2>1, <2>2
  <2>4. \A i \in 1..(n + 1) : i # k + 1 => t[i] # a
    BY <1>5, <2>1
  <2>5. QED
    BY <1>9, <2>3, <2>4
<1>15. after.head = At(t, n + 1, 1)
  <2>1. CASE k = 0
    <3>1. prev = NULL /\ At(t, n + 1, 1) = t[1]
      BY <1>2, <1>8, <2>1 DEF At
    <3>2. QED
      BY <1>3, <1>9, <2>1, <3>1
  <2>2. CASE k > 0
    <3>1. 1 \in 1..(n + 1) /\ 1 \in 1..k /\ k \in 1..n /\ 1 \in 1..n
      BY <1>2, <2>2
    <3>2. t[1] = s[1] /\ prev = s[k]
      BY <1>10, <1>8, <3>1 DEF At
    <3>3. prev # NULL
      BY <1>5, <3>1, <3>2
    <3>4. QED
      BY <1>3, <1>5, <3>1, <3>2, <3>3 DEF At
  <2>3. QED
    BY <1>2, <2>1, <2>2
<1>16. after.tail = At(t, n + 1, n + 1)
  <2>1. CASE k = n
    <3>1. next = NULL /\ At(t, n + 1, n + 1) = t[n + 1]
      BY <1>2, <1>8, <2>1 DEF At
    <3>2. QED
      BY <1>3, <1>9, <2>1, <3>1
  <2>2. CASE k < n
    <3>1. /\ n + 1 \in (k + 2)..(n + 1) /\ k + 1 \in 1..n /\ n \in 1..n
          /\ (n + 1) - 1 = n /\ n + 1 \in 1..(n + 1)
      BY <1>2, <2>2
    <3>2. t[n + 1] = s[n]
      BY <1>11, <3>1
    <3>3. next = s[k + 1]
      BY <1>8, <3>1 DEF At
    <3>4. next # NULL
      BY <1>5, <3>1, <3>3
    <3>5. QED
      BY <1>3, <1>5, <3>1, <3>2, <3>4 DEF At
  <2>3. QED
    BY <1>2, <2>1, <2>2
<1>17. ASSUME NEW i \in 1..n
       PROVE  /\ after.node[s[i]].prev = IF i = k + 1 THEN a ELSE At(s, n, i - 1)
              /\ after.node[s[i]].next = IF i = k THEN a ELSE At(s, n, i + 1)
  <2>1. (s[i] = prev) <=> (i = k)
    BY <1>2, <1>5, <1>8 DEF At
  <2>2. (s[i] = next) <=> (i = k + 1)
    BY <1>2, <1>5, <1>8 DEF At
  <2>3. /\ s[i] \in Allocated(l)
        /\ l.node[s[i]].prev = At(s, n, i - 1) /\ l.node[s[i]].next = At(s, n, i + 1)
    BY <1>5, <1>6
  <2>4. QED
    BY <1>4, <2>1, <2>2, <2>3
<1>18. ASSUME NEW i \in 1..(n + 1)
       PROVE  /\ after.node[t[i]].prev = At(t, n + 1, i - 1)
              /\ after.node[t[i]].next = At(t, n + 1, i + 1)
  <2>1. CASE i \in 1..k
    <3>1. i # k + 1 /\ i \in 1..n /\ t[i] = s[i]
      BY <1>2, <1>10, <2>1
    <3>2. /\ after.node[s[i]].prev = At(s, n, i - 1)
          /\ after.node[s[i]].next = IF i = k THEN a ELSE At(s, n, i + 1)
      BY <1>17, <3>1
    <3>3. /\ At(t, n + 1, i - 1) = At(s, n, i - 1)
          /\ At(t, n + 1, i + 1) = IF i = k THEN a ELSE At(s, n, i + 1)
      BY <1>10, <2>1
    <3>4. QED
      BY <3>1, <3>2, <3>3
  <2>2. CASE i = k + 1
    <3>1. i - 1 = k /\ i + 1 = k + 2
      BY <1>2, <2>2
    <3>2. QED
      BY <1>3, <1>9, <1>8, <2>2, <3>1
  <2>3. CASE i \in (k + 2)..(n + 1)
    <3>1. PICK j \in 1..n : /\ j = i - 1 /\ j # k /\ j - 1 = i - 2 /\ j + 1 = i
                            /\ (j = k + 1) <=> (i = k + 2)
      BY <1>2, <2>3
    <3>2. /\ after.node[s[j]].prev = IF i = k + 2 THEN a ELSE At(s, n, i - 2)
          /\ after.node[s[j]].next = At(s, n, i)
      BY <1>17, <3>1
    <3>3. /\ t[i] = s[j]
          /\ At(t, n + 1, i - 1) = IF i = k + 2 THEN a ELSE At(s, n, i - 2)
          /\ At(t, n + 1, i + 1) = At(s, n, i)
      BY <1>11, <2>3, <3>1
    <3>4. QED
      BY <3>2, <3>3
  <2>4. QED
    BY <1>12, <2>1, <2>2, <2>3
<1>19. QED
  BY <1>1, <1>3, <1>13, <1>14, <1>15, <1>16, <1>18 DEF Linked, t

LEMMA AddLinks ==
  ASSUME NEW D, NULL \notin Node(D), NEW l \in List(D), NEW s, Linked(l, s),
         NEW k \in 0..l.size, NEW a \in Unallocated(l), NEW data \in D,
         NEW prev, prev = At(s, l.size, k), NEW next, next = At(s, l.size, k + 1),
         NEW n, n = [data |-> data, prev |-> prev, next |-> next],
         NEW made, made = WithNode(l, a, n),
         NEW after, after = SetNext(SetPrev(made, next, a), prev, a)
  PROVE  /\ after \in List(D) /\ after.size = l.size + 1
         /\ Allocated(after) = Allocated(l) \cup {a} /\ a \notin Allocated(l)
         /\ after.node[a].data = data
         /\ \A y \in Allocated(l) : after.node[y].data = l.node[y].data
         /\ Linked(after, Inserted(s, l.size, k, a))
<1>1. l.size \in Nat /\ \A i \in 1..l.size : s[i] \in Allocated(l)
  BY DEF Linked, List
<1>2. a \in Addr /\ a # NULL /\ a \in Pointer /\ \A y \in Allocated(l) : y # NULL /\ y \in Pointer
  BY AddrAssumption DEF Unallocated, Allocated, Pointer
<1>3. prev \in Allocated(l) \cup {NULL} /\ next \in Allocated(l) \cup {NULL}
  BY <1>1 DEF At
<1>4. n \in Node(D) /\ n.data = data /\ n.prev = prev /\ n.next = next
  BY <1>2, <1>3 DEF Node, Pointer
<1>5. /\ made \in List(D) /\ made.size = l.size + 1
      /\ made.head = l.head /\ made.tail = l.tail
      /\ Allocated(made) = Allocated(l) \cup {a} /\ a \notin Allocated(l)
      /\ made.node[a] = n /\ \A y \in Allocated(l) : made.node[y] = l.node[y]
  BY <1>4, MakeNodeSound
<1>6. PICK mid : mid = SetPrev(made, next, a)
  OBVIOUS
<1>7. /\ mid \in List(D)
      /\ mid.tail = (IF next = NULL THEN a ELSE made.tail)
      /\ mid.head = made.head /\ mid.size = made.size
      /\ Allocated(mid) = Allocated(made)
      /\ \A y \in Allocated(made) :
            /\ mid.node[y].data = made.node[y].data
            /\ mid.node[y].prev = (IF y = next THEN a ELSE made.node[y].prev)
            /\ mid.node[y].next = made.node[y].next
  <2>1. next \in Allocated(made) \cup {NULL}
    BY <1>3, <1>5
  <2>2. made \in List(D) /\ a \in Pointer
    BY <1>2, <1>5
  <2>3. QED
    BY <1>6, <2>1, <2>2, SetPrevSound
<1>8. /\ after \in List(D)
      /\ after.head = (IF prev = NULL THEN a ELSE mid.head)
      /\ after.tail = mid.tail /\ after.size = mid.size
      /\ Allocated(after) = Allocated(mid)
      /\ \A y \in Allocated(mid) :
            /\ after.node[y].data = mid.node[y].data
            /\ after.node[y].prev = mid.node[y].prev
            /\ after.node[y].next = (IF y = prev THEN a ELSE mid.node[y].next)
  <2>1. prev \in Allocated(mid) \cup {NULL} /\ after = SetNext(mid, prev, a)
    BY <1>3, <1>5, <1>6, <1>7
  <2>2. QED
    BY <1>2, <1>7, <2>1, SetNextSound
<1>9. /\ after.size = l.size + 1 /\ Allocated(after) = Allocated(l) \cup {a}
      /\ after.head = (IF prev = NULL THEN a ELSE l.head)
      /\ after.tail = (IF next = NULL THEN a ELSE l.tail)
  BY <1>5, <1>7, <1>8
<1>10. \A y \in Allocated(l) :
         /\ after.node[y].data = l.node[y].data
         /\ after.node[y].prev = (IF y = next THEN a ELSE l.node[y].prev)
         /\ after.node[y].next = (IF y = prev THEN a ELSE l.node[y].next)
  BY <1>5, <1>7, <1>8
<1>11. after.node[a].data = data /\ after.node[a].prev = prev /\ after.node[a].next = next
  BY <1>2, <1>3, <1>4, <1>5, <1>7, <1>8
<1>12. Linked(after, Inserted(s, l.size, k, a))
  <2>1. NULL \notin Allocated(l) /\ a \notin Allocated(l) /\ a # NULL /\ l.size \in Nat
    BY <1>1, <1>2, <1>5
  <2>2. LinkedIn(l, after, a, prev, next)
    BY <1>9, <1>10, <1>11 DEF LinkedIn
  <2>3. QED
    BY <2>1, <2>2, InsertedIsLinked
<1>13. QED
  BY <1>5, <1>8, <1>9, <1>10, <1>11, <1>12

LEMMA AddNthNodeSound ==
  ASSUME NEW D, NULL \notin Node(D), NEW l \in List(D), NEW s, Linked(l, s),
         NEW k \in 0..l.size, NEW a \in Unallocated(l), NEW data \in D,
         NEW after, after = AddNthNode(l, k, a, data)
  PROVE  /\ after \in List(D) /\ after.size = l.size + 1
         /\ Allocated(after) = Allocated(l) \cup {a} /\ a \notin Allocated(l)
         /\ after.node[a].data = data
         /\ \A y \in Allocated(l) : after.node[y].data = l.node[y].data
         /\ Linked(after, Inserted(s, l.size, k, a))
<1> DEFINE prev == IF k = 0 THEN NULL ELSE IF k = l.size THEN l.tail ELSE GetNthNode(l, k - 1)
           next == IF prev = NULL THEN l.head ELSE l.node[prev].next
           n    == [data |-> data, prev |-> prev, next |-> next]
<1>1. PICK size \in Nat : size = l.size
  BY DEF List
<1>2. /\ \A i \in 1..size : s[i] # NULL /\ l.node[s[i]].next = At(s, size, i + 1)
      /\ l.head = At(s, size, 1) /\ l.tail = At(s, size, size)
  <2>1. \A i \in 1..size : s[i] \in Allocated(l)
    BY <1>1 DEF Linked
  <2>2. \A y \in Allocated(l) : y # NULL
    BY AddrAssumption DEF Allocated
  <2>3. QED
    BY <1>1, <2>1, <2>2 DEF Linked
<1>3. prev = At(s, size, k)
  <2>1. CASE k = 0
    BY <2>1 DEF At
  <2>2. CASE k # 0 /\ k = size
    BY <1>1, <1>2, <2>2
  <2>3. CASE k # 0 /\ k # size
    <3>1. k - 1 \in Nat /\ (k - 1) + 1 = k
      BY <1>1, <2>3
    <3>2. GetNthNode(l, k - 1) = At(s, l.size, (k - 1) + 1)
      BY <3>1, GetNthNodeIsAt
    <3>3. QED
      BY <1>1, <2>3, <3>1, <3>2
  <2>4. QED
    BY <2>1, <2>2, <2>3
<1> HIDE DEF prev
<1>4. next = At(s, size, k + 1)
  <2>1. CASE k = 0
    <3>1. prev = NULL
      BY <1>3, <2>1 DEF At
    <3>2. QED
      BY <1>2, <2>1, <3>1
  <2>2. CASE k # 0
    <3>1. k \in 1..size
      BY <1>1, <2>2
    <3>2. prev = s[k]
      BY <1>3, <3>1 DEF At
    <3>3. QED
      BY <1>2, <3>1, <3>2
  <2>3. QED
    BY <2>1, <2>2
<1>5. after = SetNext(SetPrev(WithNode(l, a, n), next, a), prev, a)
  BY DEF AddNthNode, WithNode, prev
<1> HIDE DEF next, n
<1>6. n = [data |-> data, prev |-> prev, next |-> next]
  BY DEF n
<1>7. PICK made : made = WithNode(l, a, n)
  OBVIOUS
<1>8. /\ prev = At(s, l.size, k) /\ next = At(s, l.size, k + 1)
      /\ after = SetNext(SetPrev(made, next, a), prev, a)
  BY <1>1, <1>3, <1>4, <1>5, <1>7
<1>9. QED
  BY <1>6, <1>7, <1>8, AddLinks

-----------------------------------------------------------------------------
(* Taking a node out: ll_remove_node and ll_remove_nth_node.                *)

\* The sequence s of n addresses without the one at position k.
Without(s, n, k) == [i \in 1..(n - 1) |-> IF i < k THEN s[i] ELSE s[i + 1]]

\* What Unlink does to the links.
LinkedOut(l, after, prev, next) ==
    /\ after.size = l.size - 1 /\ Allocated(after) = Allocated(l)
    /\ after.head = (IF prev = NULL THEN next ELSE l.head)
    /\ after.tail = (IF next = NULL THEN prev ELSE l.tail)
    /\ \A y \in Allocated(l) :
          /\ after.node[y].prev = (IF y = next THEN prev ELSE l.node[y].prev)
          /\ after.node[y].next = (IF y = prev THEN next ELSE l.node[y].next)

LEMMA WithoutIsLinked ==
  ASSUME NEW l, l.size \in Nat, NEW s, Linked(l, s), NEW k \in 1..l.size,
         NULL \notin Allocated(l), NEW after,
         LinkedOut(l, after, At(s, l.size, k - 1), At(s, l.size, k + 1))
  PROVE  /\ Linked(after, Without(s, l.size, k))
         /\ \A i \in 1..after.size : Without(s, l.size, k)[i] # s[k]
<1>1. PICK n \in Nat : n = l.size
  OBVIOUS
<1> DEFINE prev == At(s, n, k - 1)
           next == At(s, n, k + 1)
           t    == Without(s, n, k)
<1>2. k \in 1..n /\ n - 1 \in Nat
  BY <1>1
<1>3. /\ after.size = n - 1 /\ Allocated(after) = Allocated(l)
      /\ after.head = (IF prev = NULL THEN next ELSE l.head)
      /\ after.tail = (IF next = NULL THEN prev ELSE l.tail)
  BY <1>1 DEF LinkedOut
<1>4. \A y \in Allocated(l) :
         /\ after.node[y].prev = (IF y = next THEN prev ELSE l.node[y].prev)
         /\ after.node[y].next = (IF y = prev THEN next ELSE l.node[y].next)
  BY <1>1 DEF LinkedOut
<1>5. /\ \A i \in 1..n : s[i] \in Allocated(l) /\ s[i] # NULL
      /\ \A i, j \in 1..n : s[i] = s[j] => i = j
      /\ l.head = At(s, n, 1) /\ l.tail = At(s, n, n)
  BY <1>1 DEF Linked
<1>6. \A i \in 1..n :
         l.node[s[i]].prev = At(s, n, i - 1) /\ l.node[s[i]].next = At(s, n, i + 1)
  BY <1>1 DEF Linked
<1>7. /\ t = Without(s, n, k)
      /\ \A i \in 1..(n - 1) : t[i] = IF i < k THEN s[i] ELSE s[i + 1]
  BY DEF Without
<1>8. prev = At(s, n, k - 1) /\ next = At(s, n, k + 1)
  OBVIOUS
<1> HIDE DEF prev, next, t
<1>9. \A i \in 1..(n - 1) :
         i < k => /\ t[i] = s[i] /\ i \in 1..n
                  /\ At(t, n - 1, i - 1) = At(s, n, i - 1)
                  /\ At(t, n - 1, i + 1) = IF i = k - 1 THEN next ELSE At(s, n, i + 1)
  BY <1>2, <1>7, <1>8 DEF At
<1>10. \A i \in 1..(n - 1) :
          i >= k => /\ t[i] = s[i + 1] /\ i + 1 \in 1..n
                    /\ At(t, n - 1, i - 1) = IF i = k THEN prev ELSE At(s, n, i)
                    /\ At(t, n - 1, i + 1) = At(s, n, i + 2)
  BY <1>2, <1>7, <1>8 DEF At
<1>11. t \in [1..(n - 1) -> Allocated(after)]
  <2>1. \A i \in 1..(n - 1) : i < k \/ i >= k
    BY <1>2
  <2>2. \A i \in 1..(n - 1) : t[i] \in Allocated(l)
    BY <1>5, <1>9, <1>10, <2>1
  <2>3. t = [i \in 1..(n - 1) |-> t[i]]
    BY <1>7 DEF Without
  <2>4. QED
    BY <1>3, <2>2, <2>3
<1>12. /\ \A i, j \in 1..(n - 1) : t[i] = t[j] => i = j
       /\ \A i \in 1..(n - 1) : t[i] # s[k]
  <2> DEFINE from(i) == IF i < k THEN i ELSE i + 1
  <2>1. \A i \in 1..(n - 1) : from(i) \in 1..n /\ from(i) # k /\ t[i] = s[from(i)]
    BY <1>2, <1>7
  <2>2. \A i, j \in 1..(n - 1) : from(i) = from(j) => i = j
    BY <1>2
  <2> HIDE DEF from
  <2>3. QED
    BY <1>2, <1>5, <2>1, <2>2
<1>13. after.head = At(t, n - 1, 1)
  <2>1. CASE k = 1
    <3>1. prev = NULL /\ next = At(t, n - 1, 1)
      BY <1>2, <1>7, <1>8, <2>1 DEF At
    <3>2. QED
      BY <1>3, <3>1
  <2>2. CASE k > 1
    <3>1. 1 \in 1..(n - 1) /\ 1 < k /\ k - 1 \in 1..n /\ 1 \in 1..n
      BY <1>2, <2>2
    <3>2. t[1] = s[1] /\ prev = s[k - 1]
      BY <1>8, <1>9, <3>1 DEF At
    <3>3. prev # NULL
      BY <1>5, <3>1, <3>2
    <3>4. QED
      BY <1>3, <1>5, <3>1, <3>2, <3>3 DEF At
  <2>3. QED
    BY <1>2, <2>1, <2>2
<1>14. after.tail = At(t, n - 1, n - 1)
  <2>1. CASE k = n
    <3>1. next = NULL /\ prev = At(t, n - 1, n - 1)
      BY <1>2, <1>7, <1>8, <2>1 DEF At
    <3>2. QED
      BY <1>3, <3>1
  <2>2. CASE k < n
    <3>1. /\ n - 1 \in 1..(n - 1) /\ n - 1 >= k /\ k + 1 \in 1..n /\ n \in 1..n
          /\ (n - 1) + 1 = n
      BY <1>2, <2>2
    <3>2. t[n - 1] = s[n]
      BY <1>10, <3>1
    <3>3. next = s[k + 1]
      BY <1>8, <3>1 DEF At
    <3>4. next # NULL
      BY <1>5, <3>1, <3>3
    <3>5. QED
      BY <1>3, <1>5, <3>1, <3>2, <3>4 DEF At
  <2>3. QED
    BY <1>2, <2>1, <2>2
<1>15. ASSUME NEW i \in 1..n
       PROVE  /\ after.node[s[i]].prev = IF i = k + 1 THEN prev ELSE At(s, n, i - 1)
              /\ after.node[s[i]].next = IF i = k - 1 THEN next ELSE At(s, n, i + 1)
  <2>1. (s[i] = prev) <=> (i = k - 1)
    BY <1>2, <1>5, <1>8 DEF At
  <2>2. (s[i] = next) <=> (i = k + 1)
    BY <1>2, <1>5, <1>8 DEF At
  <2>3. /\ s[i] \in Allocated(l)
        /\ l.node[s[i]].prev = At(s, n, i - 1) /\ l.node[s[i]].next = At(s, n, i + 1)
    BY <1>5, <1>6
  <2>4. QED
    BY <1>4, <2>1, <2>2, <2>3
<1>16. ASSUME NEW i \in 1..(n - 1)
       PROVE  /\ after.node[t[i]].prev = At(t, n - 1, i - 1)
              /\ after.node[t[i]].next = At(t, n - 1, i + 1)
  <2>1. CASE i < k
    <3>1. i # k + 1 /\ i \in 1..n /\ t[i] = s[i]
      BY <1>2, <1>9, <2>1
    <3>2. /\ after.node[s[i]].prev = At(s, n, i - 1)
          /\ after.node[s[i]].next = IF i = k - 1 THEN next ELSE At(s, n, i + 1)
      BY <1>15, <3>1
    <3>3. /\ At(t, n - 1, i - 1) = At(s, n, i - 1)
          /\ At(t, n - 1, i + 1) = IF i = k - 1 THEN next ELSE At(s, n, i + 1)
      BY <1>9, <2>1
    <3>4. QED
      BY <3>1, <3>2, <3>3
  <2>2. CASE i >= k
    <3>1. PICK j \in 1..n : /\ j = i + 1 /\ j # k - 1 /\ j - 1 = i /\ j + 1 = i + 2
                            /\ (j = k + 1) <=> (i = k)
      BY <1>2, <2>2
    <3>2. /\ after.node[s[j]].prev = IF i = k THEN prev ELSE At(s, n, i)
          /\ after.node[s[j]].next = At(s, n, i + 2)
      BY <1>15, <3>1
    <3>3. /\ t[i] = s[j]
          /\ At(t, n - 1, i - 1) = IF i = k THEN prev ELSE At(s, n, i)
          /\ At(t, n - 1, i + 1) = At(s, n, i + 2)
      BY <1>10, <2>2, <3>1
    <3>4. QED
      BY <3>2, <3>3
  <2>3. QED
    BY <1>2, <2>1, <2>2
<1>17. QED
  BY <1>1, <1>3, <1>11, <1>12, <1>13, <1>14, <1>16 DEF Linked, t

LEMMA UnlinkSound ==
  ASSUME NEW D, NULL \notin Node(D), NEW l \in List(D), NEW s, Linked(l, s),
         NEW k \in 1..l.size, NEW x, x = s[k], NEW after, after = Unlink(l, x)
  PROVE  /\ after \in List(D) /\ after.size = l.size - 1
         /\ Allocated(after) = Allocated(l) /\ x \in Allocated(l)
         /\ \A y \in Allocated(l) : after.node[y].data = l.node[y].data
         /\ Linked(after, Without(s, l.size, k))
         /\ \A i \in 1..after.size : Without(s, l.size, k)[i] # x
<1>1. PICK size \in Nat : size = l.size
  BY DEF List
<1>2. PICK prev, next : prev = l.node[x].prev /\ next = l.node[x].next
  OBVIOUS
<1>3. /\ prev = At(s, l.size, k - 1) /\ next = At(s, l.size, k + 1)
      /\ x \in Allocated(l) /\ \A i \in 1..l.size : s[i] \in Allocated(l)
  BY <1>1, <1>2 DEF Linked
<1>4. NULL \notin Allocated(l) /\ \A y \in Allocated(l) : y \in Pointer
  BY AddrAssumption DEF Allocated, Pointer
<1>5. /\ prev \in Allocated(l) \cup {NULL} /\ prev \in Pointer
      /\ next \in Allocated(l) \cup {NULL} /\ next \in Pointer
  <2>1. prev \in Allocated(l) \cup {NULL}
    BY <1>3 DEF At
  <2>2. next \in Allocated(l) \cup {NULL}
    BY <1>3 DEF At
  <2>3. NULL \in Pointer
    BY DEF Pointer
  <2>4. QED
    BY <1>4, <2>1, <2>2, <2>3
<1>6. PICK one : one = SetNext(l, prev, next)
  OBVIOUS
<1>7. /\ one \in List(D)
      /\ one.head = (IF prev = NULL THEN next ELSE l.head)
      /\ one.tail = l.tail /\ one.size = l.size
      /\ Allocated(one) = Allocated(l)
      /\ \A y \in Allocated(l) :
            /\ one.node[y].data = l.node[y].data
            /\ one.node[y].prev = l.node[y].prev
            /\ one.node[y].next = (IF y = prev THEN next ELSE l.node[y].next)
  <2>1. prev \in Allocated(l) \cup {NULL}
    BY <1>5
  <2>2. next \in Pointer
    BY <1>5
  <2>3. QED
    BY <1>6, <2>1, <2>2, SetNextSound
<1>8. PICK two : two = SetPrev(one, next, prev)
  OBVIOUS
<1>9. /\ two \in List(D)
      /\ two.tail = (IF next = NULL THEN prev ELSE one.tail)
      /\ two.head = one.head /\ two.size = one.size
      /\ Allocated(two) = Allocated(one)
      /\ \A y \in Allocated(one) :
            /\ two.node[y].data = one.node[y].data
            /\ two.node[y].prev = (IF y = next THEN prev ELSE one.node[y].prev)
            /\ two.node[y].next = one.node[y].next
  <2>1. next \in Allocated(one) \cup {NULL}
    BY <1>5, <1>7
  <2>2. one \in List(D) /\ prev \in Pointer
    BY <1>5, <1>7
  <2>3. QED
    BY <1>8, <2>1, <2>2, SetPrevSound
<1>10. after = [two EXCEPT !.size = two.size - 1]
  BY <1>2, <1>6, <1>8 DEF Unlink
<1>11. /\ after \in List(D) /\ after.size = l.size - 1
       /\ after.head = two.head /\ after.tail = two.tail /\ after.node = two.node
  <2>1. two.size = size /\ size - 1 \in Nat
    BY <1>1, <1>7, <1>9
  <2>2. QED
    BY <1>1, <1>9, <1>10, <2>1 DEF List
<1>12. Allocated(after) = Allocated(l)
  BY <1>7, <1>9, <1>11 DEF Allocated
<1>13. \A y \in Allocated(l) :
          /\ after.node[y].data = l.node[y].data
          /\ after.node[y].prev = (IF y = next THEN prev ELSE l.node[y].prev)
          /\ after.node[y].next = (IF y = prev THEN next ELSE l.node[y].next)
  BY <1>7, <1>9, <1>11
<1>14. LinkedOut(l, after, prev, next)
  BY <1>7, <1>9, <1>11, <1>12, <1>13 DEF LinkedOut
<1>15. /\ Linked(after, Without(s, l.size, k))
       /\ \A i \in 1..after.size : Without(s, l.size, k)[i] # s[k]
  <2>1. l.size \in Nat
    BY <1>1
  <2>2. QED
    BY <1>3, <1>4, <1>14, <2>1, WithoutIsLinked
<1>16. QED
  BY <1>3, <1>11, <1>12, <1>13, <1>15

LEMMA FreeKeepsLinks ==
  ASSUME NEW D, NULL \notin Node(D), NEW l \in List(D), NEW s, Linked(l, s),
         NEW x \in Allocated(l), \A i \in 1..l.size : s[i] # x,
         NEW after, after = Free(l, x)
  PROVE  Linked(after, s)
<1>1. /\ after.size = l.size /\ after.head = l.head /\ after.tail = l.tail
      /\ Allocated(after) = Allocated(l) \ {x}
      /\ \A y \in Allocated(after) : after.node[y] = l.node[y]
  BY FreeSound
<1>2. s \in [1..l.size -> Allocated(l)]
  BY DEF Linked
<1>3. s \in [1..l.size -> Allocated(after)]
  BY <1>1, <1>2
<1>4. \A i \in 1..l.size : after.node[s[i]] = l.node[s[i]]
  BY <1>1, <1>3
<1>5. QED
  BY <1>1, <1>3, <1>4 DEF Linked

-----------------------------------------------------------------------------
(* The operations on a whole list.                                          *)

\* The list l and the sequence s of its nodes, with nothing else allocated.
Lists(l, s) == Linked(l, s) /\ Complete(l, s)

LEMMA AddLastSound ==
  ASSUME NEW D, NULL \notin Node(D), NEW l \in List(D), NEW s, Lists(l, s),
         NEW a \in Unallocated(l), NEW data \in D,
         NEW after, after = AddNthNode(l, l.size, a, data)
  PROVE  /\ after \in List(D) /\ after.size = l.size + 1
         /\ Allocated(after) = Allocated(l) \cup {a} /\ a \notin Allocated(l)
         /\ after.node[a].data = data
         /\ \A y \in Allocated(l) : after.node[y].data = l.node[y].data
         /\ Lists(after, Inserted(s, l.size, l.size, a))
<1>1. PICK size \in Nat : size = l.size
  BY DEF List
<1>2. PICK k \in 0..l.size : k = l.size
  BY <1>1
<1>3. after = AddNthNode(l, k, a, data) /\ Linked(l, s)
  BY <1>2 DEF Lists
<1>4. /\ after \in List(D) /\ after.size = l.size + 1
      /\ Allocated(after) = Allocated(l) \cup {a} /\ a \notin Allocated(l)
      /\ after.node[a].data = data
      /\ \A y \in Allocated(l) : after.node[y].data = l.node[y].data
      /\ Linked(after, Inserted(s, l.size, k, a))
  BY <1>3, AddNthNodeSound
<1>5. PICK t : t = Inserted(s, l.size, l.size, a)
  OBVIOUS
<1>6. /\ \A i \in 1..size : i \in 1..(size + 1) /\ t[i] = s[i]
      /\ size + 1 \in 1..(size + 1) /\ t[size + 1] = a
  BY <1>1, <1>5 DEF Inserted
<1>7. Complete(after, t)
  <2>1. ASSUME NEW y \in Allocated(l) PROVE \E i \in 1..(size + 1) : t[i] = y
    <3>1. PICK i \in 1..size : s[i] = y
      BY <1>1 DEF Lists, Complete
    <3>2. QED
      BY <1>6, <3>1
  <2>2. \E i \in 1..(size + 1) : t[i] = a
    BY <1>6
  <2>3. QED
    BY <1>1, <1>4, <2>1, <2>2 DEF Complete
<1>8. QED
  BY <1>2, <1>4, <1>5, <1>7 DEF Lists

LEMMA RemoveNodeSound ==
  ASSUME NEW D, NULL \notin Node(D), NEW l \in List(D), NEW s, Lists(l, s),
         NEW k \in 1..l.size, NEW x, x = s[k], NEW after, after = RemoveNode(l, x)
  PROVE  /\ after \in List(D) /\ after.size = l.size - 1
         /\ Allocated(after) = Allocated(l) \ {x} /\ x \in Allocated(l)
         /\ \A y \in Allocated(after) : after.node[y].data = l.node[y].data
         /\ Lists(after, Without(s, l.size, k))
<1>1. PICK size \in Nat : size = l.size
  BY DEF List
<1>2. PICK cut : cut = Unlink(l, x)
  OBVIOUS
<1>3. /\ cut \in List(D) /\ cut.size = l.size - 1
      /\ Allocated(cut) = Allocated(l) /\ x \in Allocated(l)
      /\ \A y \in Allocated(l) : cut.node[y].data = l.node[y].data
      /\ Linked(cut, Without(s, l.size, k))
      /\ \A i \in 1..cut.size : Without(s, l.size, k)[i] # x
  <2>1. Linked(l, s)
    BY DEF Lists
  <2>2. QED
    BY <1>2, <2>1, UnlinkSound
<1>4. after = Free(cut, x) /\ x \in Allocated(cut)
  BY <1>2, <1>3 DEF RemoveNode
<1>5. /\ after \in List(D) /\ after.size = cut.size
      /\ Allocated(after) = Allocated(cut) \ {x}
      /\ \A y \in Allocated(after) : after.node[y] = cut.node[y]
  BY <1>3, <1>4, FreeSound
<1>6. PICK t : t = Without(s, l.size, k)
  OBVIOUS
<1>7. Linked(after, t)
  <2>1. Linked(cut, t) /\ \A i \in 1..cut.size : t[i] # x
    BY <1>3, <1>6
  <2>2. QED
    BY <1>3, <1>4, <2>1, FreeKeepsLinks
<1>8. Complete(after, t)
  <2>1. ASSUME NEW y \in Allocated(l), y # x PROVE \E i \in 1..(size - 1) : t[i] = y
    <3>1. PICK j \in 1..size : s[j] = y
      BY <1>1 DEF Lists, Complete
    <3>2. j # k
      BY <2>1, <3>1
    <3>3. CASE j < k
      <4>1. j \in 1..(size - 1) /\ t[j] = s[j]
        BY <1>1, <1>6, <3>3 DEF Without
      <4>2. QED
        BY <3>1, <4>1
    <3>4. CASE j > k
      <4>1. PICK i \in 1..(size - 1) : i + 1 = j /\ ~ (i < k)
        <5>1. j - 1 \in 1..(size - 1) /\ (j - 1) + 1 = j /\ ~ (j - 1 < k)
          BY <1>1, <3>4
        <5>2. QED
          BY <5>1
      <4>2. t[i] = s[j]
        BY <1>1, <1>6, <4>1 DEF Without
      <4>3. QED
        BY <3>1, <4>2
    <3>5. QED
      BY <1>1, <3>2, <3>3, <3>4
  <2>2. QED
    BY <1>1, <1>3, <1>5, <2>1 DEF Complete
<1>9. \A y \in Allocated(after) : after.node[y].data = l.node[y].data
  BY <1>3, <1>5
<1>10. QED
  BY <1>3, <1>5, <1>6, <1>7, <1>8, <1>9 DEF Lists

\* The first node, which is what is removed to make room and to empty a list.
LEMMA RemoveFirstNode ==
  ASSUME NEW D, NULL \notin Node(D), NEW l \in List(D), NEW s, Lists(l, s), l.size # 0
  PROVE  /\ 1 \in 1..l.size /\ l.head = s[1]
         /\ RemoveNthNode(l, 0) = RemoveNode(l, s[1])
<1>1. l.size \in Nat /\ 1 \in 1..l.size
  BY DEF List
<1>2. Linked(l, s)
  BY DEF Lists
<1>3. GetNthNode(l, 0) = At(s, l.size, 0 + 1)
  BY <1>2, GetNthNodeIsAt
<1>4. GetNthNode(l, 0) = s[1]
  BY <1>1, <1>3 DEF At
<1>5. l.head = s[1]
  BY <1>1, <1>2 DEF Linked, At
<1>6. QED
  BY <1>1, <1>4, <1>5 DEF RemoveNthNode, RemoveNode

LEMMA GetNodeSound ==
  ASSUME NEW D, NEW l \in List(D), NEW s, Linked(l, s), NEW k \in 1..l.size,
         NEW key, l.node[s[k]].data.key = key,
         \A i \in 1..l.size : l.node[s[i]].data.key = key => i = k
  PROVE  GetNode(l, key) = s[k]
<1> DEFINE hits == {i \in 1..l.size : l.node[Walk(l)[i]].data.key = key}
<1>1. Walk(l) = s /\ l.size \in Nat
  BY WalkIsOrder DEF List
<1>2. hits = {k}
  BY <1>1
<1>3. hits \in SUBSET Nat /\ hits # {}
  BY <1>1, <1>2
<1>4. Min(hits) = k
  <2> HIDE DEF hits
  <2>1. Min(hits) \in hits
    BY <1>3, FirstOf
  <2>2. QED
    BY <1>2, <2>1
<1>5. GetNode(l, key) = IF hits = {} THEN NULL ELSE Walk(l)[Min(hits)]
  BY DEF GetNode
<1> HIDE DEF hits
<1>6. QED
  BY <1>1, <1>3, <1>4, <1>5

\* The order after move_node_to_end of the node at position k, copied to a.
MovedToEnd(s, n, k, a) == Inserted(Without(s, n, k), n - 1, n - 1, a)

LEMMA MoveNodeToEndSound ==
  ASSUME NEW D, NULL \notin Node(D), NEW l \in List(D), NEW s, Lists(l, s),
         NEW k \in 1..l.size, NEW x, x = s[k], NEW key, GetNode(l, key) = x,
         NEW a \in Unallocated(l), NEW after, after = MoveNodeToEnd(l, key, a)
  PROVE  /\ after \in List(D) /\ after.size = l.size
         /\ Allocated(after) = (Allocated(l) \ {x}) \cup {a}
         /\ a \notin Allocated(l) /\ x \in Allocated(l)
         /\ after.node[a].data = l.node[x].data
         /\ \A y \in Allocated(l) \ {x} : after.node[y].data = l.node[y].data
         /\ Lists(after, MovedToEnd(s, l.size, k, a))
<1>1. PICK size \in Nat : size = l.size
  BY DEF List
<1>2. PICK cut : cut = Unlink(l, x)
  OBVIOUS
<1>3. PICK w : w = Without(s, l.size, k)
  OBVIOUS
<1>4. /\ cut \in List(D) /\ cut.size = l.size - 1
      /\ Allocated(cut) = Allocated(l) /\ x \in Allocated(l)
      /\ \A y \in Allocated(l) : cut.node[y].data = l.node[y].data
      /\ Linked(cut, w) /\ \A i \in 1..cut.size : w[i] # x
  <2>1. Linked(l, s)
    BY DEF Lists
  <2>2. QED
    BY <1>2, <1>3, <2>1, UnlinkSound
<1>5. PICK data \in D : data = l.node[x].data
  BY <1>4, NodeParts
<1>6. PICK added : added = AddNthNode(cut, cut.size, a, data)
  OBVIOUS
<1>7. after = Free(added, x)
  BY <1>2, <1>5, <1>6 DEF MoveNodeToEnd
<1>8. a \in Unallocated(cut) /\ a # x /\ size - 1 \in Nat
  BY <1>1, <1>4 DEF Unallocated, Allocated
<1>9. PICK m \in 0..cut.size : m = cut.size /\ m = size - 1
  BY <1>1, <1>4, <1>8
<1>10. /\ added \in List(D) /\ added.size = cut.size + 1
       /\ Allocated(added) = Allocated(cut) \cup {a} /\ a \notin Allocated(cut)
       /\ added.node[a].data = data
       /\ \A y \in Allocated(cut) : added.node[y].data = cut.node[y].data
       /\ Linked(added, Inserted(w, cut.size, m, a))
  <2>1. added = AddNthNode(cut, m, a, data)
    BY <1>6, <1>9
  <2>2. QED
    BY <1>4, <1>8, <2>1, AddNthNodeSound
<1>11. PICK t : t = MovedToEnd(s, l.size, k, a)
  OBVIOUS
<1>12. t = Inserted(w, cut.size, m, a) /\ added.size = size
  BY <1>1, <1>3, <1>4, <1>9, <1>10, <1>11 DEF MovedToEnd
<1>13. /\ \A i \in 1..(size - 1) : i \in 1..size /\ t[i] = w[i]
       /\ size \in 1..size /\ t[size] = a
  BY <1>1, <1>4, <1>9, <1>12 DEF Inserted
<1>14. \A i \in 1..added.size : t[i] # x
  <2>1. \A i \in 1..size : i = size \/ i \in 1..(size - 1)
    BY <1>1
  <2>2. \A i \in 1..(size - 1) : w[i] # x
    BY <1>1, <1>4
  <2>3. QED
    BY <1>8, <1>12, <1>13, <2>1, <2>2
<1>15. x \in Allocated(added) /\ Linked(added, t)
  BY <1>4, <1>10, <1>12
<1>16. /\ after \in List(D) /\ after.size = added.size
       /\ Allocated(after) = Allocated(added) \ {x}
       /\ \A y \in Allocated(after) : after.node[y] = added.node[y]
  BY <1>7, <1>10, <1>15, FreeSound
<1>17. Linked(after, t)
  BY <1>7, <1>10, <1>14, <1>15, FreeKeepsLinks
<1>18. Allocated(after) = (Allocated(l) \ {x}) \cup {a} /\ after.size = l.size
  BY <1>1, <1>4, <1>8, <1>10, <1>12, <1>16
<1>19. Complete(after, t)
  <2>1. ASSUME NEW y \in Allocated(l), y # x PROVE \E i \in 1..size : t[i] = y
    <3>1. PICK j \in 1..size : s[j] = y
      BY <1>1 DEF Lists, Complete
    <3>2. j # k
      BY <2>1, <3>1
    <3>3. CASE j < k
      <4>1. j \in 1..(size - 1) /\ w[j] = s[j]
        BY <1>1, <1>3, <3>3 DEF Without
      <4>2. QED
        BY <1>13, <3>1, <4>1
    <3>4. CASE j > k
      <4>1. PICK i \in 1..(size - 1) : i + 1 = j /\ ~ (i < k)
        <5>1. j - 1 \in 1..(size - 1) /\ (j - 1) + 1 = j /\ ~ (j - 1 < k)
          BY <1>1, <3>4
        <5>2. QED
          BY <5>1
      <4>2. w[i] = s[j]
        BY <1>1, <1>3, <4>1 DEF Without
      <4>3. QED
        BY <1>13, <3>1, <4>1, <4>2
    <3>5. QED
      BY <1>1, <3>2, <3>3, <3>4
  <2>2. \E i \in 1..size : t[i] = a
    BY <1>13
  <2>3. QED
    BY <1>1, <1>18, <2>1, <2>2 DEF Complete
<1>20. /\ after.node[a].data = l.node[x].data
       /\ \A y \in Allocated(l) \ {x} : after.node[y].data = l.node[y].data
  BY <1>4, <1>5, <1>10, <1>16, <1>18
<1>21. QED
  BY <1>4, <1>10, <1>11, <1>16, <1>17, <1>18, <1>19, <1>20 DEF Lists

\* Other data in a node.
WithData(l, a, info) == [l EXCEPT !.node[a].data = info]

LEMMA SetDataSound ==
  ASSUME NEW D, NULL \notin Node(D),
         NEW l \in List(D), NEW s, Lists(l, s), NEW a \in Allocated(l), NEW info \in D,
         NEW after, after = WithData(l, a, info)
  PROVE  /\ after \in List(D) /\ after.size = l.size
         /\ Allocated(after) = Allocated(l) /\ after.node[a].data = info
         /\ \A y \in Allocated(l) : y # a => after.node[y].data = l.node[y].data
         /\ Lists(after, s)
<1>1. a \in Addr /\ l.node[a] \in Node(D) /\ l.node \in [Addr -> Node(D) \cup {NULL}]
  BY DEF Allocated, List
<1>2. PICK n \in Node(D) : n = [data |-> info, prev |-> l.node[a].prev, next |-> l.node[a].next]
  BY <1>1 DEF Node
<1>3. n.data = info /\ n.prev = l.node[a].prev /\ n.next = l.node[a].next /\ n # NULL
  BY <1>2
<1>4. [l.node[a] EXCEPT !.data = info] = n
  BY <1>1, <1>2 DEF Node
<1>5. PICK nodes \in [Addr -> Node(D) \cup {NULL}] : nodes = [l.node EXCEPT ![a] = n]
  BY <1>1
<1>6. after = [l EXCEPT !.node = nodes]
  <2>1. after = [l EXCEPT !.node = [l.node EXCEPT ![a] = [l.node[a] EXCEPT !.data = info]]]
    BY <1>1 DEF List, WithData
  <2>2. QED
    BY <1>4, <1>5, <2>1
<1>7. /\ after \in List(D) /\ after.size = l.size /\ after.node = nodes
      /\ after.head = l.head /\ after.tail = l.tail
  BY <1>5, <1>6 DEF List
<1>8. nodes[a] = n /\ \A y \in Addr : y # a => nodes[y] = l.node[y]
  BY <1>1, <1>5
<1>9. Allocated(after) = Allocated(l)
  <2>1. \A y \in Addr : nodes[y] # NULL <=> l.node[y] # NULL
    <3>1. l.node[a] # NULL
      BY DEF Allocated
    <3>2. QED
      BY <1>3, <1>8, <3>1
  <2>2. QED
    BY <1>7, <2>1 DEF Allocated
<1>10. \A y \in Allocated(l) : /\ after.node[y].prev = l.node[y].prev
                               /\ after.node[y].next = l.node[y].next
  BY <1>3, <1>7, <1>8 DEF Allocated
<1>11. Lists(after, s)
  <2>1. \A i \in 1..l.size : s[i] \in Allocated(l)
    BY DEF Lists, Linked
  <2>2. \A i \in 1..l.size : /\ after.node[s[i]].prev = l.node[s[i]].prev
                             /\ after.node[s[i]].next = l.node[s[i]].next
    BY <1>10, <2>1
  <2>3. Linked(after, s)
    BY <1>7, <1>9, <2>2 DEF Lists, Linked
  <2>4. Complete(after, s)
    BY <1>7, <1>9 DEF Lists, Complete
  <2>5. QED
    BY <2>3, <2>4 DEF Lists
<1>12. \A y \in Allocated(l) : y # a => after.node[y].data = l.node[y].data
  BY <1>7, <1>8 DEF Allocated
<1>13. QED
  BY <1>3, <1>7, <1>8, <1>9, <1>11, <1>12

-----------------------------------------------------------------------------
(* Hash tables: what an entry, a table and a table in order are.            *)

Entries(V) == [key : Docs, value : V]
Tables(V) ==
    UNION {[buckets : [0..(h - 1) -> Seq(Entries(V))], size : Nat, hmax : {h}] : h \in Nat \ {0}}

\* No key has two entries in a bucket.
Distinct(q) == \A i, j \in 1..Len(q) : q[i].key = q[j].key => i = j

\* Every key of the bucket q belongs into bucket c.
HashesTo(t, q, c) == \A i \in 1..Len(q) : Bucket(t, q[i].key) = c

\* Every entry is in the bucket of its key, and no key has two.
Filled(t) ==
    \A c \in 0..(t.hmax - 1) : HashesTo(t, t.buckets[c], c) /\ Distinct(t.buckets[c])

Keys(t) == {d \in Docs : HtHasKey(t, d)}

\* The count is the number of the keys.
Counted(t) == IsFiniteSet(Keys(t)) /\ Cardinality(Keys(t)) = t.size

LEMMA TableParts ==
  ASSUME NEW V, NEW t \in Tables(V)
  PROVE  /\ t.hmax \in Nat \ {0} /\ t.size \in Nat
         /\ t.buckets \in [0..(t.hmax - 1) -> Seq(Entries(V))]
         /\ t = [buckets |-> t.buckets, size |-> t.size, hmax |-> t.hmax]
<1>1. PICK h \in Nat \ {0} :
         t \in [buckets : [0..(h - 1) -> Seq(Entries(V))], size : Nat, hmax : {h}]
  BY DEF Tables
<1>2. QED
  BY <1>1

LEMMA TableOf ==
  ASSUME NEW V, NEW h \in Nat \ {0}, NEW n \in Nat,
         NEW buckets \in [0..(h - 1) -> Seq(Entries(V))]
  PROVE  [buckets |-> buckets, size |-> n, hmax |-> h] \in Tables(V)
<1>1. [buckets |-> buckets, size |-> n, hmax |-> h]
         \in [buckets : [0..(h - 1) -> Seq(Entries(V))], size : Nat, hmax : {h}]
  OBVIOUS
<1>2. QED
  BY <1>1 DEF Tables

LEMMA BucketType ==
  ASSUME NEW V, NEW t \in Tables(V), NEW d \in Docs
  PROVE  /\ Bucket(t, d) \in 0..(t.hmax - 1)
         /\ t.buckets[Bucket(t, d)] \in Seq(Entries(V))
<1>1. t.hmax \in Nat \ {0} /\ t.buckets \in [0..(t.hmax - 1) -> Seq(Entries(V))]
  BY TableParts
<1>2. HashDoc[d] \in Nat
  BY HashDocAssumption
<1>3. \A n \in Nat, h \in Nat \ {0} : n % h \in 0..(h - 1)
  OBVIOUS
<1>4. QED
  BY <1>1, <1>2, <1>3 DEF Bucket

\* The position of a key in its bucket.
LEMMA Found ==
  ASSUME NEW V, NEW t \in Tables(V), NEW d \in Docs, NEW q, q = t.buckets[Bucket(t, d)],
         Distinct(q)
  PROVE  /\ HtHasKey(t, d) <=> \E i \in 1..Len(q) : q[i].key = d
         /\ \A i \in 1..Len(q) : q[i].key = d => Position(t, d) = i /\ HtGet(t, d) = q[i].value
         /\ HtHasKey(t, d) => Position(t, d) \in 1..Len(q) /\ q[Position(t, d)].key = d
<1> DEFINE I == {i \in 1..Len(q) : q[i].key = d}
<1>1. Len(q) \in Nat
  BY BucketType
<1>2. Position(t, d) = IF I # {} THEN Min(I) ELSE 0
  BY DEF Position, SelectInSeq
<1>3. I \in SUBSET Nat /\ 0 \notin I
  BY <1>1
<1>4. (\E i \in 1..Len(q) : q[i].key = d) <=> I # {}
  OBVIOUS
<1>5. I # {} => Min(I) \in I
  <2> HIDE DEF I
  <2>1. QED
    BY <1>3, FirstOf
<1>6. HtHasKey(t, d) <=> I # {}
  <2> HIDE DEF I
  <2>1. QED
    BY <1>2, <1>3, <1>5 DEF HtHasKey
<1>7. ASSUME NEW i \in 1..Len(q), q[i].key = d
      PROVE  Position(t, d) = i /\ HtGet(t, d) = q[i].value
  <2>1. I = {i}
    BY <1>7 DEF Distinct
  <2>2. Position(t, d) = i
    <3> HIDE DEF I
    <3>1. QED
      BY <1>2, <1>5, <2>1
  <2>3. QED
    BY <2>2 DEF HtGet
<1>8. HtHasKey(t, d) => Position(t, d) \in 1..Len(q) /\ q[Position(t, d)].key = d
  <2>1. HtHasKey(t, d) => Position(t, d) \in I
    <3> HIDE DEF I
    <3>1. QED
      BY <1>2, <1>5, <1>6
  <2>2. QED
    BY <2>1
<1>9. QED
  BY <1>4, <1>6, <1>7, <1>8

\* A table with one of its buckets replaced.
WithBucket(t, c, q, n) == [t EXCEPT !.buckets = [t.buckets EXCEPT ![c] = q], !.size = n]

LEMMA BucketReplaced ==
  ASSUME NEW V, NEW t \in Tables(V), Filled(t), NEW c \in 0..(t.hmax - 1),
         NEW q \in Seq(Entries(V)), Distinct(q), HashesTo(t, q, c),
         NEW n \in Nat, NEW u, u = WithBucket(t, c, q, n)
  PROVE  /\ u \in Tables(V) /\ u.hmax = t.hmax /\ u.size = n /\ Filled(u)
         /\ u.buckets[c] = q
         /\ \A e \in 0..(t.hmax - 1) : e # c => u.buckets[e] = t.buckets[e]
         /\ \A d \in Docs : Bucket(u, d) = Bucket(t, d)
         /\ \A d \in Docs : Bucket(t, d) # c =>
               (HtHasKey(u, d) <=> HtHasKey(t, d)) /\ HtGet(u, d) = HtGet(t, d)
<1>1. /\ t.hmax \in Nat \ {0} /\ t.buckets \in [0..(t.hmax - 1) -> Seq(Entries(V))]
      /\ t = [buckets |-> t.buckets, size |-> t.size, hmax |-> t.hmax]
  BY TableParts
<1>2. PICK h \in Nat \ {0} : h = t.hmax
  BY <1>1
<1>3. PICK bs \in [0..(h - 1) -> Seq(Entries(V))] : bs = [t.buckets EXCEPT ![c] = q]
  BY <1>1, <1>2
<1>4. u = [buckets |-> bs, size |-> n, hmax |-> h]
  BY <1>1, <1>2, <1>3 DEF WithBucket
<1>5. u \in Tables(V) /\ u.hmax = t.hmax /\ u.size = n /\ u.buckets = bs
  <2>1. [buckets |-> bs, size |-> n, hmax |-> h] \in Tables(V)
    BY TableOf
  <2>2. /\ [buckets |-> bs, size |-> n, hmax |-> h].buckets = bs
        /\ [buckets |-> bs, size |-> n, hmax |-> h].size = n
        /\ [buckets |-> bs, size |-> n, hmax |-> h].hmax = h
    OBVIOUS
  <2>3. QED
    BY <1>2, <1>4, <2>1, <2>2, Zenon
<1>6. bs[c] = q /\ \A e \in 0..(t.hmax - 1) : e # c => bs[e] = t.buckets[e]
  BY <1>1, <1>3
<1>7. \A d : Bucket(u, d) = Bucket(t, d)
  BY <1>5 DEF Bucket
<1>8. Filled(u)
  <2>1. ASSUME NEW e \in 0..(t.hmax - 1)
        PROVE  HashesTo(t, bs[e], e) /\ Distinct(bs[e])
    <3>1. CASE e = c
      BY <1>6, <3>1
    <3>2. CASE e # c
      BY <1>6, <3>2 DEF Filled
    <3>3. QED
      BY <3>1, <3>2
  <2>2. QED
    BY <1>5, <1>7, <2>1 DEF Filled, HashesTo
<1>9. ASSUME NEW d \in Docs, Bucket(t, d) # c
      PROVE  (HtHasKey(u, d) <=> HtHasKey(t, d)) /\ HtGet(u, d) = HtGet(t, d)
  <2>1. u.buckets[Bucket(u, d)] = t.buckets[Bucket(t, d)]
    BY <1>5, <1>6, <1>7, <1>9, BucketType
  <2>2. Position(u, d) = Position(t, d)
    BY <2>1 DEF Position
  <2>3. QED
    BY <2>1, <2>2 DEF HtHasKey, HtGet
<1>10. QED
  BY <1>5, <1>6, <1>7, <1>8, <1>9

LEMMA HtCreateSound ==
  ASSUME NEW V, NEW h \in Nat \ {0}
  PROVE  /\ HtCreate(h) \in Tables(V) /\ HtCreate(h).hmax = h
         /\ Filled(HtCreate(h)) /\ Counted(HtCreate(h)) /\ Keys(HtCreate(h)) = {}
         /\ \A d \in Docs : ~ HtHasKey(HtCreate(h), d)
<1>1. PICK bs : bs = [c \in 0..(h - 1) |-> <<>>]
  OBVIOUS
<1>2. bs \in [0..(h - 1) -> Seq(Entries(V))] /\ \A c \in 0..(h - 1) : Len(bs[c]) = 0
  BY <1>1
<1>3. PICK t : t = HtCreate(h)
  OBVIOUS
<1>4. t = [buckets |-> bs, size |-> 0, hmax |-> h]
  BY <1>1, <1>3 DEF HtCreate
<1>5. t \in Tables(V) /\ t.hmax = h /\ t.size = 0 /\ t.buckets = bs
  BY <1>2, <1>4, TableOf
<1>6. Filled(t)
  BY <1>2, <1>5 DEF Filled, Distinct, HashesTo
<1>7. ASSUME NEW d \in Docs PROVE ~ HtHasKey(t, d)
  <2>1. Bucket(t, d) \in 0..(h - 1)
    BY <1>5, BucketType
  <2>2. PICK q : q = bs[Bucket(t, d)]
    OBVIOUS
  <2>3. Len(q) = 0 /\ Distinct(q)
    BY <1>2, <2>1, <2>2 DEF Distinct
  <2>4. HtHasKey(t, d) <=> \E i \in 1..Len(q) : q[i].key = d
    BY <1>5, <2>2, <2>3, Found
  <2>5. QED
    BY <2>3, <2>4
<1>8. Keys(t) = {}
  BY <1>7 DEF Keys
<1>9. Counted(t)
  BY <1>5, <1>8, FS_EmptySet DEF Counted
<1>10. QED
  BY <1>3, <1>5, <1>6, <1>7, <1>8, <1>9

\* Two buckets that differ in the key d at most.
SameButFor(q, r, d) ==
    /\ \A i \in 1..Len(q) : q[i].key # d => \E j \in 1..Len(r) : r[j] = q[i]
    /\ \A j \in 1..Len(r) : r[j].key # d => \E i \in 1..Len(q) : q[i] = r[j]

LEMMA OtherKeys ==
  ASSUME NEW V, NEW t \in Tables(V), Filled(t), NEW d \in Docs, NEW c, c = Bucket(t, d),
         NEW q, q = t.buckets[c], NEW r \in Seq(Entries(V)), Distinct(r), SameButFor(q, r, d),
         NEW n \in Nat, NEW u, u = WithBucket(t, c, r, n)
  PROVE  /\ u \in Tables(V) /\ u.hmax = t.hmax /\ u.size = n /\ Filled(u)
         /\ \A e \in 0..(t.hmax - 1) : e # c => u.buckets[e] = t.buckets[e]
         /\ HtHasKey(u, d) <=> \E i \in 1..Len(r) : r[i].key = d
         /\ \A i \in 1..Len(r) : r[i].key = d => HtGet(u, d) = r[i].value
         /\ \A e \in Docs : e # d => (HtHasKey(u, e) <=> HtHasKey(t, e))
         /\ \A e \in Docs : e # d /\ HtHasKey(t, e) => HtGet(u, e) = HtGet(t, e)
<1>1. c \in 0..(t.hmax - 1) /\ q \in Seq(Entries(V))
  BY BucketType
<1>2. Distinct(q) /\ HashesTo(t, q, c)
  BY <1>1 DEF Filled
<1>3. HashesTo(t, r, c)
  <2>1. ASSUME NEW j \in 1..Len(r) PROVE Bucket(t, r[j].key) = c
    <3>1. CASE r[j].key = d
      BY <3>1
    <3>2. CASE r[j].key # d
      <4>1. PICK i \in 1..Len(q) : q[i] = r[j]
        BY <3>2 DEF SameButFor
      <4>2. QED
        BY <1>2, <4>1 DEF HashesTo
    <3>3. QED
      BY <3>1, <3>2
  <2>2. QED
    BY <2>1 DEF HashesTo
<1>4. /\ u \in Tables(V) /\ u.hmax = t.hmax /\ u.size = n /\ Filled(u)
      /\ u.buckets[c] = r
      /\ \A e \in 0..(t.hmax - 1) : e # c => u.buckets[e] = t.buckets[e]
      /\ \A e \in Docs : Bucket(u, e) = Bucket(t, e)
      /\ \A e \in Docs : Bucket(t, e) # c =>
            (HtHasKey(u, e) <=> HtHasKey(t, e)) /\ HtGet(u, e) = HtGet(t, e)
  <2>1. c \in 0..(t.hmax - 1)
    BY <1>1
  <2>2. QED
    BY <1>3, <2>1, BucketReplaced
<1>5. ASSUME NEW e \in Docs, Bucket(t, e) = c
      PROVE  /\ HtHasKey(u, e) <=> \E i \in 1..Len(r) : r[i].key = e
             /\ \A i \in 1..Len(r) : r[i].key = e => HtGet(u, e) = r[i].value
             /\ HtHasKey(t, e) <=> \E i \in 1..Len(q) : q[i].key = e
             /\ \A i \in 1..Len(q) : q[i].key = e => HtGet(t, e) = q[i].value
  <2>1. r = u.buckets[Bucket(u, e)] /\ q = t.buckets[Bucket(t, e)] /\ u \in Tables(V)
    BY <1>4, <1>5
  <2>2. /\ HtHasKey(u, e) <=> \E i \in 1..Len(r) : r[i].key = e
        /\ \A i \in 1..Len(r) : r[i].key = e => Position(u, e) = i /\ HtGet(u, e) = r[i].value
    BY <2>1, Found
  <2>3. /\ HtHasKey(t, e) <=> \E i \in 1..Len(q) : q[i].key = e
        /\ \A i \in 1..Len(q) : q[i].key = e => Position(t, e) = i /\ HtGet(t, e) = q[i].value
    BY <1>2, <2>1, Found
  <2>4. QED
    BY <2>2, <2>3
<1>6. ASSUME NEW e \in Docs, e # d
      PROVE  /\ HtHasKey(u, e) <=> HtHasKey(t, e)
             /\ HtHasKey(t, e) => HtGet(u, e) = HtGet(t, e)
  <2>1. CASE Bucket(t, e) = c
    <3>1. ASSUME NEW i \in 1..Len(q), q[i].key = e
          PROVE  /\ \E j \in 1..Len(r) : r[j].key = e
                 /\ HtGet(u, e) = q[i].value
      <4>1. PICK j \in 1..Len(r) : r[j] = q[i]
        BY <1>6, <3>1 DEF SameButFor
      <4>2. QED
        BY <1>5, <2>1, <3>1, <4>1
    <3>2. ASSUME NEW j \in 1..Len(r), r[j].key = e
          PROVE  \E i \in 1..Len(q) : q[i].key = e
      <4>1. PICK i \in 1..Len(q) : q[i] = r[j]
        BY <1>6, <3>2 DEF SameButFor
      <4>2. QED
        BY <3>2, <4>1
    <3>3. QED
      BY <1>5, <2>1, <3>1, <3>2
  <2>2. QED
    BY <1>4, <2>1
<1>7. QED
  BY <1>4, <1>5, <1>6

LEMMA HtPutSound ==
  ASSUME NEW V, NEW t \in Tables(V), Filled(t), NEW d \in Docs, NEW v \in V,
         NEW u, u = HtPut(t, d, v)
  PROVE  /\ u \in Tables(V) /\ u.hmax = t.hmax /\ Filled(u)
         /\ u.size = (IF HtHasKey(t, d) THEN t.size ELSE t.size + 1)
         /\ \A e \in Docs : HtHasKey(u, e) <=> e = d \/ HtHasKey(t, e)
         /\ HtGet(u, d) = v
         /\ \A e \in Docs : e # d /\ HtHasKey(t, e) => HtGet(u, e) = HtGet(t, e)
<1>1. PICK c : c = Bucket(t, d)
  OBVIOUS
<1>2. PICK q \in Seq(Entries(V)) : q = t.buckets[c]
  BY <1>1, BucketType
<1>3. /\ c \in 0..(t.hmax - 1) /\ t.size \in Nat
      /\ t.buckets \in [0..(t.hmax - 1) -> Seq(Entries(V))]
      /\ t = [buckets |-> t.buckets, size |-> t.size, hmax |-> t.hmax]
  BY <1>1, BucketType, TableParts
<1>4. Distinct(q)
  BY <1>2, <1>3 DEF Filled
<1>5. /\ HtHasKey(t, d) <=> \E i \in 1..Len(q) : q[i].key = d
      /\ HtHasKey(t, d) => Position(t, d) \in 1..Len(q) /\ q[Position(t, d)].key = d
  BY <1>1, <1>2, <1>4, Found
<1>6. PICK new \in Entries(V) : new.key = d /\ new.value = v /\ new = [key |-> d, value |-> v]
  BY DEF Entries
<1>7. CASE HtHasKey(t, d)
  <2>1. PICK p \in 1..Len(q) : p = Position(t, d) /\ q[p].key = d
    BY <1>5, <1>7
  <2>2. PICK r \in Seq(Entries(V)) : r = [q EXCEPT ![p] = new]
    BY ExceptSeq
  <2>3. Len(r) = Len(q) /\ \A i \in 1..Len(q) : r[i] = IF i = p THEN new ELSE q[i]
    BY <2>2
  <2>4. \A i \in 1..Len(q) : r[i].key = q[i].key
    BY <1>6, <2>1, <2>3
  <2>5. Distinct(r)
    BY <1>4, <2>3, <2>4 DEF Distinct
  <2>6. [q[p] EXCEPT !.value = v] = new
    <3>1. q[p] \in Entries(V)
      OBVIOUS
    <3>2. QED
      BY <1>6, <2>1, <3>1 DEF Entries
  <2>7. u = [t EXCEPT !.buckets = [t.buckets EXCEPT ![c] = r], !.size = t.size]
    <3>1. u = [t EXCEPT !.buckets[c][p].value = v]
      BY <1>1, <1>7, <2>1 DEF HtPut
    <3>2. u = [t EXCEPT !.buckets = [t.buckets EXCEPT ![c] = [q EXCEPT ![p] = [q[p] EXCEPT !.value = v]]]]
      BY <1>2, <1>3, <3>1
    <3>3. u = [t EXCEPT !.buckets = [t.buckets EXCEPT ![c] = r]]
      BY <2>2, <2>6, <3>2
    <3>4. QED
      BY <1>3, <3>3
  <2>8. \A i \in 1..Len(q) : q[i].key # d => \E j \in 1..Len(r) : r[j] = q[i]
    BY <2>1, <2>3
  <2>9. SameButFor(q, r, d)
    <3>1. \A j \in 1..Len(r) : r[j].key # d => \E i \in 1..Len(q) : q[i] = r[j]
      BY <1>6, <2>3
    <3>2. QED
      BY <2>8, <3>1 DEF SameButFor
  <2>10. /\ u \in Tables(V) /\ u.hmax = t.hmax /\ u.size = t.size /\ Filled(u)
         /\ HtHasKey(u, d) <=> \E i \in 1..Len(r) : r[i].key = d
         /\ \A i \in 1..Len(r) : r[i].key = d => HtGet(u, d) = r[i].value
         /\ \A e \in Docs : e # d => (HtHasKey(u, e) <=> HtHasKey(t, e))
         /\ \A e \in Docs : e # d /\ HtHasKey(t, e) => HtGet(u, e) = HtGet(t, e)
    <3>1. PICK n \in Nat : n = t.size
      BY <1>3
    <3>2. u = WithBucket(t, c, r, n)
      BY <2>7, <3>1 DEF WithBucket
    <3>3. QED
      BY <1>1, <1>2, <2>5, <2>9, <3>1, <3>2, OtherKeys
  <2>11. HtHasKey(u, d) /\ HtGet(u, d) = v
    BY <1>6, <2>3, <2>10
  <2>12. QED
    BY <1>7, <2>10, <2>11
<1>8. CASE ~ HtHasKey(t, d)
  <2>1. PICK r \in Seq(Entries(V)) :
           /\ r = <<new>> \o q /\ Len(r) = Len(q) + 1
           /\ r[1] = new /\ \A i \in 1..Len(q) : r[i + 1] = q[i]
    <3>1. <<new>> \in Seq(Entries(V)) /\ Len(<<new>>) = 1 /\ <<new>>[1] = new
      OBVIOUS
    <3>2. PICK one \in Seq(Entries(V)) : one = <<new>> /\ Len(one) = 1 /\ one[1] = new
      BY <3>1
    <3>3. /\ one \o q \in Seq(Entries(V)) /\ Len(one \o q) = Len(one) + Len(q)
          /\ \A i \in 1..(Len(one) + Len(q)) :
                (one \o q)[i] = IF i <= Len(one) THEN one[i] ELSE q[i - Len(one)]
      BY ConcatProperties
    <3>4. Len(q) \in Nat
      OBVIOUS
    <3>5. (one \o q)[1] = new /\ \A i \in 1..Len(q) : (one \o q)[i + 1] = q[i]
      BY <3>2, <3>3, <3>4
    <3>6. one \o q \in Seq(Entries(V)) /\ Len(one \o q) = Len(q) + 1 /\ one = <<new>>
      BY <3>2, <3>3, <3>4
    <3>7. WITNESS one \o q \in Seq(Entries(V))
    <3>8. QED
      BY <3>5, <3>6
  <2>2. /\ Len(q) \in Nat /\ 1 \in 1..Len(r)
        /\ \A i \in 1..Len(q) : i + 1 \in 1..Len(r)
        /\ \A j \in 1..Len(r) : j = 1 \/ \E i \in 1..Len(q) : j = i + 1
    <3>1. Len(q) \in Nat
      OBVIOUS
    <3>2. \A j \in 1..(Len(q) + 1) : j # 1 => j - 1 \in 1..Len(q) /\ (j - 1) + 1 = j
      BY <3>1
    <3>3. QED
      BY <2>1, <3>1, <3>2
  <2>3. \A j \in 1..Len(r) : j # 1 => \E i \in 1..Len(q) : j = i + 1 /\ r[j] = q[i]
    BY <2>1, <2>2
  <2>4. \A i \in 1..Len(q) : q[i].key # d
    BY <1>5, <1>8
  <2>5. Distinct(r)
    <3>1. ASSUME NEW i \in 1..Len(r), NEW j \in 1..Len(r), r[i].key = r[j].key PROVE i = j
      <4>1. CASE i = 1 /\ j = 1
        BY <4>1
      <4>2. CASE i = 1 /\ j # 1
        BY <1>6, <2>1, <2>3, <2>4, <3>1, <4>2
      <4>3. CASE i # 1 /\ j = 1
        BY <1>6, <2>1, <2>3, <2>4, <3>1, <4>3
      <4>4. CASE i # 1 /\ j # 1
        <5>1. PICK x \in 1..Len(q) : i = x + 1 /\ r[i] = q[x]
          BY <2>3, <4>4
        <5>2. PICK y \in 1..Len(q) : j = y + 1 /\ r[j] = q[y]
          BY <2>3, <4>4
        <5>3. x = y
          BY <1>4, <3>1, <5>1, <5>2 DEF Distinct
        <5>4. QED
          BY <5>1, <5>2, <5>3
      <4>5. QED
        BY <4>1, <4>2, <4>3, <4>4
    <3>2. QED
      BY <3>1 DEF Distinct
  <2>6. u = [t EXCEPT !.buckets = [t.buckets EXCEPT ![c] = r], !.size = t.size + 1]
    <3>1. u = [t EXCEPT !.buckets[c] = <<new>> \o @, !.size = @ + 1]
      BY <1>1, <1>6, <1>8 DEF HtPut
    <3>2. QED
      BY <1>2, <1>3, <2>1, <3>1
  <2>7. SameButFor(q, r, d)
    <3>1. \A i \in 1..Len(q) : q[i].key # d => \E j \in 1..Len(r) : r[j] = q[i]
      BY <2>1, <2>2
    <3>2. \A j \in 1..Len(r) : r[j].key # d => \E i \in 1..Len(q) : q[i] = r[j]
      BY <1>6, <2>1, <2>3
    <3>3. QED
      BY <3>1, <3>2 DEF SameButFor
  <2>9. /\ u \in Tables(V) /\ u.hmax = t.hmax /\ u.size = t.size + 1 /\ Filled(u)
        /\ HtHasKey(u, d) <=> \E i \in 1..Len(r) : r[i].key = d
        /\ \A i \in 1..Len(r) : r[i].key = d => HtGet(u, d) = r[i].value
        /\ \A e \in Docs : e # d => (HtHasKey(u, e) <=> HtHasKey(t, e))
        /\ \A e \in Docs : e # d /\ HtHasKey(t, e) => HtGet(u, e) = HtGet(t, e)
    <3>1. PICK n \in Nat : n = t.size + 1
      BY <1>3
    <3>2. u = WithBucket(t, c, r, n)
      BY <2>6, <3>1 DEF WithBucket
    <3>3. QED
      BY <1>1, <1>2, <2>5, <2>7, <3>1, <3>2, OtherKeys
  <2>10. HtHasKey(u, d) /\ HtGet(u, d) = v
    BY <1>6, <2>1, <2>2, <2>9
  <2>11. QED
    BY <1>8, <2>9, <2>10
<1>9. QED
  BY <1>7, <1>8

\* The count after a put.
LEMMA HtPutCounted ==
  ASSUME NEW V, NEW t \in Tables(V), Filled(t), Counted(t), NEW d \in Docs, NEW v \in V,
         NEW u, u = HtPut(t, d, v)
  PROVE  Counted(u) /\ Keys(u) = Keys(t) \cup {d}
<1>1. /\ u.size = (IF HtHasKey(t, d) THEN t.size ELSE t.size + 1)
      /\ \A e \in Docs : HtHasKey(u, e) <=> e = d \/ HtHasKey(t, e)
  BY HtPutSound
<1>2. Keys(u) = Keys(t) \cup {d}
  BY <1>1 DEF Keys
<1>3. d \in Keys(t) <=> HtHasKey(t, d)
  BY DEF Keys
<1>4. PICK keys : keys = Keys(t)
  OBVIOUS
<1>5. IsFiniteSet(keys) /\ Cardinality(keys) = t.size
  BY <1>4 DEF Counted
<1>6. /\ IsFiniteSet(keys \cup {d})
      /\ Cardinality(keys \cup {d}) = IF d \in keys THEN Cardinality(keys) ELSE Cardinality(keys) + 1
  BY <1>5, FS_AddElement
<1>7. QED
  BY <1>1, <1>2, <1>3, <1>4, <1>5, <1>6 DEF Counted

LEMMA RemoveAtProperties ==
  ASSUME NEW S, NEW list \in Seq(S), NEW k \in 1..Len(list)
  PROVE  /\ RemoveAt(list, k) \in Seq(S)
         /\ Len(RemoveAt(list, k)) = Len(list) - 1
         /\ \A j \in 1..(Len(list) - 1) :
               RemoveAt(list, k)[j] = IF j < k THEN list[j] ELSE list[j + 1]
<1> DEFINE front == SubSeq(list, 1, k - 1)
           back  == SubSeq(list, k + 1, Len(list))
<1>1. /\ front \in Seq(S) /\ Len(front) = k - 1
      /\ \A j \in 1..(k - 1) : front[j] = list[j]
  OBVIOUS
<1>2. /\ back \in Seq(S) /\ Len(back) = Len(list) - k
      /\ \A j \in 1..(Len(list) - k) : back[j] = list[k + j]
  OBVIOUS
<1> HIDE DEF front, back
<1>3. /\ front \o back \in Seq(S) /\ Len(front \o back) = Len(list) - 1
      /\ \A j \in 1..(Len(list) - 1) :
            (front \o back)[j] = IF j < k THEN front[j] ELSE back[j - (k - 1)]
  <2>1. Len(list) \in Nat /\ k \in Nat
    OBVIOUS
  <2>2. /\ front \o back \in Seq(S) /\ Len(front \o back) = Len(front) + Len(back)
        /\ \A j \in 1..(Len(front) + Len(back)) :
              (front \o back)[j] = IF j <= Len(front) THEN front[j] ELSE back[j - Len(front)]
    BY <1>1, <1>2, ConcatProperties
  <2>3. QED
    BY <1>1, <1>2, <2>1, <2>2
<1>4. \A j \in 1..(Len(list) - 1) :
         (front \o back)[j] = IF j < k THEN list[j] ELSE list[j + 1]
  BY <1>1, <1>2, <1>3
<1>5. QED
  BY <1>3, <1>4 DEF RemoveAt, front, back

LEMMA HtRemoveEntrySound ==
  ASSUME NEW V, NEW t \in Tables(V), Filled(t), Counted(t), NEW d \in Docs, HtHasKey(t, d),
         NEW u, u = HtRemoveEntry(t, d)
  PROVE  /\ u \in Tables(V) /\ u.hmax = t.hmax /\ Filled(u) /\ Counted(u)
         /\ u.size = t.size - 1 /\ t.size # 0
         /\ \A c \in 0..(t.hmax - 1) : c # Bucket(t, d) => u.buckets[c] = t.buckets[c]
         /\ \A e \in Docs : HtHasKey(u, e) <=> e # d /\ HtHasKey(t, e)
         /\ \A e \in Docs : HtHasKey(u, e) => HtGet(u, e) = HtGet(t, e)
<1>1. PICK c : c = Bucket(t, d)
  OBVIOUS
<1>2. PICK q \in Seq(Entries(V)) : q = t.buckets[c]
  BY <1>1, BucketType
<1>3. /\ c \in 0..(t.hmax - 1) /\ t.size \in Nat
      /\ t.buckets \in [0..(t.hmax - 1) -> Seq(Entries(V))]
      /\ t = [buckets |-> t.buckets, size |-> t.size, hmax |-> t.hmax]
  BY <1>1, BucketType, TableParts
<1>4. Distinct(q)
  BY <1>2, <1>3 DEF Filled
<1>5. PICK p \in 1..Len(q) : p = Position(t, d) /\ q[p].key = d
  <2>1. Position(t, d) \in 1..Len(q) /\ q[Position(t, d)].key = d
    BY <1>1, <1>2, <1>4, Found
  <2>2. QED
    BY <2>1
<1>6. PICK keys : keys = Keys(t)
  OBVIOUS
<1>7. IsFiniteSet(keys) /\ Cardinality(keys) = t.size /\ d \in keys
  BY <1>6 DEF Counted, Keys
<1>8. IsFiniteSet(keys \ {d}) /\ Cardinality(keys \ {d}) = t.size - 1
  BY <1>7, FS_RemoveElement
<1>9. PICK n \in Nat : n = t.size - 1
  BY <1>8, FS_CardinalityType
<1>10. PICK r \in Seq(Entries(V)) : r = RemoveAt(q, p)
  BY RemoveAtProperties
<1>11. /\ Len(r) = Len(q) - 1 /\ Len(q) \in Nat
       /\ \A j \in 1..Len(r) : r[j] = IF j < p THEN q[j] ELSE q[j + 1]
  <2>1. /\ Len(RemoveAt(q, p)) = Len(q) - 1
        /\ \A j \in 1..(Len(q) - 1) : RemoveAt(q, p)[j] = IF j < p THEN q[j] ELSE q[j + 1]
    BY RemoveAtProperties
  <2>2. Len(q) \in Nat
    OBVIOUS
  <2>3. QED
    BY <1>10, <2>1, <2>2
<1> DEFINE from(j) == IF j < p THEN j ELSE j + 1
<1>12. \A j \in 1..Len(r) : from(j) \in 1..Len(q) /\ from(j) # p /\ r[j] = q[from(j)]
  BY <1>11
<1>13. \A i, j \in 1..Len(r) : from(i) = from(j) => i = j
  BY <1>11
<1>14. \A i \in 1..Len(q) : i # p => \E j \in 1..Len(r) : from(j) = i
  <2>1. \A i \in 1..Len(q) : i < p => i \in 1..Len(r) /\ from(i) = i
    BY <1>11
  <2>2. \A i \in 1..Len(q) : i > p => i - 1 \in 1..Len(r) /\ from(i - 1) = i
    BY <1>11
  <2>3. \A i \in 1..Len(q) : i # p => i < p \/ i > p
    OBVIOUS
  <2> HIDE DEF from
  <2>4. QED
    BY <2>1, <2>2, <2>3
<1> HIDE DEF from
<1>15. Distinct(r)
  <2>1. ASSUME NEW i \in 1..Len(r), NEW j \in 1..Len(r), r[i].key = r[j].key PROVE i = j
    <3>1. from(i) = from(j)
      BY <1>4, <1>12, <2>1 DEF Distinct
    <3>2. QED
      BY <1>13, <3>1
  <2>2. QED
    BY <2>1 DEF Distinct
<1>16. \A j \in 1..Len(r) : r[j].key # d
  <2>1. ASSUME NEW j \in 1..Len(r), r[j].key = d PROVE FALSE
    <3>1. from(j) = p
      BY <1>4, <1>5, <1>12, <2>1 DEF Distinct
    <3>2. QED
      BY <1>12, <3>1
  <2>2. QED
    BY <2>1
<1>17. SameButFor(q, r, d)
  <2>1. ASSUME NEW i \in 1..Len(q), q[i].key # d PROVE \E j \in 1..Len(r) : r[j] = q[i]
    <3>1. i # p
      BY <1>5, <2>1
    <3>2. PICK j \in 1..Len(r) : from(j) = i
      BY <1>14, <3>1
    <3>3. QED
      BY <1>12, <3>2
  <2>2. \A j \in 1..Len(r) : \E i \in 1..Len(q) : q[i] = r[j]
    BY <1>12
  <2>3. QED
    BY <2>1, <2>2 DEF SameButFor
<1>18. u = WithBucket(t, c, r, n)
  <2>1. u = [t EXCEPT !.buckets[c] = RemoveAt(@, p), !.size = @ - 1]
    BY <1>1, <1>5 DEF HtRemoveEntry
  <2>2. QED
    BY <1>2, <1>3, <1>9, <1>10, <2>1 DEF WithBucket
<1>19. /\ u \in Tables(V) /\ u.hmax = t.hmax /\ u.size = n /\ Filled(u)
       /\ \A e \in 0..(t.hmax - 1) : e # c => u.buckets[e] = t.buckets[e]
       /\ HtHasKey(u, d) <=> \E i \in 1..Len(r) : r[i].key = d
       /\ \A i \in 1..Len(r) : r[i].key = d => HtGet(u, d) = r[i].value
       /\ \A e \in Docs : e # d => (HtHasKey(u, e) <=> HtHasKey(t, e))
       /\ \A e \in Docs : e # d /\ HtHasKey(t, e) => HtGet(u, e) = HtGet(t, e)
  BY <1>1, <1>2, <1>15, <1>17, <1>18, OtherKeys
<1>20. \A e \in Docs : HtHasKey(u, e) <=> e # d /\ HtHasKey(t, e)
  BY <1>16, <1>19
<1>21. Keys(u) = keys \ {d}
  BY <1>6, <1>20 DEF Keys
<1>22. Counted(u)
  BY <1>8, <1>9, <1>19, <1>21 DEF Counted
<1>23. \A e \in Docs : HtHasKey(u, e) => HtGet(u, e) = HtGet(t, e)
  BY <1>19, <1>20
<1>24. u.size = t.size - 1 /\ t.size # 0
  BY <1>3, <1>9, <1>19
<1>25. QED
  BY <1>1, <1>19, <1>20, <1>22, <1>23, <1>24

-----------------------------------------------------------------------------
(* The chains and the count as the runs check them.                         *)

LEMMA FilledIsWellFilled ==
  ASSUME NEW V, NEW t \in Tables(V), Filled(t), Counted(t)
  PROVE  WellFilled(t)
<1>1. /\ t.hmax \in Nat \ {0} /\ t.size \in Nat
      /\ t.buckets \in [0..(t.hmax - 1) -> Seq(Entries(V))]
  BY TableParts
<1>2. PICK keys : keys = Keys(t)
  OBVIOUS
<1>3. IsFiniteSet(keys) /\ Cardinality(keys) = t.size /\ keys \subseteq Docs
  BY <1>2 DEF Counted, Keys
<1>4. ASSUME NEW c \in 0..(t.hmax - 1), NEW i \in 1..Len(t.buckets[c])
      PROVE  /\ t.buckets[c][i].key \in keys
             /\ Bucket(t, t.buckets[c][i].key) = c
             /\ Position(t, t.buckets[c][i].key) = i
  <2>1. PICK q \in Seq(Entries(V)) : q = t.buckets[c]
    BY <1>1
  <2>2. Distinct(q) /\ HashesTo(t, q, c)
    BY <2>1 DEF Filled
  <2>3. i \in 1..Len(q) /\ q[i] \in Entries(V)
    BY <1>4, <2>1
  <2>4. PICK d \in Docs : d = q[i].key
    BY <2>3 DEF Entries
  <2>5. Bucket(t, d) = c
    BY <2>2, <2>3, <2>4 DEF HashesTo
  <2>6. q = t.buckets[Bucket(t, d)]
    BY <2>1, <2>5
  <2>7. /\ HtHasKey(t, d) <=> \E j \in 1..Len(q) : q[j].key = d
        /\ \A j \in 1..Len(q) : q[j].key = d => Position(t, d) = j /\ HtGet(t, d) = q[j].value
    BY <2>2, <2>6, Found
  <2>8. HtHasKey(t, d) /\ Position(t, d) = i
    BY <2>3, <2>4, <2>7
  <2>9. QED
    BY <1>2, <2>1, <2>4, <2>5, <2>8 DEF Keys
<1>5. ASSUME NEW d \in keys
      PROVE  /\ Bucket(t, d) \in 0..(t.hmax - 1)
             /\ Position(t, d) \in 1..Len(t.buckets[Bucket(t, d)])
             /\ t.buckets[Bucket(t, d)][Position(t, d)].key = d
  <2>1. d \in Docs /\ HtHasKey(t, d)
    BY <1>2, <1>5 DEF Keys
  <2>2. Bucket(t, d) \in 0..(t.hmax - 1)
    BY <2>1, BucketType
  <2>3. PICK q : q = t.buckets[Bucket(t, d)]
    OBVIOUS
  <2>4. Distinct(q)
    BY <2>2, <2>3 DEF Filled
  <2>5. HtHasKey(t, d) => Position(t, d) \in 1..Len(q) /\ q[Position(t, d)].key = d
    BY <2>1, <2>3, <2>4, Found
  <2>6. QED
    BY <2>1, <2>2, <2>3, <2>5
<1>6. ASSUME NEW c \in 0..(t.hmax - 1) PROVE Len(t.buckets[c]) <= t.size
  <2>1. PICK n \in Nat : n = Len(t.buckets[c])
    BY <1>1
  <2>2. PICK f : f = [i \in 1..n |-> t.buckets[c][i].key]
    OBVIOUS
  <2>3. f \in [1..n -> keys] /\ DOMAIN f = 1..n
    BY <1>4, <2>1, <2>2
  <2>4. \A i, j \in 1..n : f[i] = f[j] => i = j
    BY <2>1, <2>2 DEF Filled, Distinct
  <2>5. f \in Injection(1..n, keys)
    BY <2>3, <2>4 DEF Injection, IsInjective
  <2>6. Cardinality(1..n) <= Cardinality(keys)
    BY <1>3, <2>5, FS_Injection
  <2>7. Cardinality(1..n) = n
    BY FS_Interval
  <2>8. QED
    BY <1>3, <2>1, <2>6, <2>7
<1> DEFINE places == {<<c, i>> : c \in 0..(t.hmax - 1), i \in 1..t.size}
           used == {p \in places : p[2] <= Len(t.buckets[p[1]])}
           keyAt(p) == t.buckets[p[1]][p[2]].key
<1>7. ASSUME NEW p \in used
      PROVE  /\ p[1] \in 0..(t.hmax - 1) /\ p[2] \in 1..Len(t.buckets[p[1]])
             /\ p = <<p[1], p[2]>>
  <2>1. PICK c \in 0..(t.hmax - 1), i \in 1..t.size : p = <<c, i>>
    OBVIOUS
  <2>2. i <= Len(t.buckets[c]) /\ Len(t.buckets[c]) \in Nat
    BY <1>1, <2>1
  <2>3. QED
    BY <1>1, <2>1, <2>2
<1>8. ASSUME NEW c \in 0..(t.hmax - 1), NEW i \in 1..Len(t.buckets[c])
      PROVE  <<c, i>> \in used
  <2>1. Len(t.buckets[c]) \in Nat /\ Len(t.buckets[c]) <= t.size
    BY <1>1, <1>6
  <2>2. i \in 1..t.size
    BY <1>1, <2>1
  <2>3. QED
    BY <2>1, <2>2
<1> HIDE DEF used
<1>9. \A p \in used : p[1] = Bucket(t, keyAt(p)) /\ p[2] = Position(t, keyAt(p)) /\ keyAt(p) \in keys
  BY <1>4, <1>7
<1>10. \A p, q \in used : keyAt(p) = keyAt(q) => p = q
  <2>1. ASSUME NEW p \in used, NEW q \in used, keyAt(p) = keyAt(q) PROVE p = q
    <3>1. p[1] = q[1] /\ p[2] = q[2]
      BY <1>9, <2>1
    <3>2. QED
      BY <1>7, <3>1
  <2>2. QED
    BY <2>1
<1>11. Cardinality(used) = t.size
  <2>1. PICK g : g = [d \in keys |-> <<Bucket(t, d), Position(t, d)>>]
    OBVIOUS
  <2>2. \A d \in keys : g[d] \in used /\ keyAt(g[d]) = d
    BY <1>5, <1>8, <2>1
  <2>3. g \in [keys -> used] /\ DOMAIN g = keys
    BY <2>1, <2>2
  <2>4. \A d, e \in keys : g[d] = g[e] => d = e
    BY <2>2
  <2>5. \A p \in used : \E d \in keys : g[d] = p
    <3>1. ASSUME NEW p \in used PROVE g[keyAt(p)] = p /\ keyAt(p) \in keys
      BY <1>7, <1>9, <2>1
    <3>2. QED
      BY <3>1
  <2>6. g \in Bijection(keys, used)
    BY <2>3, <2>4, <2>5 DEF Bijection, Injection, Surjection, IsInjective
  <2>7. ExistsBijection(keys, used)
    BY <2>6 DEF ExistsBijection
  <2>8. QED
    BY <1>3, <2>7, FS_Bijection
<1>12. QED
  BY <1>6, <1>9, <1>10, <1>11 DEF WellFilled, used

\* No more documents than there are names for.
LEMMA CountBound ==
  ASSUME NEW V, NEW t \in Tables(V), Counted(t), IsFiniteSet(Docs)
  PROVE  t.size \in 0..Cardinality(Docs)
<1>1. Keys(t) \in SUBSET Docs
  BY DEF Keys
<1>2. Cardinality(Keys(t)) <= Cardinality(Docs)
  BY <1>1, FS_Subset
<1>3. Cardinality(Docs) \in Nat
  BY FS_CardinalityType
<1>4. t.size \in Nat
  BY TableParts
<1>5. QED
  BY <1>2, <1>3, <1>4 DEF Counted

-----------------------------------------------------------------------------
(* The same changes on sequences, which is how LruCacheOps writes them.     *)

LEMMA RemoveFirstIsWithout ==
  ASSUME NEW S, NEW q \in Seq(S), \A i, j \in 1..Len(q) : q[i] = q[j] => i = j,
         NEW k \in 1..Len(q)
  PROVE  RemoveFirst(q, q[k]) = Without(q, Len(q), k) /\ Without(q, Len(q), k) \in Seq(S)
<1> DEFINE I == {i \in 1..Len(q) : q[i] = q[k]}
<1>1. I = {k} /\ Len(q) \in Nat
  OBVIOUS
<1>2. Min(I) = k
  BY <1>1 DEF Min
<1>3. RemoveFirst(q, q[k]) = RemoveAt(q, k)
  BY <1>1, <1>2 DEF RemoveFirst, SelectInSeq
<1>4. PICK r \in Seq(S) : r = RemoveAt(q, k)
  BY RemoveAtProperties
<1>5. /\ Len(r) = Len(q) - 1
      /\ \A j \in 1..(Len(q) - 1) : r[j] = IF j < k THEN q[j] ELSE q[j + 1]
  <2>1. /\ Len(RemoveAt(q, k)) = Len(q) - 1
        /\ \A j \in 1..(Len(q) - 1) : RemoveAt(q, k)[j] = IF j < k THEN q[j] ELSE q[j + 1]
    BY RemoveAtProperties
  <2>2. QED
    BY <1>4, <2>1
<1>6. r = [j \in 1..(Len(q) - 1) |-> r[j]]
  BY <1>5, LenProperties
<1>7. r = Without(q, Len(q), k)
  <2>1. [j \in 1..(Len(q) - 1) |-> r[j]]
           = [j \in 1..(Len(q) - 1) |-> IF j < k THEN q[j] ELSE q[j + 1]]
    BY <1>5
  <2>2. QED
    BY <1>6, <2>1 DEF Without
<1>8. QED
  BY <1>3, <1>4, <1>7

LEMMA TailIsWithout ==
  ASSUME NEW S, NEW q \in Seq(S), Len(q) # 0
  PROVE  /\ 1 \in 1..Len(q) /\ Head(q) = q[1]
         /\ Tail(q) = Without(q, Len(q), 1) /\ Without(q, Len(q), 1) \in Seq(S)
<1>1. Len(q) \in Nat /\ q # <<>> /\ 1 \in 1..Len(q)
  OBVIOUS
<1>2. PICK r \in Seq(S) : r = Tail(q)
  BY <1>1, HeadTailProperties
<1>3. Len(r) = Len(q) - 1 /\ \A i \in 1..(Len(q) - 1) : r[i] = q[i + 1]
  BY <1>1, <1>2
<1>4. r = [i \in 1..(Len(q) - 1) |-> r[i]]
  BY <1>3, LenProperties
<1>5. r = Without(q, Len(q), 1)
  <2>1. [i \in 1..(Len(q) - 1) |-> r[i]]
           = [i \in 1..(Len(q) - 1) |-> IF i < 1 THEN q[i] ELSE q[i + 1]]
    BY <1>3
  <2>2. QED
    BY <1>4, <2>1 DEF Without
<1>6. Head(q) = q[1]
  BY <1>1
<1>7. QED
  BY <1>1, <1>2, <1>5, <1>6

LEMMA AppendIsInserted ==
  ASSUME NEW S, NEW q \in Seq(S), NEW e \in S, NEW n \in Nat, n = Len(q)
  PROVE  Append(q, e) = Inserted(q, n, n, e)
<1>1. PICK r \in Seq(S) : r = Append(q, e)
  BY AppendProperties
<1>2. Len(r) = n + 1 /\ r[n + 1] = e /\ \A i \in 1..n : r[i] = q[i]
  BY <1>1
<1>3. r = [i \in 1..(n + 1) |-> r[i]]
  BY <1>2, LenProperties
<1>4. \A i \in 1..(n + 1) : r[i] = IF i <= n THEN q[i] ELSE IF i = n + 1 THEN e ELSE q[i - 1]
  BY <1>2
<1>5. r = Inserted(q, n, n, e)
  <2>1. [i \in 1..(n + 1) |-> r[i]]
     = [i \in 1..(n + 1) |-> IF i <= n THEN q[i] ELSE IF i = n + 1 THEN e ELSE q[i - 1]]
    BY <1>4
  <2>2. QED
    BY <1>3, <2>1 DEF Inserted
<1>6. QED
  BY <1>1, <1>5

-----------------------------------------------------------------------------
(* The inductive invariant.                                                 *)

\* The cache's table has one entry for every node of the list, its address.
InStep(l, t) ==
    /\ l.size = t.size
    /\ \A a \in Allocated(l) : HtHasKey(t, KeyAt(l, a)) /\ HtGet(t, KeyAt(l, a)) = a
    /\ \A d \in Docs : HtHasKey(t, d) =>
          HtGet(t, d) \in Allocated(l) /\ KeyAt(l, HtGet(t, d)) = d

Sound(t, V) == t \in Tables(V) /\ Filled(t) /\ Counted(t)

CacheSound(l, t) ==
    /\ l \in List(Infos) /\ WellLinked(l)
    /\ Sound(t, Addr) /\ t.size <= t.hmax
    /\ InStep(l, t)

\* The table of the cache goes first when a server is freed, then the list.
CacheFreed(l, t) ==
    /\ l \in List(Infos) /\ WellLinked(l) /\ l.size <= t.hmax
    /\ Sound(t, Addr) /\ Keys(t) = {}

\* The first n entries of bucket c stay with this server.
Passed(c, n) == \A i \in 1..Len(db.buckets[c]) : i < n => db.buckets[c][i].key \notin leaving

\* No document of bucket c has to move any more.
Clean(c) == \A i \in 1..Len(db.buckets[c]) : db.buckets[c][i].key \notin leaving

\* The buckets below the index of the scan are done with, and the entries of
\* the bucket it is at up to curr.  The index of the increment may be UintRange - 1,
\* one below the first bucket.
ScanInv ==
    /\ pc = "bucket" => /\ b < db.hmax /\ Passed(b, curr)
                        /\ curr > 0 /\ curr <= Len(db.buckets[b]) + 1
                        /\ \A c \in 0..(b - 1) : Clean(c)
    /\ pc = "increment" => /\ (b + 1) % UintRange <= db.hmax
                           /\ \A c \in 0..(((b + 1) % UintRange) - 1) : Clean(c)
    /\ pc = "link" => \A c \in 0..(db.hmax - 1) : Clean(c)

Control ==
    /\ table.hmax \in CacheSizes /\ db.hmax = 2 * table.hmax
    /\ leaving \in SUBSET Docs
    /\ b \in 0..(UintRange - 1) /\ curr \in Nat
    /\ pc \in {"ready", "bucket", "increment", "link", "free", "freed"}
    /\ read \in Contents \cup {NULL}

IInv ==
    /\ Control
    /\ ~ Freed => CacheSound(order, table)
    /\ Freed => CacheFreed(order, table)
    /\ Sound(db, Contents) /\ Sound(fresh, Contents)
    /\ ScanInv

-----------------------------------------------------------------------------
(* The cache of one server, [order, table], and what it is seen from        *)
(* outside: the cache of LruCacheOps.                                       *)

LEMMA NodeData ==
  ASSUME NEW l \in List(Infos), NEW a \in Allocated(l)
  PROVE  /\ a \in Addr /\ l.node[a].data \in Infos
         /\ KeyAt(l, a) \in Docs /\ l.node[a].data.value \in Contents
<1>1. a \in Addr /\ l.node[a].data \in Infos
  BY FreeAssumption, NodeParts
<1>2. QED
  BY <1>1 DEF Infos, KeyAt

LEMMA Ordered ==
  ASSUME NEW l \in List(Infos), WellLinked(l)
  PROVE  \E s : Lists(l, s)
BY WellLinkedParts DEF Lists

LEMMA ListsIsWellLinked ==
  ASSUME NEW l \in List(Infos), NEW s, Lists(l, s)
  PROVE  WellLinked(l)
BY WellLinkedParts DEF Lists

\* The keys in the order s of the nodes.
Named(l, s, n) == [i \in 1..n |-> KeyAt(l, s[i])]

LEMMA KeyListIsNamed ==
  ASSUME NEW l \in List(Infos), NEW s, Lists(l, s)
  PROVE  KeyList(l) = Named(l, s, l.size)
<1>1. Walk(l) = s
  BY WalkIsOrder DEF Lists
<1>2. QED
  BY <1>1 DEF KeyList, Named

LEMMA NamesApart ==
  ASSUME NEW l, NEW t, CacheSound(l, t), NEW s, Lists(l, s), NEW n \in Nat, n = l.size
  PROVE  /\ \A i \in 1..n : s[i] \in Allocated(l) /\ KeyAt(l, s[i]) \in Docs
         /\ \A i, j \in 1..n : KeyAt(l, s[i]) = KeyAt(l, s[j]) => i = j
         /\ \A i, j \in 1..n : s[i] = s[j] => i = j
         /\ Named(l, s, n) \in Seq(Docs) /\ Len(Named(l, s, n)) = n
         /\ \A i \in 1..n : Named(l, s, n)[i] = KeyAt(l, s[i])
<1>1. l \in List(Infos) /\ InStep(l, t)
  BY DEF CacheSound
<1>2. \A i \in 1..n : s[i] \in Allocated(l)
  BY DEF Lists, Linked
<1>3. \A i \in 1..n : KeyAt(l, s[i]) \in Docs
  BY <1>1, <1>2, NodeData
<1>4. \A i, j \in 1..n : s[i] = s[j] => i = j
  BY DEF Lists, Linked
<1>5. \A i, j \in 1..n : KeyAt(l, s[i]) = KeyAt(l, s[j]) => i = j
  <2>1. \A i \in 1..n : HtGet(t, KeyAt(l, s[i])) = s[i]
    BY <1>1, <1>2 DEF InStep
  <2>2. QED
    BY <1>4, <2>1
<1>6. PICK q : q = Named(l, s, n)
  OBVIOUS
<1>7. q \in [1..n -> Docs] /\ \A i \in 1..n : q[i] = KeyAt(l, s[i])
  BY <1>3, <1>6 DEF Named
<1>8. q \in Seq(Docs) /\ Len(q) = n
  <2>1. q \in Seq(Docs)
    BY <1>7, SeqDef
  <2>2. QED
    BY <1>7, <2>1, LenProperties
<1>9. QED
  BY <1>2, <1>3, <1>4, <1>5, <1>6, <1>7, <1>8

LEMMA PlaceOf ==
  ASSUME NEW l, NEW t, CacheSound(l, t), NEW s, Lists(l, s), NEW d \in Docs, HtHasKey(t, d)
  PROVE  \E k \in 1..l.size : /\ s[k] = HtGet(t, d) /\ KeyAt(l, s[k]) = d
                              /\ GetNode(l, d) = s[k]
<1>1. l \in List(Infos) /\ InStep(l, t)
  BY DEF CacheSound
<1>2. HtGet(t, d) \in Allocated(l) /\ KeyAt(l, HtGet(t, d)) = d
  BY <1>1 DEF InStep
<1>3. PICK k \in 1..l.size : s[k] = HtGet(t, d)
  BY <1>2 DEF Lists, Complete
<1>4. PICK n \in Nat : n = l.size
  BY <1>1 DEF List
<1>5. \A i \in 1..n : KeyAt(l, s[i]) = d => i = k
  BY <1>2, <1>3, <1>4, NamesApart
<1>6. GetNode(l, d) = s[k]
  <2>1. Linked(l, s) /\ l.node[s[k]].data.key = d
    BY <1>2, <1>3 DEF Lists, KeyAt
  <2>2. \A i \in 1..l.size : l.node[s[i]].data.key = d => i = k
    BY <1>4, <1>5 DEF KeyAt
  <2>3. QED
    BY <1>1, <2>1, <2>2, GetNodeSound
<1>7. QED
  BY <1>2, <1>3, <1>6

-----------------------------------------------------------------------------
(* A hit: the node moves to the end and to another address.                 *)

LEMMA MovedToEndIs ==
  ASSUME NEW s, NEW n \in Nat, NEW k \in 1..n, NEW a
  PROVE  MovedToEnd(s, n, k, a)
            = [i \in 1..n |-> IF i = n THEN a ELSE IF i < k THEN s[i] ELSE s[i + 1]]
<1>1. PICK w : w = Without(s, n, k)
  OBVIOUS
<1>2. n - 1 \in Nat /\ (n - 1) + 1 = n
  OBVIOUS
<1>3. \A i \in 1..(n - 1) : w[i] = IF i < k THEN s[i] ELSE s[i + 1]
  BY <1>1 DEF Without
<1>4. MovedToEnd(s, n, k, a)
         = [i \in 1..n |-> IF i <= n - 1 THEN w[i] ELSE IF i = n THEN a ELSE w[i - 1]]
  BY <1>1, <1>2 DEF MovedToEnd, Inserted
<1>5. \A i \in 1..n : (IF i <= n - 1 THEN w[i] ELSE IF i = n THEN a ELSE w[i - 1])
                       = IF i = n THEN a ELSE IF i < k THEN s[i] ELSE s[i + 1]
  <2>1. ASSUME NEW i \in 1..n, i # n
        PROVE  i \in 1..(n - 1) /\ i <= n - 1
    BY <2>1
  <2>2. ASSUME NEW i \in 1..n, i = n
        PROVE  ~ (i <= n - 1)
    BY <2>2
  <2>3. QED
    BY <1>3, <2>1, <2>2
<1>6. QED
  BY <1>4, <1>5

LEMMA KeysOfMoved ==
  ASSUME NEW l, NEW t, CacheSound(l, t), NEW d \in Docs, HtHasKey(t, d),
         NEW a \in Unallocated(l), NEW x, x = HtGet(t, d), NEW m, m = MoveNodeToEnd(l, d, a)
  PROVE  /\ m \in List(Infos) /\ m.size = l.size
         /\ Allocated(m) = (Allocated(l) \ {x}) \cup {a}
         /\ a \notin Allocated(l) /\ x \in Allocated(l)
         /\ m.node[a].data = l.node[x].data
         /\ \A y \in Allocated(l) \ {x} : m.node[y].data = l.node[y].data
         /\ \E u : Lists(m, u)
         /\ KeyList(m) = Append(RemoveFirst(KeyList(l), d), d)
<1>1. l \in List(Infos) /\ WellLinked(l)
  BY DEF CacheSound
<1>2. PICK n \in Nat : n = l.size
  BY <1>1 DEF List
<1>3. PICK s : Lists(l, s)
  BY <1>1, Ordered
<1>4. PICK k \in 1..l.size : s[k] = x /\ KeyAt(l, s[k]) = d /\ GetNode(l, d) = s[k]
  BY <1>3, PlaceOf
<1>5. /\ m \in List(Infos) /\ m.size = l.size
      /\ Allocated(m) = (Allocated(l) \ {x}) \cup {a}
      /\ a \notin Allocated(l) /\ x \in Allocated(l)
      /\ m.node[a].data = l.node[x].data
      /\ \A y \in Allocated(l) \ {x} : m.node[y].data = l.node[y].data
      /\ Lists(m, MovedToEnd(s, l.size, k, a))
  <2>1. GetNode(l, d) = x /\ x = s[k]
    BY <1>4
  <2>2. QED
    BY <1>1, <1>3, <2>1, FreeAssumption, MoveNodeToEndSound
<1>6. /\ \A i \in 1..n : s[i] \in Allocated(l)
      /\ \A i, j \in 1..n : KeyAt(l, s[i]) = KeyAt(l, s[j]) => i = j
      /\ \A i, j \in 1..n : s[i] = s[j] => i = j
      /\ Named(l, s, n) \in Seq(Docs) /\ Len(Named(l, s, n)) = n
      /\ \A i \in 1..n : Named(l, s, n)[i] = KeyAt(l, s[i])
  BY <1>2, <1>3, NamesApart
<1>7. PICK q \in Seq(Docs) : q = Named(l, s, n)
  BY <1>6
<1>8. KeyList(l) = q /\ Len(q) = n /\ k \in 1..n /\ q[k] = d
  BY <1>1, <1>2, <1>3, <1>4, <1>6, <1>7, KeyListIsNamed
<1>9. PICK r \in Seq(Docs) : r = RemoveFirst(q, d) /\ r = Without(q, n, k)
  <2>1. \A i, j \in 1..Len(q) : q[i] = q[j] => i = j
    BY <1>6, <1>7, <1>8
  <2>2. RemoveFirst(q, q[k]) = Without(q, Len(q), k) /\ Without(q, Len(q), k) \in Seq(Docs)
    BY <1>8, <2>1, RemoveFirstIsWithout
  <2>3. QED
    BY <1>8, <2>2
<1>10. Append(r, d) = MovedToEnd(q, n, k, d)
  <2>1. PICK p \in Nat : p = n - 1
    BY <1>8
  <2>2. r = [i \in 1..p |-> IF i < k THEN q[i] ELSE q[i + 1]]
    BY <1>9, <2>1 DEF Without
  <2>3. Len(r) = p
    BY <2>2, LenProperties
  <2>4. Append(r, d) = Inserted(r, p, p, d)
    BY <2>3, AppendIsInserted
  <2>5. QED
    BY <1>9, <2>1, <2>4 DEF MovedToEnd
<1>11. PICK u : u = MovedToEnd(s, n, k, a)
  OBVIOUS
<1>12. u = [i \in 1..n |-> IF i = n THEN a ELSE IF i < k THEN s[i] ELSE s[i + 1]]
  <2>1. k \in 1..n
    BY <1>8
  <2>2. MovedToEnd(s, n, k, a)
           = [i \in 1..n |-> IF i = n THEN a ELSE IF i < k THEN s[i] ELSE s[i + 1]]
    BY <2>1, MovedToEndIs
  <2>3. QED
    BY <1>11, <2>2
<1>13. MovedToEnd(q, n, k, d)
          = [i \in 1..n |-> IF i = n THEN d ELSE IF i < k THEN q[i] ELSE q[i + 1]]
  BY <1>8, MovedToEndIs
<1>14. ASSUME NEW i \in 1..n
       PROVE  KeyAt(m, u[i]) = IF i = n THEN d ELSE IF i < k THEN q[i] ELSE q[i + 1]
  <2>1. CASE i = n
    BY <1>4, <1>5, <1>12, <2>1 DEF KeyAt
  <2>2. CASE i # n
    <3>1. PICK j \in 1..n : j = (IF i < k THEN i ELSE i + 1) /\ j # k
      BY <1>8, <2>2
    <3>2. u[i] = s[j] /\ q[j] = KeyAt(l, s[j])
      BY <1>6, <1>7, <1>12, <2>2, <3>1
    <3>3. s[j] \in Allocated(l) \ {x}
      BY <1>4, <1>6, <1>8, <3>1
    <3>4. KeyAt(m, s[j]) = KeyAt(l, s[j])
      BY <1>5, <3>3 DEF KeyAt
    <3>5. QED
      BY <2>2, <3>1, <3>2, <3>4
  <2>3. QED
    BY <2>1, <2>2
<1>15. KeyList(m) = Append(r, d)
  <2>1. KeyList(m) = [i \in 1..n |-> KeyAt(m, u[i])]
    BY <1>2, <1>5, <1>11, KeyListIsNamed DEF Named
  <2>2. QED
    BY <1>10, <1>13, <1>14, <2>1
<1>16. QED
  BY <1>5, <1>8, <1>9, <1>15

\* The list m with the node of d moved to a, the table u with the pointer to a.
LEMMA Repointed ==
  ASSUME NEW l, NEW t, CacheSound(l, t), NEW d \in Docs, HtHasKey(t, d),
         NEW a \in Unallocated(l), NEW x, x = HtGet(t, d),
         NEW m \in List(Infos), WellLinked(m), m.size = l.size,
         Allocated(m) = (Allocated(l) \ {x}) \cup {a}, KeyAt(m, a) = d,
         \A y \in Allocated(l) \ {x} : m.node[y].data = l.node[y].data,
         NEW u, Sound(u, Addr), u.hmax = t.hmax, u.size = t.size,
         \A e \in Docs : HtHasKey(u, e) <=> HtHasKey(t, e),
         HtGet(u, d) = a, \A e \in Docs : e # d /\ HtHasKey(t, e) => HtGet(u, e) = HtGet(t, e)
  PROVE  /\ CacheSound(m, u)
         /\ Values(m, u) = [Values(l, t) EXCEPT ![d] = m.node[a].data.value]
<1>1. l \in List(Infos) /\ InStep(l, t) /\ t.size <= t.hmax
  BY DEF CacheSound
<1>2. /\ a \notin Allocated(l) /\ x \in Allocated(l) /\ KeyAt(l, x) = d
      /\ \A y \in Allocated(l) : KeyAt(l, y) \in Docs
  <2>1. x \in Allocated(l) /\ KeyAt(l, x) = d
    BY <1>1 DEF InStep
  <2>2. a \notin Allocated(l)
    BY DEF Allocated, Unallocated
  <2>3. QED
    BY <1>1, <2>1, <2>2, NodeData
<1>3. \A y \in Allocated(l) \ {x} : KeyAt(m, y) = KeyAt(l, y)
  BY DEF KeyAt
<1>4. ASSUME NEW y \in Allocated(m)
      PROVE  HtHasKey(u, KeyAt(m, y)) /\ HtGet(u, KeyAt(m, y)) = y
  <2>1. CASE y = a
    BY <2>1
  <2>2. CASE y # a
    <3>1. y \in Allocated(l) \ {x} /\ KeyAt(m, y) = KeyAt(l, y)
      BY <1>3, <2>2
    <3>2. HtHasKey(t, KeyAt(l, y)) /\ HtGet(t, KeyAt(l, y)) = y
      BY <1>1, <3>1 DEF InStep
    <3>3. KeyAt(l, y) # d /\ KeyAt(l, y) \in Docs
      BY <1>2, <3>1, <3>2
    <3>4. QED
      BY <3>1, <3>2, <3>3
  <2>3. QED
    BY <2>1, <2>2
<1>5. ASSUME NEW e \in Docs, HtHasKey(t, e), e # d
      PROVE  /\ HtGet(u, e) = HtGet(t, e) /\ HtGet(t, e) \in Allocated(l) \ {x}
             /\ KeyAt(l, HtGet(t, e)) = e
  <2>1. HtGet(t, e) \in Allocated(l) /\ KeyAt(l, HtGet(t, e)) = e
    BY <1>1, <1>5 DEF InStep
  <2>2. HtGet(t, e) # x
    BY <1>2, <1>5, <2>1
  <2>3. QED
    BY <1>5, <2>1, <2>2
<1>6. ASSUME NEW e \in Docs, HtHasKey(u, e)
      PROVE  HtGet(u, e) \in Allocated(m) /\ KeyAt(m, HtGet(u, e)) = e
  <2>1. CASE e = d
    BY <2>1
  <2>2. CASE e # d
    BY <1>3, <1>5, <1>6, <2>2
  <2>3. QED
    BY <2>1, <2>2
<1>7. InStep(m, u)
  <2>1. m.size = u.size
    BY <1>1 DEF InStep
  <2>2. QED
    BY <1>4, <1>6, <2>1 DEF InStep
<1>8. CacheSound(m, u)
  BY <1>1, <1>7 DEF CacheSound
<1>9. \A e \in Docs : Values(m, u)[e]
                       = IF e = d THEN m.node[a].data.value ELSE Values(l, t)[e]
  <2>1. ASSUME NEW e \in Docs
        PROVE  Values(m, u)[e] = IF e = d THEN m.node[a].data.value ELSE Values(l, t)[e]
    <3>1. CASE e = d
      BY <3>1 DEF Values
    <3>2. CASE e # d /\ HtHasKey(t, e)
      <4>1. m.node[HtGet(u, e)].data = l.node[HtGet(t, e)].data
        BY <1>5, <3>2
      <4>2. QED
        BY <3>2, <4>1 DEF Values
    <3>3. CASE e # d /\ ~ HtHasKey(t, e)
      BY <3>3 DEF Values
    <3>4. QED
      BY <3>1, <3>2, <3>3
  <2>2. QED
    BY <2>1
<1>10. /\ Values(m, u) = [e \in Docs |-> Values(m, u)[e]]
       /\ [Values(l, t) EXCEPT ![d] = m.node[a].data.value]
            = [e \in Docs |-> IF e = d THEN m.node[a].data.value ELSE Values(l, t)[e]]
  BY DEF Values
<1>11. QED
  <2>1. [e \in Docs |-> Values(m, u)[e]]
          = [e \in Docs |-> IF e = d THEN m.node[a].data.value ELSE Values(l, t)[e]]
    BY <1>9
  <2>2. QED
    BY <1>8, <1>10, <2>1

LEMMA StorageMoves ==
  ASSUME NEW q, NEW d
  PROVE  Storage!MoveNodeToEnd(q, d) = Append(RemoveFirst(q, d), d)
<1>1. Storage!RemoveFirst(q, d) = RemoveFirst(q, d)
  BY DEF RemoveFirst, Storage!RemoveFirst, RemoveAt, Storage!RemoveAt, SelectInSeq,
         Storage!SelectInSeq, Min, Storage!Min
<1>2. QED
  BY <1>1 DEF Storage!MoveNodeToEnd

\* The operators of LruCacheOps, field by field.
LEMMA StorageRefresh ==
  ASSUME NEW q, NEW v, NEW n, NEW h, NEW d, NEW c, NEW k, k = Storage!MoveNodeToEnd(q, d)
  PROVE  Storage!Refresh([order |-> q, val |-> v, size |-> n, hmax |-> h], d, c)
            = [order |-> k, val |-> [v EXCEPT ![d] = c], size |-> n, hmax |-> h]
<1>1. PICK x : x = [order |-> q, val |-> v, size |-> n, hmax |-> h]
  OBVIOUS
<1>2. Storage!Refresh(x, d, c) = [x EXCEPT !.order = k, !.val[d] = c]
  BY <1>1 DEF Storage!Refresh
<1>3. [x EXCEPT !.order = k, !.val[d] = c] = [x EXCEPT !.order = k, !.val = [v EXCEPT ![d] = c]]
  BY <1>1
<1>4. QED
  BY <1>1, <1>2, <1>3

LEMMA StorageInsert ==
  ASSUME NEW q, NEW v, NEW n, NEW h, NEW d, NEW c
  PROVE  Storage!Insert([order |-> q, val |-> v, size |-> n, hmax |-> h], d, c)
            = [order |-> Append(q, d), val |-> [v EXCEPT ![d] = c], size |-> n + 1, hmax |-> h]
<1>1. PICK x : x = [order |-> q, val |-> v, size |-> n, hmax |-> h]
  OBVIOUS
<1>2. PICK k : k = Append(q, d)
  OBVIOUS
<1>3. Storage!Insert(x, d, c) = [x EXCEPT !.order = k, !.val[d] = c, !.size = n + 1]
  BY <1>1, <1>2 DEF Storage!Insert
<1>4. [x EXCEPT !.order = k, !.val[d] = c, !.size = n + 1]
         = [x EXCEPT !.order = k, !.val = [v EXCEPT ![d] = c], !.size = n + 1]
  BY <1>1
<1>5. QED
  BY <1>1, <1>2, <1>3, <1>4

LEMMA StorageEvict ==
  ASSUME NEW q, NEW v, NEW n, NEW h, NEW d, d = Head(q)
  PROVE  Storage!Evict([order |-> q, val |-> v, size |-> n, hmax |-> h])
            = [order |-> Tail(q), val |-> [v EXCEPT ![d] = NULL], size |-> n - 1, hmax |-> h]
<1>1. PICK x : x = [order |-> q, val |-> v, size |-> n, hmax |-> h]
  OBVIOUS
<1>2. PICK k : k = Tail(q)
  OBVIOUS
<1>3. Storage!Evict(x) = [x EXCEPT !.order = k, !.val[d] = NULL, !.size = n - 1]
  BY <1>1, <1>2 DEF Storage!Evict, Storage!Victim
<1>4. [x EXCEPT !.order = k, !.val[d] = NULL, !.size = n - 1]
         = [x EXCEPT !.order = k, !.val = [v EXCEPT ![d] = NULL], !.size = n - 1]
  BY <1>1
<1>5. QED
  BY <1>1, <1>2, <1>3, <1>4

LEMMA StorageRemove ==
  ASSUME NEW q, NEW v, NEW n, NEW h, NEW d, v[d] # NULL
  PROVE  Storage!LruCacheRemove([order |-> q, val |-> v, size |-> n, hmax |-> h], d)
            = [order |-> RemoveFirst(q, d), val |-> [v EXCEPT ![d] = NULL],
               size |-> n - 1, hmax |-> h]
<1>1. PICK x : x = [order |-> q, val |-> v, size |-> n, hmax |-> h]
  OBVIOUS
<1>2. PICK k : k = RemoveFirst(q, d)
  OBVIOUS
<1>3. Storage!RemoveFirst(q, d) = k
  BY <1>2 DEF RemoveFirst, Storage!RemoveFirst, RemoveAt, Storage!RemoveAt, SelectInSeq,
              Storage!SelectInSeq, Min, Storage!Min
<1>4. Storage!LruCacheRemove(x, d) = [x EXCEPT !.order = k, !.val[d] = NULL, !.size = n - 1]
  BY <1>1, <1>3 DEF Storage!LruCacheRemove, Storage!Cached
<1>5. [x EXCEPT !.order = k, !.val[d] = NULL, !.size = n - 1]
         = [x EXCEPT !.order = k, !.val = [v EXCEPT ![d] = NULL], !.size = n - 1]
  BY <1>1
<1>6. QED
  BY <1>1, <1>2, <1>4, <1>5

\* The list l with another content in the node a.
WithValue(l, a, c) == [l EXCEPT !.node[a].data.value = c]

LEMMA SetValueSound ==
  ASSUME NEW l \in List(Infos), NEW s, Lists(l, s), NEW a \in Allocated(l), NEW c \in Contents,
         NEW m, m = WithValue(l, a, c)
  PROVE  /\ m \in List(Infos) /\ m.size = l.size /\ Allocated(m) = Allocated(l)
         /\ KeyAt(m, a) = KeyAt(l, a) /\ m.node[a].data.value = c
         /\ \A y \in Allocated(l) : y # a => m.node[y].data = l.node[y].data
         /\ Lists(m, s)
<1>1. PICK old \in Infos : old = l.node[a].data
  BY NodeData
<1>2. PICK info : info = [old EXCEPT !.value = c]
  OBVIOUS
<1>3. info \in Infos /\ info.key = old.key /\ info.value = c
  BY <1>2 DEF Infos
<1>4. m = WithData(l, a, info)
  BY <1>1, <1>2 DEF WithValue, WithData
<1>5. /\ m \in List(Infos) /\ m.size = l.size
      /\ Allocated(m) = Allocated(l) /\ m.node[a].data = info
      /\ \A y \in Allocated(l) : y # a => m.node[y].data = l.node[y].data
      /\ Lists(m, s)
  BY <1>3, <1>4, FreeAssumption, SetDataSound
<1>6. KeyAt(m, a) = KeyAt(l, a) /\ m.node[a].data.value = c
  BY <1>1, <1>3, <1>5 DEF KeyAt
<1>7. QED
  BY <1>5, <1>6

\* The hit branch of lru_cache_put.
LEMMA RefreshSound ==
  ASSUME NEW l, NEW t, CacheSound(l, t), NEW d \in Docs, HtHasKey(t, d),
         NEW a \in Unallocated(l), NEW c \in Contents,
         NEW m, m = WithValue(MoveNodeToEnd(l, d, a), a, c),
         NEW u, u = HtPut(t, d, a)
  PROVE  /\ CacheSound(m, u) /\ u.hmax = t.hmax
         /\ Abs(m, u) = Storage!Refresh(Abs(l, t), d, c)
<1>1. PICK x : x = HtGet(t, d)
  OBVIOUS
<1>2. PICK k : k = MoveNodeToEnd(l, d, a)
  OBVIOUS
<1>3. /\ k \in List(Infos) /\ k.size = l.size
      /\ Allocated(k) = (Allocated(l) \ {x}) \cup {a}
      /\ a \notin Allocated(l) /\ x \in Allocated(l)
      /\ k.node[a].data = l.node[x].data
      /\ \A y \in Allocated(l) \ {x} : k.node[y].data = l.node[y].data
      /\ \E s : Lists(k, s)
      /\ KeyList(k) = Append(RemoveFirst(KeyList(l), d), d)
  BY <1>1, <1>2, KeysOfMoved
<1>4. PICK s : Lists(k, s)
  BY <1>3
<1>5. /\ m \in List(Infos) /\ m.size = k.size /\ Allocated(m) = Allocated(k)
      /\ KeyAt(m, a) = KeyAt(k, a) /\ m.node[a].data.value = c
      /\ \A y \in Allocated(k) : y # a => m.node[y].data = k.node[y].data
      /\ Lists(m, s)
  <2>1. a \in Allocated(k) /\ m = WithValue(k, a, c)
    BY <1>2, <1>3
  <2>2. QED
    BY <1>3, <1>4, <2>1, SetValueSound
<1>6. KeyAt(l, x) = d
  BY <1>1 DEF CacheSound, InStep
<1>7. /\ KeyAt(m, a) = d /\ m.node[a].data.value = c
      /\ \A y \in Allocated(l) \ {x} : m.node[y].data = l.node[y].data
  BY <1>3, <1>5, <1>6 DEF KeyAt
<1>8. t \in Tables(Addr) /\ Filled(t) /\ Counted(t) /\ a \in Addr
  BY DEF CacheSound, Sound, Unallocated
<1>9. /\ u \in Tables(Addr) /\ u.hmax = t.hmax /\ Filled(u)
      /\ u.size = (IF HtHasKey(t, d) THEN t.size ELSE t.size + 1)
      /\ \A e \in Docs : HtHasKey(u, e) <=> e = d \/ HtHasKey(t, e)
      /\ HtGet(u, d) = a
      /\ \A e \in Docs : e # d /\ HtHasKey(t, e) => HtGet(u, e) = HtGet(t, e)
  BY <1>8, HtPutSound
<1>10. Counted(u)
  BY <1>8, HtPutCounted
<1>11. Sound(u, Addr) /\ u.size = t.size /\ \A e \in Docs : HtHasKey(u, e) <=> HtHasKey(t, e)
  BY <1>9, <1>10 DEF Sound
<1>12. WellLinked(m) /\ m.size = l.size /\ Allocated(m) = (Allocated(l) \ {x}) \cup {a}
  BY <1>3, <1>5, ListsIsWellLinked
<1>13. CacheSound(m, u) /\ Values(m, u) = [Values(l, t) EXCEPT ![d] = c]
  <2>1. u.hmax = t.hmax /\ HtGet(u, d) = a
    BY <1>9
  <2>2. \A e \in Docs : e # d /\ HtHasKey(t, e) => HtGet(u, e) = HtGet(t, e)
    BY <1>9
  <2>3. m \in List(Infos)
    BY <1>5
  <2>4. \A e \in Docs : HtHasKey(u, e) <=> HtHasKey(t, e)
    BY <1>11
  <2>5. Sound(u, Addr) /\ u.size = t.size
    BY <1>11
  <2>6. KeyAt(m, a) = d /\ \A y \in Allocated(l) \ {x} : m.node[y].data = l.node[y].data
    BY <1>7
  <2>7. /\ CacheSound(m, u)
        /\ Values(m, u) = [Values(l, t) EXCEPT ![d] = m.node[a].data.value]
    BY <1>1, <1>12, <2>1, <2>2, <2>3, <2>4, <2>5, <2>6, Repointed
  <2>8. QED
    BY <1>7, <2>7
<1>14. KeyList(m) = Storage!MoveNodeToEnd(KeyList(l), d)
  <2>1. KeyList(m) = Named(m, s, m.size) /\ KeyList(k) = Named(k, s, k.size)
    BY <1>3, <1>4, <1>5, KeyListIsNamed
  <2>2. \A i \in 1..k.size : s[i] \in Allocated(k)
    BY <1>4 DEF Lists, Linked
  <2>3. \A y \in Allocated(k) : KeyAt(m, y) = KeyAt(k, y)
    BY <1>5 DEF KeyAt
  <2>4. Named(m, s, m.size) = Named(k, s, k.size)
    BY <1>5, <2>2, <2>3 DEF Named
  <2>5. QED
    BY <1>3, <2>1, <2>4, StorageMoves
<1>15. QED
  BY <1>9, <1>11, <1>13, <1>14, StorageRefresh DEF Abs

\* lru_cache_get on a hit.
LEMMA GetSound ==
  ASSUME NEW l, NEW t, CacheSound(l, t), NEW d \in Docs, HtHasKey(t, d),
         NEW a \in Unallocated(l), NEW m, m = MoveNodeToEnd(l, d, a),
         NEW u, u = HtPut(HtRemoveEntry(t, d), d, a)
  PROVE  /\ CacheSound(m, u) /\ u.hmax = t.hmax
         /\ Abs(m, u) = Storage!LruCacheGet(Abs(l, t), d)
<1>1. PICK x : x = HtGet(t, d)
  OBVIOUS
<1>2. /\ m \in List(Infos) /\ m.size = l.size
      /\ Allocated(m) = (Allocated(l) \ {x}) \cup {a}
      /\ a \notin Allocated(l) /\ x \in Allocated(l)
      /\ m.node[a].data = l.node[x].data
      /\ \A y \in Allocated(l) \ {x} : m.node[y].data = l.node[y].data
      /\ \E s : Lists(m, s)
      /\ KeyList(m) = Append(RemoveFirst(KeyList(l), d), d)
  BY <1>1, KeysOfMoved
<1>3. WellLinked(m)
  BY <1>2, ListsIsWellLinked
<1>4. KeyAt(l, x) = d /\ KeyAt(m, a) = d
  BY <1>1, <1>2 DEF CacheSound, InStep, KeyAt
<1>5. t \in Tables(Addr) /\ Filled(t) /\ Counted(t) /\ a \in Addr /\ t.size \in Nat
  BY TableParts DEF CacheSound, Sound, Unallocated
<1>6. PICK w : w = HtRemoveEntry(t, d)
  OBVIOUS
<1>7. /\ w \in Tables(Addr) /\ w.hmax = t.hmax /\ Filled(w) /\ Counted(w)
      /\ w.size = t.size - 1
      /\ \A e \in Docs : HtHasKey(w, e) <=> e # d /\ HtHasKey(t, e)
      /\ \A e \in Docs : HtHasKey(w, e) => HtGet(w, e) = HtGet(t, e)
  BY <1>5, <1>6, HtRemoveEntrySound
<1>8. /\ u \in Tables(Addr) /\ u.hmax = w.hmax /\ Filled(u)
      /\ u.size = (IF HtHasKey(w, d) THEN w.size ELSE w.size + 1)
      /\ \A e \in Docs : HtHasKey(u, e) <=> e = d \/ HtHasKey(w, e)
      /\ HtGet(u, d) = a
      /\ \A e \in Docs : e # d /\ HtHasKey(w, e) => HtGet(u, e) = HtGet(w, e)
  BY <1>5, <1>6, <1>7, HtPutSound
<1>9. Counted(u)
  BY <1>5, <1>6, <1>7, HtPutCounted
<1>10. Sound(u, Addr) /\ u.hmax = t.hmax /\ u.size = t.size
  BY <1>5, <1>7, <1>8, <1>9 DEF Sound
<1>11. /\ \A e \in Docs : HtHasKey(u, e) <=> HtHasKey(t, e)
       /\ \A e \in Docs : e # d /\ HtHasKey(t, e) => HtGet(u, e) = HtGet(t, e)
  BY <1>7, <1>8
<1>12. /\ CacheSound(m, u)
       /\ Values(m, u) = [Values(l, t) EXCEPT ![d] = m.node[a].data.value]
  BY <1>1, <1>2, <1>3, <1>4, <1>8, <1>10, <1>11, Repointed
<1>13. Values(l, t)[d] = m.node[a].data.value
  BY <1>1, <1>2 DEF Values
<1>14. Values(m, u) = Values(l, t)
  BY <1>12, <1>13 DEF Values
<1>15. m.node[a].data.value # NULL
  <2>1. a \in Allocated(m)
    BY <1>2
  <2>2. m.node[a].data.value \in Contents
    BY <1>2, <2>1, NodeData
  <2>3. QED
    BY <2>2, NoNullAssumption
<1>16. KeyList(m) = Storage!MoveNodeToEnd(KeyList(l), d)
  BY <1>2, StorageMoves
<1>17. QED
  BY <1>10, <1>12, <1>13, <1>14, <1>15, <1>16 DEF Abs, Storage!LruCacheGet, Storage!Cached

-----------------------------------------------------------------------------
(* A key that comes into the cache, and one that leaves it.                 *)

\* The insertion of lru_cache_put, into a cache with room.
LEMMA InsertSound ==
  ASSUME NEW l, NEW t, CacheSound(l, t), NEW d \in Docs, ~ HtHasKey(t, d), t.size < t.hmax,
         NEW a \in Unallocated(l), NEW c \in Contents,
         NEW m, m = AddNthNode(l, l.size, a, Info(d, c)), NEW u, u = HtPut(t, d, a)
  PROVE  /\ CacheSound(m, u) /\ u.hmax = t.hmax
         /\ Abs(m, u) = Storage!Insert(Abs(l, t), d, c)
<1>1. /\ l \in List(Infos) /\ WellLinked(l) /\ InStep(l, t) /\ a \in Addr
      /\ t \in Tables(Addr) /\ Filled(t) /\ Counted(t)
  BY DEF CacheSound, Sound, Unallocated
<1>2. PICK n \in Nat : n = l.size
  BY <1>1 DEF List
<1>3. PICK s : Lists(l, s)
  BY <1>1, Ordered
<1>4. PICK info \in Infos : info = Info(d, c) /\ info.key = d /\ info.value = c
  BY DEF Info, Infos
<1>5. /\ m \in List(Infos) /\ m.size = l.size + 1
      /\ Allocated(m) = Allocated(l) \cup {a} /\ a \notin Allocated(l)
      /\ m.node[a].data = info
      /\ \A y \in Allocated(l) : m.node[y].data = l.node[y].data
      /\ Lists(m, Inserted(s, l.size, l.size, a))
  BY <1>1, <1>3, <1>4, FreeAssumption, AddLastSound
<1>6. /\ u \in Tables(Addr) /\ u.hmax = t.hmax /\ Filled(u) /\ u.size = t.size + 1
      /\ \A e \in Docs : HtHasKey(u, e) <=> e = d \/ HtHasKey(t, e)
      /\ HtGet(u, d) = a
      /\ \A e \in Docs : e # d /\ HtHasKey(t, e) => HtGet(u, e) = HtGet(t, e)
  BY <1>1, HtPutSound
<1>7. Counted(u)
  BY <1>1, HtPutCounted
<1>8. Sound(u, Addr) /\ u.size <= u.hmax
  <2>1. t.hmax \in Nat /\ t.size \in Nat
    BY <1>1, TableParts
  <2>2. QED
    BY <1>6, <1>7, <2>1 DEF Sound
<1>9. \A y \in Allocated(l) : /\ KeyAt(l, y) \in Docs /\ HtHasKey(t, KeyAt(l, y))
                              /\ HtGet(t, KeyAt(l, y)) = y
                              /\ KeyAt(m, y) = KeyAt(l, y) /\ KeyAt(l, y) # d
  <2>1. ASSUME NEW y \in Allocated(l)
        PROVE  /\ KeyAt(l, y) \in Docs /\ HtHasKey(t, KeyAt(l, y))
               /\ HtGet(t, KeyAt(l, y)) = y /\ KeyAt(m, y) = KeyAt(l, y)
    BY <1>1, <1>5, NodeData DEF InStep, KeyAt
  <2>2. QED
    BY <2>1
<1>10. KeyAt(m, a) = d
  BY <1>4, <1>5 DEF KeyAt
<1>11. InStep(m, u)
  <2>1. m.size = u.size
    BY <1>1, <1>5, <1>6 DEF InStep
  <2>2. ASSUME NEW y \in Allocated(m)
        PROVE  HtHasKey(u, KeyAt(m, y)) /\ HtGet(u, KeyAt(m, y)) = y
    <3>1. CASE y = a
      BY <1>6, <1>10, <3>1
    <3>2. CASE y \in Allocated(l)
      BY <1>6, <1>9, <3>2
    <3>3. QED
      BY <1>5, <3>1, <3>2
  <2>3. ASSUME NEW e \in Docs, HtHasKey(u, e)
        PROVE  HtGet(u, e) \in Allocated(m) /\ KeyAt(m, HtGet(u, e)) = e
    <3>1. CASE e = d
      BY <1>5, <1>6, <1>10, <3>1
    <3>2. CASE e # d
      <4>1. HtHasKey(t, e) /\ HtGet(u, e) = HtGet(t, e)
        BY <1>6, <2>3, <3>2
      <4>2. HtGet(t, e) \in Allocated(l) /\ KeyAt(l, HtGet(t, e)) = e
        BY <1>1, <4>1 DEF InStep
      <4>3. QED
        BY <1>5, <1>9, <4>1, <4>2
    <3>3. QED
      BY <3>1, <3>2
  <2>4. QED
    BY <2>1, <2>2, <2>3 DEF InStep
<1>12. PICK w : w = Inserted(s, n, n, a)
  OBVIOUS
<1>13. Lists(m, w) /\ WellLinked(m)
  <2>1. Lists(m, w)
    BY <1>2, <1>5, <1>12
  <2>2. QED
    BY <1>5, <2>1, ListsIsWellLinked
<1>14. CacheSound(m, u)
  BY <1>5, <1>8, <1>11, <1>13 DEF CacheSound
<1>15. KeyList(m) = Append(KeyList(l), d)
  <2>1. /\ \A i \in 1..n : s[i] \in Allocated(l)
        /\ Named(l, s, n) \in Seq(Docs) /\ Len(Named(l, s, n)) = n
        /\ \A i \in 1..n : Named(l, s, n)[i] = KeyAt(l, s[i])
    BY <1>2, <1>3, NamesApart
  <2>2. PICK q \in Seq(Docs) : q = Named(l, s, n)
    BY <2>1
  <2>3. KeyList(l) = q /\ Len(q) = n
    BY <1>1, <1>2, <1>3, <2>1, <2>2, KeyListIsNamed
  <2>4. Append(q, d) = Inserted(q, n, n, d)
    BY <2>3, AppendIsInserted
  <2>5. ASSUME NEW i \in 1..(n + 1)
        PROVE  KeyAt(m, w[i]) = IF i <= n THEN q[i] ELSE IF i = n + 1 THEN d ELSE q[i - 1]
    <3>1. CASE i <= n
      <4>1. i \in 1..n /\ w[i] = s[i]
        BY <1>12, <3>1 DEF Inserted
      <4>2. QED
        BY <1>9, <2>1, <2>2, <3>1, <4>1
    <3>2. CASE i = n + 1
      BY <1>10, <1>12, <3>2 DEF Inserted
    <3>3. QED
      BY <3>1, <3>2
  <2>6. KeyList(m) = [i \in 1..(n + 1) |-> KeyAt(m, w[i])]
    BY <1>2, <1>5, <1>13, KeyListIsNamed DEF Named
  <2>7. QED
    BY <2>3, <2>4, <2>5, <2>6 DEF Inserted
<1>16. Values(m, u) = [Values(l, t) EXCEPT ![d] = c]
  <2>1. ASSUME NEW e \in Docs
        PROVE  Values(m, u)[e] = IF e = d THEN c ELSE Values(l, t)[e]
    <3>1. CASE e = d
      BY <1>4, <1>5, <1>6, <3>1 DEF Values
    <3>2. CASE e # d /\ HtHasKey(t, e)
      <4>1. HtGet(t, e) \in Allocated(l) /\ HtGet(u, e) = HtGet(t, e)
        BY <1>1, <1>6, <3>2 DEF InStep
      <4>2. m.node[HtGet(u, e)].data = l.node[HtGet(t, e)].data
        BY <1>5, <4>1
      <4>3. QED
        BY <1>6, <3>2, <4>2 DEF Values
    <3>3. CASE e # d /\ ~ HtHasKey(t, e)
      BY <1>6, <3>3 DEF Values
    <3>4. QED
      BY <3>1, <3>2, <3>3
  <2>2. /\ Values(m, u) = [e \in Docs |-> Values(m, u)[e]]
        /\ [Values(l, t) EXCEPT ![d] = c]
             = [e \in Docs |-> IF e = d THEN c ELSE Values(l, t)[e]]
    BY DEF Values
  <2>3. [e \in Docs |-> Values(m, u)[e]]
          = [e \in Docs |-> IF e = d THEN c ELSE Values(l, t)[e]]
    BY <2>1
  <2>4. QED
    BY <2>2, <2>3
<1>17. Abs(m, u) = Storage!Insert(Abs(l, t), d, c)
  <2>1. Storage!Insert(Abs(l, t), d, c)
           = [order |-> Append(KeyList(l), d), val |-> [Values(l, t) EXCEPT ![d] = c],
              size |-> t.size + 1, hmax |-> t.hmax]
    BY StorageInsert DEF Abs
  <2>2. QED
    BY <1>6, <1>15, <1>16, <2>1 DEF Abs
<1>18. QED
  BY <1>6, <1>14, <1>17

\* A node goes, and the entry of its key: lru_cache_remove and the eviction.
LEMMA DropSound ==
  ASSUME NEW l, NEW t, CacheSound(l, t), NEW s, Lists(l, s), NEW n \in Nat, n = l.size,
         NEW k \in 1..n, NEW x, x = s[k], NEW d, d = KeyAt(l, x),
         NEW m, m = RemoveNode(l, x), NEW u, u = HtRemoveEntry(t, d)
  PROVE  /\ CacheSound(m, u) /\ u.hmax = t.hmax /\ u.size = t.size - 1 /\ u.size < t.size
         /\ x \in Allocated(l) /\ Allocated(m) = Allocated(l) \ {x}
         /\ \A e \in Docs : HtHasKey(u, e) <=> e # d /\ HtHasKey(t, e)
         /\ KeyList(m) = Without(KeyList(l), n, k)
         /\ Values(m, u) = [Values(l, t) EXCEPT ![d] = NULL]
<1>1. /\ l \in List(Infos) /\ WellLinked(l) /\ InStep(l, t) /\ t.size <= t.hmax
      /\ t \in Tables(Addr) /\ Filled(t) /\ Counted(t)
  BY DEF CacheSound, Sound
<1>2. /\ m \in List(Infos) /\ m.size = l.size - 1
      /\ Allocated(m) = Allocated(l) \ {x} /\ x \in Allocated(l)
      /\ \A y \in Allocated(m) : m.node[y].data = l.node[y].data
      /\ Lists(m, Without(s, l.size, k))
  <2>1. k \in 1..l.size
    OBVIOUS
  <2>2. QED
    BY <1>1, <2>1, FreeAssumption, RemoveNodeSound
<1>3. d \in Docs /\ HtHasKey(t, d) /\ HtGet(t, d) = x
  <2>1. x \in Allocated(l)
    BY <1>2
  <2>2. QED
    BY <1>1, <2>1, NodeData DEF InStep
<1>4. /\ u \in Tables(Addr) /\ u.hmax = t.hmax /\ Filled(u) /\ Counted(u)
      /\ u.size = t.size - 1
      /\ \A e \in Docs : HtHasKey(u, e) <=> e # d /\ HtHasKey(t, e)
      /\ \A e \in Docs : HtHasKey(u, e) => HtGet(u, e) = HtGet(t, e)
  BY <1>1, <1>3, HtRemoveEntrySound
<1>5. Sound(u, Addr) /\ u.size < t.size /\ u.size <= u.hmax
  <2>1. t.hmax \in Nat /\ t.size \in Nat
    BY <1>1, TableParts
  <2>2. QED
    BY <1>1, <1>4, <2>1 DEF Sound
<1>6. \A y \in Allocated(m) : /\ KeyAt(m, y) = KeyAt(l, y) /\ KeyAt(l, y) \in Docs
                              /\ HtHasKey(t, KeyAt(l, y)) /\ HtGet(t, KeyAt(l, y)) = y
                              /\ KeyAt(l, y) # d
  <2>1. ASSUME NEW y \in Allocated(m)
        PROVE  /\ KeyAt(m, y) = KeyAt(l, y) /\ KeyAt(l, y) \in Docs
               /\ HtHasKey(t, KeyAt(l, y)) /\ HtGet(t, KeyAt(l, y)) = y /\ y # x
    <3>1. y \in Allocated(l) /\ y # x
      BY <1>2
    <3>2. QED
      BY <1>1, <1>2, <3>1, NodeData DEF InStep, KeyAt
  <2>2. QED
    BY <1>3, <2>1
<1>7. ASSUME NEW e \in Docs, HtHasKey(u, e)
      PROVE  /\ HtGet(u, e) = HtGet(t, e) /\ HtGet(t, e) \in Allocated(m)
             /\ KeyAt(m, HtGet(u, e)) = e
  <2>1. HtHasKey(t, e) /\ HtGet(u, e) = HtGet(t, e) /\ e # d
    BY <1>4, <1>7
  <2>2. HtGet(t, e) \in Allocated(l) /\ KeyAt(l, HtGet(t, e)) = e
    BY <1>1, <2>1 DEF InStep
  <2>3. HtGet(t, e) \in Allocated(m)
    BY <1>2, <2>1, <2>2
  <2>4. QED
    BY <1>6, <2>1, <2>2, <2>3
<1>8. InStep(m, u)
  <2>1. m.size = u.size
    BY <1>1, <1>2, <1>4 DEF InStep
  <2>2. ASSUME NEW y \in Allocated(m)
        PROVE  HtHasKey(u, KeyAt(m, y)) /\ HtGet(u, KeyAt(m, y)) = y
    BY <1>4, <1>6
  <2>3. QED
    BY <1>7, <2>1, <2>2 DEF InStep
<1>9. PICK w : w = Without(s, n, k)
  OBVIOUS
<1>10. Lists(m, w) /\ WellLinked(m)
  <2>1. Lists(m, w)
    BY <1>2, <1>9
  <2>2. QED
    BY <1>2, <2>1, ListsIsWellLinked
<1>11. CacheSound(m, u)
  BY <1>2, <1>5, <1>8, <1>10 DEF CacheSound
<1>12. KeyList(m) = Without(KeyList(l), n, k)
  <2>1. PICK q : q = KeyList(l)
    OBVIOUS
  <2>2. q = Named(l, s, n)
    BY <1>1, <2>1, KeyListIsNamed
  <2>3. \A i \in 1..n : q[i] = KeyAt(l, s[i])
    BY <2>2 DEF Named
  <2>4. \A i \in 1..(n - 1) : w[i] \in Allocated(m)
    BY <1>2, <1>10 DEF Lists, Linked
  <2>5. ASSUME NEW i \in 1..(n - 1)
        PROVE  KeyAt(m, w[i]) = IF i < k THEN q[i] ELSE q[i + 1]
    <3>1. KeyAt(m, w[i]) = KeyAt(l, w[i])
      BY <1>6, <2>4
    <3>2. i \in 1..n /\ i + 1 \in 1..n
      OBVIOUS
    <3>3. w[i] = IF i < k THEN s[i] ELSE s[i + 1]
      BY <1>9 DEF Without
    <3>4. QED
      BY <2>3, <3>1, <3>2, <3>3
  <2>6. KeyList(m) = Named(m, w, m.size) /\ m.size = n - 1
    BY <1>2, <1>10, KeyListIsNamed
  <2>7. KeyList(m) = [i \in 1..(n - 1) |-> KeyAt(m, w[i])]
    BY <2>6 DEF Named
  <2>8. QED
    BY <2>1, <2>5, <2>7 DEF Without
<1>13. Values(m, u) = [Values(l, t) EXCEPT ![d] = NULL]
  <2>1. ASSUME NEW e \in Docs
        PROVE  Values(m, u)[e] = IF e = d THEN NULL ELSE Values(l, t)[e]
    <3>1. CASE HtHasKey(u, e)
      <4>1. m.node[HtGet(u, e)].data = l.node[HtGet(t, e)].data
        BY <1>2, <1>7, <3>1
      <4>2. QED
        BY <1>4, <3>1, <4>1 DEF Values
    <3>2. CASE ~ HtHasKey(u, e)
      BY <1>4, <3>2 DEF Values
    <3>3. QED
      BY <3>1, <3>2
  <2>2. /\ Values(m, u) = [e \in Docs |-> Values(m, u)[e]]
        /\ [Values(l, t) EXCEPT ![d] = NULL]
             = [e \in Docs |-> IF e = d THEN NULL ELSE Values(l, t)[e]]
    BY DEF Values
  <2>3. [e \in Docs |-> Values(m, u)[e]]
          = [e \in Docs |-> IF e = d THEN NULL ELSE Values(l, t)[e]]
    BY <2>1
  <2>4. QED
    BY <2>2, <2>3
<1>14. QED
  BY <1>2, <1>4, <1>5, <1>11, <1>12, <1>13

LEMMA AbsCached ==
  ASSUME NEW l, NEW t, CacheSound(l, t), NEW d \in Docs
  PROVE  /\ Storage!Cached(Abs(l, t), d) <=> HtHasKey(t, d)
         /\ HtHasKey(t, d) => Values(l, t)[d] = l.node[HtGet(t, d)].data.value
         /\ HtHasKey(t, d) => Values(l, t)[d] # NULL
         /\ ~ HtHasKey(t, d) => Values(l, t)[d] = NULL
<1>1. l \in List(Infos) /\ InStep(l, t)
  BY DEF CacheSound
<1>2. HtHasKey(t, d) => l.node[HtGet(t, d)].data.value \in Contents
  BY <1>1, NodeData DEF InStep
<1>3. Values(l, t)[d] = IF HtHasKey(t, d) THEN l.node[HtGet(t, d)].data.value ELSE NULL
  BY DEF Values
<1>4. Values(l, t)[d] # NULL <=> HtHasKey(t, d)
  BY <1>2, <1>3, NoNullAssumption
<1>5. Abs(l, t).val = Values(l, t)
  BY DEF Abs
<1>6. QED
  BY <1>3, <1>4, <1>5 DEF Storage!Cached

\* The eviction of lru_cache_put.
LEMMA EvictSound ==
  ASSUME NEW l, NEW t, CacheSound(l, t), t.size = t.hmax,
         NEW r, r = Evict([order |-> l, table |-> t])
  PROVE  /\ CacheSound(r.order, r.table)
         /\ r.table.hmax = t.hmax /\ r.table.size < t.size
         /\ Unallocated(r.order) = Unallocated(l) \cup {l.head}
         /\ \A e \in Docs : HtHasKey(r.table, e) => HtHasKey(t, e)
         /\ Abs(r.order, r.table) = Storage!Evict(Abs(l, t))
<1>1. l \in List(Infos) /\ WellLinked(l) /\ InStep(l, t) /\ t \in Tables(Addr)
  BY DEF CacheSound, Sound
<1>2. PICK n \in Nat : n = l.size
  BY <1>1 DEF List
<1>3. PICK s : Lists(l, s)
  BY <1>1, Ordered
<1>4. l.size # 0
  BY <1>1, TableParts DEF InStep
<1>5. /\ 1 \in 1..l.size /\ l.head = s[1]
      /\ RemoveNthNode(l, 0) = RemoveNode(l, s[1])
  BY <1>1, <1>3, <1>4, FreeAssumption, RemoveFirstNode
<1>6. PICK x : x = s[1]
  OBVIOUS
<1>7. PICK d : d = KeyAt(l, x)
  OBVIOUS
<1>8. PICK m : m = RemoveNode(l, x)
  OBVIOUS
<1>9. PICK u : u = HtRemoveEntry(t, d)
  OBVIOUS
<1>10. r.order = m /\ r.table = u
  BY <1>5, <1>6, <1>7, <1>8, <1>9 DEF Evict, Victim, KeyAt
<1>11. /\ CacheSound(m, u) /\ u.hmax = t.hmax /\ u.size = t.size - 1 /\ u.size < t.size
       /\ x \in Allocated(l) /\ Allocated(m) = Allocated(l) \ {x}
       /\ \A e \in Docs : HtHasKey(u, e) <=> e # d /\ HtHasKey(t, e)
       /\ KeyList(m) = Without(KeyList(l), n, 1)
       /\ Values(m, u) = [Values(l, t) EXCEPT ![d] = NULL]
  <2>1. PICK k \in 1..n : k = 1
    BY <1>2, <1>5
  <2>2. x = s[k]
    BY <1>6, <2>1
  <2>3. /\ CacheSound(m, u) /\ u.hmax = t.hmax /\ u.size = t.size - 1 /\ u.size < t.size
        /\ x \in Allocated(l) /\ Allocated(m) = Allocated(l) \ {x}
        /\ \A e \in Docs : HtHasKey(u, e) <=> e # d /\ HtHasKey(t, e)
        /\ KeyList(m) = Without(KeyList(l), n, k)
        /\ Values(m, u) = [Values(l, t) EXCEPT ![d] = NULL]
    BY <1>2, <1>3, <1>7, <1>8, <1>9, <2>2, DropSound
  <2>4. QED
    BY <2>1, <2>3
<1>12. Unallocated(m) = Unallocated(l) \cup {x}
  <2>1. /\ \A y \in Addr : y \in Unallocated(m) <=> y \notin Allocated(m)
        /\ \A y \in Addr : y \in Unallocated(l) <=> y \notin Allocated(l)
        /\ Unallocated(m) \subseteq Addr /\ Unallocated(l) \subseteq Addr
    BY DEF Allocated, Unallocated
  <2>2. x \in Addr
    BY <1>11 DEF Allocated
  <2>3. QED
    BY <1>11, <2>1, <2>2
<1>13. Abs(m, u) = Storage!Evict(Abs(l, t))
  <2>1. PICK q \in Seq(Docs) : q = Named(l, s, n) /\ Len(q) = n /\ q[1] = d
    BY <1>2, <1>3, <1>5, <1>6, <1>7, NamesApart
  <2>2. KeyList(l) = q
    BY <1>1, <1>2, <1>3, <2>1, KeyListIsNamed
  <2>3. Head(q) = q[1] /\ Tail(q) = Without(q, Len(q), 1)
    BY <1>2, <1>4, <2>1, TailIsWithout
  <2>4. d = Head(KeyList(l)) /\ KeyList(m) = Tail(KeyList(l))
    BY <1>11, <2>1, <2>2, <2>3
  <2>5. Storage!Evict(Abs(l, t))
           = [order |-> Tail(KeyList(l)), val |-> [Values(l, t) EXCEPT ![d] = NULL],
              size |-> t.size - 1, hmax |-> t.hmax]
    BY <2>4, StorageEvict DEF Abs
  <2>6. QED
    BY <1>11, <2>4, <2>5 DEF Abs
<1>14. \A e \in Docs : HtHasKey(u, e) => HtHasKey(t, e)
  BY <1>11
<1>15. QED
  BY <1>5, <1>6, <1>10, <1>11, <1>12, <1>13, <1>14

\* lru_cache_put, with any address that malloc may return.
LEMMA PutSound ==
  ASSUME NEW l, NEW t, CacheSound(l, t), NEW d \in Docs, NEW c \in Contents, NEW a \in Addr,
         PutMay([order |-> l, table |-> t], d, a),
         NEW r, r = LruCachePut([order |-> l, table |-> t], d, c, a)
  PROVE  /\ CacheSound(r.order, r.table) /\ r.table.hmax = t.hmax
         /\ Abs(r.order, r.table) = Storage!LruCachePut(Abs(l, t), d, c)
<1>1. t \in Tables(Addr) /\ t.size \in Nat /\ t.hmax \in Nat /\ t.size <= t.hmax
  <2>1. t \in Tables(Addr) /\ t.size <= t.hmax
    BY DEF CacheSound, Sound
  <2>2. QED
    BY <2>1, TableParts
<1>2. Storage!Cached(Abs(l, t), d) <=> HtHasKey(t, d)
  BY AbsCached
<1>3. Storage!LruCacheIsFull(Abs(l, t)) <=> t.hmax = t.size
  BY DEF Storage!LruCacheIsFull, Abs
<1>4. CASE HtHasKey(t, d)
  <2>1. a \in Unallocated(l)
    BY <1>4 DEF PutMay
  <2>2. PICK m, u : m = WithValue(MoveNodeToEnd(l, d, a), a, c) /\ u = HtPut(t, d, a)
    OBVIOUS
  <2>3. r.order = m /\ r.table = u
    BY <1>4, <2>2 DEF LruCachePut, Refresh, WithValue
  <2>4. /\ CacheSound(m, u) /\ u.hmax = t.hmax
        /\ Abs(m, u) = Storage!Refresh(Abs(l, t), d, c)
    BY <1>4, <2>1, <2>2, RefreshSound
  <2>5. Storage!LruCachePut(Abs(l, t), d, c) = Storage!Refresh(Abs(l, t), d, c)
    BY <1>2, <1>4 DEF Storage!LruCachePut
  <2>6. QED
    BY <2>3, <2>4, <2>5
<1>5. CASE ~ HtHasKey(t, d) /\ t.hmax # t.size
  <2>1. a \in Unallocated(l) /\ t.size < t.hmax
    BY <1>1, <1>5 DEF PutMay, IsFull
  <2>2. PICK m, u : m = AddNthNode(l, l.size, a, Info(d, c)) /\ u = HtPut(t, d, a)
    OBVIOUS
  <2>3. r.order = m /\ r.table = u
    BY <1>5, <2>2 DEF LruCachePut, Insert, IsFull
  <2>4. /\ CacheSound(m, u) /\ u.hmax = t.hmax
        /\ Abs(m, u) = Storage!Insert(Abs(l, t), d, c)
    BY <1>5, <2>1, <2>2, InsertSound
  <2>5. Storage!LruCachePut(Abs(l, t), d, c) = Storage!Insert(Abs(l, t), d, c)
    BY <1>2, <1>3, <1>5 DEF Storage!LruCachePut
  <2>6. QED
    BY <2>3, <2>4, <2>5
<1>6. CASE ~ HtHasKey(t, d) /\ t.hmax = t.size
  <2>1. PICK e : e = Evict([order |-> l, table |-> t])
    OBVIOUS
  <2>2. PICK o, v : o = e.order /\ v = e.table
    OBVIOUS
  <2>3. /\ CacheSound(o, v) /\ v.hmax = t.hmax /\ v.size < t.size
        /\ Unallocated(o) = Unallocated(l) \cup {l.head}
        /\ ~ HtHasKey(v, d)
        /\ Abs(o, v) = Storage!Evict(Abs(l, t))
    BY <1>6, <2>1, <2>2, EvictSound
  <2>4. a \in Unallocated(o)
    BY <2>3 DEF PutMay
  <2>5. v.size < v.hmax
    BY <1>6, <2>3
  <2>6. PICK m, u : m = AddNthNode(o, o.size, a, Info(d, c)) /\ u = HtPut(v, d, a)
    OBVIOUS
  <2>7. r.order = m /\ r.table = u
    BY <1>6, <2>1, <2>2, <2>6 DEF LruCachePut, Insert, IsFull
  <2>8. /\ CacheSound(m, u) /\ u.hmax = v.hmax
        /\ Abs(m, u) = Storage!Insert(Abs(o, v), d, c)
    BY <2>3, <2>4, <2>5, <2>6, InsertSound
  <2>9. Storage!LruCachePut(Abs(l, t), d, c) = Storage!Insert(Storage!Evict(Abs(l, t)), d, c)
    BY <1>2, <1>3, <1>6 DEF Storage!LruCachePut
  <2>10. QED
    BY <2>3, <2>7, <2>8, <2>9
<1>7. QED
  BY <1>4, <1>5, <1>6

LEMMA RemoveSound ==
  ASSUME NEW l, NEW t, CacheSound(l, t), NEW d \in Docs,
         NEW r, r = LruCacheRemove([order |-> l, table |-> t], d)
  PROVE  /\ CacheSound(r.order, r.table) /\ r.table.hmax = t.hmax
         /\ Abs(r.order, r.table) = Storage!LruCacheRemove(Abs(l, t), d)
<1>1. l \in List(Infos) /\ WellLinked(l) /\ InStep(l, t) /\ t \in Tables(Addr)
  BY DEF CacheSound, Sound
<1>2. Storage!Cached(Abs(l, t), d) <=> HtHasKey(t, d)
  BY AbsCached
<1>3. CASE ~ HtHasKey(t, d)
  <2>1. r.order = l /\ r.table = t
    BY <1>3 DEF LruCacheRemove
  <2>2. Storage!LruCacheRemove(Abs(l, t), d) = Abs(l, t)
    BY <1>2, <1>3 DEF Storage!LruCacheRemove
  <2>3. QED
    BY <2>1, <2>2
<1>4. CASE HtHasKey(t, d)
  <2>1. PICK n \in Nat : n = l.size
    BY <1>1 DEF List
  <2>2. PICK s : Lists(l, s)
    BY <1>1, Ordered
  <2>3. PICK k \in 1..n : KeyAt(l, s[k]) = d /\ GetNode(l, d) = s[k]
    BY <1>4, <2>1, <2>2, PlaceOf
  <2>4. PICK x : x = s[k] /\ d = KeyAt(l, x)
    BY <2>3
  <2>5. PICK m, u : m = RemoveNode(l, x) /\ u = HtRemoveEntry(t, d)
    OBVIOUS
  <2>6. r.order = m /\ r.table = u
    BY <1>4, <2>3, <2>4, <2>5 DEF LruCacheRemove
  <2>7. /\ CacheSound(m, u) /\ u.hmax = t.hmax /\ u.size = t.size - 1 /\ u.size < t.size
        /\ x \in Allocated(l) /\ Allocated(m) = Allocated(l) \ {x}
        /\ \A e \in Docs : HtHasKey(u, e) <=> e # d /\ HtHasKey(t, e)
        /\ KeyList(m) = Without(KeyList(l), n, k)
        /\ Values(m, u) = [Values(l, t) EXCEPT ![d] = NULL]
    <3>1. x = s[k] /\ d = KeyAt(l, x)
      BY <2>4
    <3>2. m = RemoveNode(l, x) /\ u = HtRemoveEntry(t, d)
      BY <2>5
    <3>3. QED
      BY <2>1, <2>2, <3>1, <3>2, DropSound
  <2>8. KeyList(m) = RemoveFirst(KeyList(l), d)
    <3>1. /\ \A i, j \in 1..n : KeyAt(l, s[i]) = KeyAt(l, s[j]) => i = j
          /\ Named(l, s, n) \in Seq(Docs) /\ Len(Named(l, s, n)) = n
          /\ \A i \in 1..n : Named(l, s, n)[i] = KeyAt(l, s[i])
      BY <2>1, <2>2, NamesApart
    <3>2. PICK q \in Seq(Docs) : q = Named(l, s, n)
      BY <3>1
    <3>3. KeyList(l) = q /\ Len(q) = n /\ q[k] = d
      BY <1>1, <2>1, <2>2, <2>3, <3>1, <3>2, KeyListIsNamed
    <3>4. \A i, j \in 1..Len(q) : q[i] = q[j] => i = j
      BY <3>1, <3>2
    <3>5. RemoveFirst(q, q[k]) = Without(q, Len(q), k)
      BY <3>3, <3>4, RemoveFirstIsWithout
    <3>6. QED
      BY <2>7, <3>3, <3>5
  <2>9. Values(l, t)[d] # NULL
    BY <1>4, AbsCached
  <2>10. Storage!LruCacheRemove(Abs(l, t), d)
            = [order |-> RemoveFirst(KeyList(l), d), val |-> [Values(l, t) EXCEPT ![d] = NULL],
               size |-> t.size - 1, hmax |-> t.hmax]
    BY <2>9, StorageRemove DEF Abs
  <2>11. Abs(m, u) = Storage!LruCacheRemove(Abs(l, t), d)
    BY <2>7, <2>8, <2>10 DEF Abs
  <2>12. QED
    BY <2>6, <2>7, <2>11
<1>5. QED
  BY <1>3, <1>4

-----------------------------------------------------------------------------
(* The tables of documents, and the maps they stand for.                    *)

LEMMA MapAt ==
  ASSUME NEW t, NEW d \in Docs
  PROVE  MapOf(t)[d] = IF HtHasKey(t, d) THEN HtGet(t, d) ELSE NULL
BY DEF MapOf, Lookup

LEMMA GotContent ==
  ASSUME NEW V, NEW t, Sound(t, V), NEW d \in Docs, HtHasKey(t, d)
  PROVE  HtGet(t, d) \in V
<1>1. t \in Tables(V) /\ Filled(t)
  BY DEF Sound
<1>2. PICK q : q = t.buckets[Bucket(t, d)]
  OBVIOUS
<1>3. Bucket(t, d) \in 0..(t.hmax - 1) /\ q \in Seq(Entries(V))
  BY <1>1, <1>2, BucketType
<1>4. Distinct(q)
  BY <1>1, <1>2, <1>3 DEF Filled
<1>5. PICK k : k = Position(t, d)
  OBVIOUS
<1>6. k \in 1..Len(q) /\ q[k].key = d /\ HtGet(t, d) = q[k].value
  BY <1>1, <1>2, <1>4, <1>5, Found
<1>7. q[k] \in Entries(V)
  BY <1>3, <1>6
<1>8. QED
  BY <1>6, <1>7 DEF Entries

\* A document is in the map exactly if the table has an entry for it.
LEMMA MapHas ==
  ASSUME NEW t, Sound(t, Contents), NEW d \in Docs
  PROVE  MapOf(t)[d] # NULL <=> HtHasKey(t, d)
BY MapAt, GotContent, NoNullAssumption

LEMMA Stored ==
  ASSUME NEW V, NEW t, Sound(t, V), NEW d \in Docs, NEW v \in V, NEW u, u = HtPut(t, d, v)
  PROVE  /\ Sound(u, V) /\ u.hmax = t.hmax
         /\ MapOf(u) = [MapOf(t) EXCEPT ![d] = v]
<1>1. t \in Tables(V) /\ Filled(t) /\ Counted(t)
  BY DEF Sound
<1>2. /\ u \in Tables(V) /\ u.hmax = t.hmax /\ Filled(u)
      /\ \A e \in Docs : HtHasKey(u, e) <=> e = d \/ HtHasKey(t, e)
      /\ HtGet(u, d) = v
      /\ \A e \in Docs : e # d /\ HtHasKey(t, e) => HtGet(u, e) = HtGet(t, e)
  BY <1>1, HtPutSound
<1>3. Counted(u)
  BY <1>1, HtPutCounted
<1>4. ASSUME NEW e \in Docs
      PROVE  MapOf(u)[e] = IF e = d THEN v ELSE MapOf(t)[e]
  BY <1>2, MapAt
<1>5. /\ MapOf(u) = [e \in Docs |-> MapOf(u)[e]]
      /\ [MapOf(t) EXCEPT ![d] = v] = [e \in Docs |-> IF e = d THEN v ELSE MapOf(t)[e]]
  BY DEF MapOf
<1>6. [e \in Docs |-> MapOf(u)[e]] = [e \in Docs |-> IF e = d THEN v ELSE MapOf(t)[e]]
  BY <1>4
<1>7. Sound(u, V)
  BY <1>2, <1>3 DEF Sound
<1>8. QED
  BY <1>2, <1>5, <1>6, <1>7

LEMMA Taken ==
  ASSUME NEW V, NEW t, Sound(t, V), NEW d \in Docs, HtHasKey(t, d),
         NEW u, u = HtRemoveEntry(t, d)
  PROVE  /\ Sound(u, V) /\ u.hmax = t.hmax
         /\ \A c \in 0..(t.hmax - 1) : c # Bucket(t, d) => u.buckets[c] = t.buckets[c]
         /\ MapOf(u) = [MapOf(t) EXCEPT ![d] = NULL]
<1>1. t \in Tables(V) /\ Filled(t) /\ Counted(t)
  BY DEF Sound
<1>2. /\ u \in Tables(V) /\ u.hmax = t.hmax /\ Filled(u) /\ Counted(u)
      /\ \A c \in 0..(t.hmax - 1) : c # Bucket(t, d) => u.buckets[c] = t.buckets[c]
      /\ \A e \in Docs : HtHasKey(u, e) <=> e # d /\ HtHasKey(t, e)
      /\ \A e \in Docs : HtHasKey(u, e) => HtGet(u, e) = HtGet(t, e)
  BY <1>1, HtRemoveEntrySound
<1>3. ASSUME NEW e \in Docs
      PROVE  MapOf(u)[e] = IF e = d THEN NULL ELSE MapOf(t)[e]
  BY <1>2, MapAt
<1>4. /\ MapOf(u) = [e \in Docs |-> MapOf(u)[e]]
      /\ [MapOf(t) EXCEPT ![d] = NULL] = [e \in Docs |-> IF e = d THEN NULL ELSE MapOf(t)[e]]
  BY DEF MapOf
<1>5. [e \in Docs |-> MapOf(u)[e]] = [e \in Docs |-> IF e = d THEN NULL ELSE MapOf(t)[e]]
  BY <1>3
<1>6. Sound(u, V)
  BY <1>2 DEF Sound
<1>7. QED
  BY <1>2, <1>4, <1>5, <1>6

LEMMA Created ==
  ASSUME NEW V, NEW h \in Nat \ {0}, NEW t, t = HtCreate(h)
  PROVE  /\ Sound(t, V) /\ t.hmax = h /\ t.size = 0 /\ Keys(t) = {}
         /\ MapOf(t) = [d \in Docs |-> NULL]
         /\ \A d \in Docs : ~ HtHasKey(t, d)
         /\ \A c \in 0..(h - 1) : t.buckets[c] = <<>>
<1>1. /\ t \in Tables(V) /\ t.hmax = h
      /\ Filled(t) /\ Counted(t) /\ Keys(t) = {}
      /\ \A d \in Docs : ~ HtHasKey(t, d)
  BY HtCreateSound
<1>2. Sound(t, V)
  BY <1>1 DEF Sound
<1>3. MapOf(t) = [d \in Docs |-> NULL]
  BY <1>1 DEF MapOf, Lookup
<1>4. t.size = 0 /\ \A c \in 0..(h - 1) : t.buckets[c] = <<>>
  BY DEF HtCreate
<1>5. QED
  BY <1>1, <1>2, <1>3, <1>4

\* The entry e at the place i of the bucket c.
IsEntry(t, c, i, e) ==
    c \in 0..(t.hmax - 1) /\ i \in 1..Len(t.buckets[c]) /\ e = t.buckets[c][i]

LEMMA EntryAt ==
  ASSUME NEW V, NEW t, Sound(t, V), NEW c, NEW i, NEW e, IsEntry(t, c, i, e)
  PROVE  /\ e.key \in Docs /\ e.value \in V
         /\ Bucket(t, e.key) = c /\ HtHasKey(t, e.key) /\ HtGet(t, e.key) = e.value
         /\ MapOf(t)[e.key] = e.value
<1>1. t \in Tables(V) /\ Filled(t)
  BY DEF Sound
<1>2. PICK q : q = t.buckets[c]
  OBVIOUS
<1>3. c \in 0..(t.hmax - 1) /\ i \in 1..Len(q) /\ e = q[i]
  BY <1>2 DEF IsEntry
<1>4. HashesTo(t, q, c) /\ Distinct(q)
  BY <1>1, <1>2, <1>3 DEF Filled
<1>5. q \in Seq(Entries(V))
  BY <1>1, <1>2, <1>3, TableParts
<1>6. e \in Entries(V)
  BY <1>3, <1>5
<1>7. PICK d : d = e.key
  OBVIOUS
<1>8. d \in Docs /\ e.value \in V /\ q[i].key = d /\ q[i].value = e.value
  BY <1>3, <1>6, <1>7 DEF Entries
<1>9. Bucket(t, d) = c
  BY <1>3, <1>4, <1>8 DEF HashesTo
<1>10. q = t.buckets[Bucket(t, d)]
  BY <1>2, <1>9
<1>11. HtHasKey(t, d) /\ HtGet(t, d) = e.value
  BY <1>1, <1>3, <1>4, <1>8, <1>10, Found
<1>12. MapOf(t)[d] = e.value
  BY <1>8, <1>11, MapAt
<1>13. QED
  BY <1>7, <1>8, <1>9, <1>11, <1>12

\* Where a key is that has an entry.
LEMMA Located ==
  ASSUME NEW V, NEW t, Sound(t, V), NEW d \in Docs, HtHasKey(t, d)
  PROVE  \E c \in 0..(t.hmax - 1) : \E i \in 1..Len(t.buckets[c]) : t.buckets[c][i].key = d
<1>1. t \in Tables(V) /\ Filled(t)
  BY DEF Sound
<1>2. PICK c : c = Bucket(t, d)
  OBVIOUS
<1>3. c \in 0..(t.hmax - 1)
  BY <1>1, <1>2, BucketType
<1>4. PICK q : q = t.buckets[c]
  OBVIOUS
<1>5. Distinct(q)
  BY <1>1, <1>3, <1>4 DEF Filled
<1>6. q = t.buckets[Bucket(t, d)]
  BY <1>2, <1>4
<1>7. \E i \in 1..Len(q) : q[i].key = d
  BY <1>1, <1>5, <1>6, Found
<1>8. QED
  BY <1>3, <1>4, <1>7

-----------------------------------------------------------------------------
(* The invariant is inductive.                                              *)

\* The unsigned index of the scan counts beyond the buckets of a database.
LEMMA SizeFacts ==
  ASSUME NEW h \in CacheSizes
  PROVE  /\ UintRange \in Nat /\ h \in Nat \ {0} /\ 2 * h \in Nat \ {0}
         /\ 2 * h < UintRange
<1>1. PICK m : m = (UintRange - 1) \div 2
  OBVIOUS
<1>2. UintRange \in Nat /\ h \in 1..m
  BY <1>1, SizesAssumption
<1>3. m \in Int /\ 2 * m <= UintRange - 1
  BY <1>1, <1>2
<1>4. QED
  BY <1>2, <1>3

\* The loop steps the index back, across 0 if need be, and forward again.
LEMMA BackAndForward ==
  ASSUME NEW u \in Nat, NEW c \in 0..(u - 1)
  PROVE  /\ (c + u - 1) % u \in 0..(u - 1)
         /\ (((c + u - 1) % u) + 1) % u = c
<1>1. CASE c = 0
  BY <1>1
<1>2. CASE c > 0
  <2>1. PICK k \in 0..(u - 1) : k = c - 1
    BY <1>2
  <2>2. (k + u) % u = k /\ (k + 1) % u = k + 1
    BY <1>2, <2>1
  <2>3. c + u - 1 = k + u
    BY <2>1
  <2>4. QED
    BY <2>1, <2>2, <2>3
<1>3. QED
  BY <1>1, <1>2

LEMMA EmptyListSound ==
  /\ EmptyList \in List(Infos) /\ WellLinked(EmptyList)
  /\ Allocated(EmptyList) = {} /\ EmptyList.size = 0
<1>1. PICK l : l = EmptyList
  OBVIOUS
<1>2. l.head = NULL /\ l.tail = NULL /\ l.size = 0 /\ l.node = [a \in Addr |-> NULL]
  BY <1>1 DEF EmptyList
<1>3. Allocated(l) = {}
  BY <1>2 DEF Allocated
<1>4. l \in List(Infos)
  BY <1>1, <1>2 DEF EmptyList, List, Pointer
<1>5. PICK s : s = [i \in 1..0 |-> NULL]
  OBVIOUS
<1>6. 1..0 = {}
  OBVIOUS
<1>7. Linked(l, s) /\ Complete(l, s)
  <2>1. s \in [1..0 -> Allocated(l)]
    BY <1>5, <1>6
  <2>2. At(s, 0, 1) = NULL /\ At(s, 0, 0) = NULL
    BY <1>6 DEF At
  <2>3. QED
    BY <1>2, <1>3, <1>6, <2>1, <2>2 DEF Linked, Complete
<1>8. WellLinked(l)
  BY <1>4, <1>7, WellLinkedParts
<1>9. QED
  BY <1>1, <1>2, <1>3, <1>4, <1>8

\* A cache with nothing in it.
LEMMA EmptyCacheSound ==
  ASSUME NEW h \in Nat \ {0}, NEW t, t = HtCreate(h)
  PROVE  CacheSound(EmptyList, t)
<1>1. /\ Sound(t, Addr) /\ t.hmax = h /\ t.size = 0
      /\ \A d \in Docs : ~ HtHasKey(t, d)
  BY Created
<1>2. InStep(EmptyList, t)
  BY <1>1, EmptyListSound DEF InStep
<1>3. QED
  BY <1>1, <1>2, EmptyListSound DEF CacheSound

LEMMA InitSound ==
  ASSUME Init
  PROVE  IInv
<1>1. PICK h \in CacheSizes : table = HtCreate(h) /\ db = HtCreate(2 * h) /\ fresh = HtCreate(2 * h)
  BY DEF Init
<1>2. /\ UintRange \in Nat /\ h \in Nat \ {0} /\ 2 * h \in Nat \ {0}
      /\ 2 * h < UintRange
  BY SizeFacts
<1>3. PICK k \in Nat \ {0} : k = 2 * h
  BY <1>2
<1>4. CacheSound(order, table) /\ table.hmax = h
  <2>1. order = EmptyList
    BY DEF Init
  <2>2. table.hmax = h
    BY <1>1 DEF HtCreate
  <2>3. QED
    BY <1>1, <1>2, <2>1, <2>2, EmptyCacheSound
<1>5. Sound(db, Contents) /\ Sound(fresh, Contents) /\ db.hmax = k
  BY <1>1, <1>3, Created
<1>6. pc = "ready" /\ leaving = {} /\ b = 0 /\ curr = 0 /\ read = NULL
  BY DEF Init
<1>7. Control
  BY <1>2, <1>3, <1>4, <1>5, <1>6 DEF Control
<1>8. QED
  BY <1>4, <1>5, <1>6, <1>7 DEF IInv, Freed, ScanInv

\* The handlers that begin and end at "ready".
LEMMA ReadyKeeps ==
  ASSUME IInv, pc = "ready", pc' = "ready",
         CacheSound(order', table'), table'.hmax = table.hmax,
         Sound(db', Contents), db'.hmax = db.hmax,
         UNCHANGED scanVars, read' \in Contents \cup {NULL}
  PROVE  IInv'
<1>1. Control' /\ Sound(fresh', Contents)
  BY DEF IInv, Control, scanVars
<1>2. QED
  BY <1>1 DEF IInv, Freed, ScanInv

LEMMA EditKeeps ==
  ASSUME IInv, NEW d \in Docs, NEW c \in Contents, NEW a \in Addr, Edit(d, c, a)
  PROVE  IInv'
<1>1. pc = "ready" /\ pc' = "ready" /\ read' = NULL /\ UNCHANGED scanVars
  BY DEF Edit
<1>2. CacheSound(order, table) /\ Sound(db, Contents)
  BY <1>1 DEF IInv, Freed
<1>3. PICK r : r = LruCachePut([order |-> order, table |-> table], d, c, a)
  OBVIOUS
<1>4. order' = r.order /\ table' = r.table
  BY <1>3 DEF Edit, SetCache, Cache
<1>5. PutMay([order |-> order, table |-> table], d, a)
  BY DEF Edit, Cache
<1>6. CacheSound(r.order, r.table) /\ r.table.hmax = table.hmax
  BY <1>2, <1>3, <1>5, PutSound
<1>7. db' = HtPut(db, d, c)
  BY DEF Edit
<1>8. Sound(db', Contents) /\ db'.hmax = db.hmax
  BY <1>2, <1>7, Stored
<1>9. QED
  BY <1>1, <1>4, <1>6, <1>8, ReadyKeeps

LEMMA GetHitKeeps ==
  ASSUME IInv, NEW d \in Docs, NEW a \in Addr, GetHit(d, a)
  PROVE  IInv'
<1>1. /\ pc = "ready" /\ pc' = "ready" /\ UNCHANGED <<scanVars, db>>
      /\ HtHasKey(table, d) /\ a \in Unallocated(order)
  BY DEF GetHit
<1>2. CacheSound(order, table) /\ Sound(db, Contents)
  BY <1>1 DEF IInv, Freed
<1>3. /\ order' = MoveNodeToEnd(order, d, a)
      /\ table' = HtPut(HtRemoveEntry(table, d), d, a)
  BY DEF GetHit, SetCache, Cache, LruCacheGet
<1>4. CacheSound(order', table') /\ table'.hmax = table.hmax
  BY <1>1, <1>2, <1>3, GetSound
<1>5. read' \in Contents
  <2>1. read' = order.node[HtGet(table, d)].data.value
    BY DEF GetHit, CachedValue, Cache
  <2>2. order \in List(Infos) /\ HtGet(table, d) \in Allocated(order)
    BY <1>1, <1>2 DEF CacheSound, InStep
  <2>3. QED
    BY <2>1, <2>2, NodeData
<1>6. QED
  BY <1>1, <1>2, <1>4, <1>5, ReadyKeeps

LEMMA GetStoredKeeps ==
  ASSUME IInv, NEW d \in Docs, NEW a \in Addr, GetStored(d, a)
  PROVE  IInv'
<1>1. /\ pc = "ready" /\ pc' = "ready" /\ UNCHANGED <<scanVars, db>>
      /\ HtHasKey(db, d) /\ read' = HtGet(db, d)
  BY DEF GetStored
<1>2. CacheSound(order, table) /\ Sound(db, Contents)
  BY <1>1 DEF IInv, Freed
<1>3. PICK c \in Contents : c = HtGet(db, d)
  BY <1>1, <1>2, GotContent
<1>4. PICK r : r = LruCachePut([order |-> order, table |-> table], d, c, a)
  OBVIOUS
<1>5. order' = r.order /\ table' = r.table
  BY <1>3, <1>4 DEF GetStored, SetCache, Cache
<1>6. PutMay([order |-> order, table |-> table], d, a)
  BY DEF GetStored, Cache
<1>7. CacheSound(r.order, r.table) /\ r.table.hmax = table.hmax
  BY <1>2, <1>4, <1>6, PutSound
<1>8. QED
  BY <1>1, <1>2, <1>3, <1>5, <1>7, ReadyKeeps

LEMMA GetFaultKeeps ==
  ASSUME IInv, NEW d \in Docs, GetFault(d)
  PROVE  IInv'
<1>1. pc = "ready" /\ read' = NULL /\ UNCHANGED <<order, table, db, scanVars, pc>>
  BY DEF GetFault
<1>2. CacheSound(order, table) /\ Sound(db, Contents)
  BY <1>1 DEF IInv, Freed
<1>3. QED
  BY <1>1, <1>2, ReadyKeeps

LEMMA ReceiveKeeps ==
  ASSUME IInv, NEW d \in Docs, NEW c \in Contents, Receive(d, c)
  PROVE  IInv'
<1>1. /\ pc = "ready" /\ read' = NULL /\ UNCHANGED <<order, table, scanVars, pc>>
      /\ db' = HtPut(db, d, c)
  BY DEF Receive
<1>2. CacheSound(order, table) /\ Sound(db, Contents)
  BY <1>1 DEF IInv, Freed
<1>3. Sound(db', Contents) /\ db'.hmax = db.hmax
  BY <1>1, <1>2, Stored
<1>4. QED
  BY <1>1, <1>2, <1>3, ReadyKeeps



\* The facts of every state with the server in use.
LEMMA InUse ==
  ASSUME IInv, ~ Freed
  PROVE  /\ CacheSound(order, table) /\ Sound(db, Contents) /\ Sound(fresh, Contents)
         /\ table.hmax \in Nat \ {0} /\ db.hmax \in Nat \ {0} /\ fresh.hmax \in Nat \ {0}
         /\ db.hmax = 2 * table.hmax /\ db.hmax < UintRange
         /\ UintRange \in Nat /\ b \in 0..(UintRange - 1) /\ curr \in Nat
         /\ leaving \subseteq Docs /\ read \in Contents \cup {NULL}
         /\ db.buckets \in [0..(db.hmax - 1) -> Seq(Entries(Contents))]
<1>1. CacheSound(order, table) /\ Sound(db, Contents) /\ Sound(fresh, Contents) /\ Control
  BY DEF IInv
<1>2. PICK h \in CacheSizes : h = table.hmax
  BY <1>1 DEF Control
<1>3. /\ UintRange \in Nat /\ h \in Nat \ {0} /\ 2 * h \in Nat \ {0}
      /\ 2 * h < UintRange
  BY SizeFacts
<1>4. db.hmax = 2 * h
  BY <1>1, <1>2 DEF Control
<1>5. /\ fresh.hmax \in Nat \ {0}
      /\ db.buckets \in [0..(db.hmax - 1) -> Seq(Entries(Contents))]
  BY <1>1, TableParts DEF Sound
<1>6. b \in 0..(UintRange - 1) /\ curr \in Nat /\ leaving \subseteq Docs
      /\ read \in Contents \cup {NULL}
  BY <1>1 DEF Control
<1>7. QED
  BY <1>1, <1>2, <1>3, <1>4, <1>5, <1>6

LEMMA StartScanKeeps ==
  ASSUME IInv, NEW ds \in SUBSET Docs, StartScan(ds)
  PROVE  IInv'
<1>1. /\ pc = "ready" /\ pc' = "bucket" /\ leaving' = ds /\ b' = 0 /\ curr' = 1 /\ read' = NULL
      /\ UNCHANGED <<order, table, db, fresh>>
  BY DEF StartScan
<1>2. ~ Freed /\ ~ Freed'
  BY <1>1 DEF Freed
<1>3. /\ CacheSound(order, table) /\ Sound(db, Contents) /\ Sound(fresh, Contents)
      /\ db.hmax \in Nat \ {0} /\ UintRange \in Nat /\ db.hmax < UintRange
      /\ db.buckets \in [0..(db.hmax - 1) -> Seq(Entries(Contents))]
  BY <1>2, InUse
<1>4. Control'
  BY <1>1, <1>3 DEF IInv, Control
<1>5. 0 < db.hmax /\ Passed(b, curr)' /\ 1 <= Len(db.buckets[0]) + 1
  <2>1. db.buckets[0] \in Seq(Entries(Contents))
    BY <1>3
  <2>2. QED
    BY <1>1, <1>3, <2>1 DEF Passed
<1>6. ScanInv'
  <2>1. 0..(0 - 1) = {}
    OBVIOUS
  <2>2. QED
    BY <1>1, <1>3, <1>5, <2>1 DEF ScanInv
<1>7. QED
  BY <1>1, <1>2, <1>3, <1>4, <1>6 DEF IInv

\* The document under the loop's pointer.
LEMMA EntryFacts ==
  ASSUME IInv, AtEntry
  PROVE  /\ b \in 0..(db.hmax - 1) /\ curr \in 1..Len(db.buckets[b])
         /\ Entry.key \in Docs /\ Entry.value \in Contents
         /\ Bucket(db, Entry.key) = b /\ HtHasKey(db, Entry.key)
         /\ MapOf(db)[Entry.key] = Entry.value
<1>1. pc = "bucket" /\ curr <= Len(db.buckets[b])
  BY DEF AtEntry
<1>2. ~ Freed
  BY <1>1 DEF Freed
<1>3. b < db.hmax /\ curr > 0
  BY <1>1 DEF IInv, ScanInv
<1>4. /\ Sound(db, Contents) /\ b \in 0..(UintRange - 1) /\ curr \in Nat
      /\ db.hmax \in Nat \ {0} /\ UintRange \in Nat
      /\ db.buckets \in [0..(db.hmax - 1) -> Seq(Entries(Contents))]
  BY <1>2, InUse
<1>5. b \in 0..(db.hmax - 1)
  BY <1>3, <1>4
<1>6. db.buckets[b] \in Seq(Entries(Contents))
  BY <1>4, <1>5
<1>7. curr \in 1..Len(db.buckets[b])
  BY <1>1, <1>3, <1>4, <1>6
<1>8. PICK e : e = db.buckets[b][curr]
  OBVIOUS
<1>9. IsEntry(db, b, curr, e)
  BY <1>5, <1>7, <1>8 DEF IsEntry
<1>10. /\ e.key \in Docs /\ e.value \in Contents
       /\ Bucket(db, e.key) = b /\ HtHasKey(db, e.key)
       /\ MapOf(db)[e.key] = e.value
  BY <1>4, <1>9, EntryAt
<1>11. QED
  BY <1>5, <1>7, <1>8, <1>10 DEF Entry

LEMMA PassEntryKeeps ==
  ASSUME IInv, PassEntry
  PROVE  IInv'
<1>1. /\ pc = "bucket" /\ curr <= Len(db.buckets[b])
      /\ db.buckets[b][curr].key \notin leaving
      /\ curr' = curr + 1
      /\ UNCHANGED <<order, table, db, fresh, leaving, b, pc, read>>
  BY DEF PassEntry, AtEntry, Entry
<1>2. ~ Freed /\ ~ Freed'
  BY <1>1 DEF Freed
<1>3. b < db.hmax /\ curr > 0 /\ Passed(b, curr) /\ \A c \in 0..(b - 1) : Clean(c)
  BY <1>1 DEF IInv, ScanInv
<1>4. curr \in Nat /\ curr' \in Nat /\ curr' <= Len(db.buckets[b]) + 1
  <2>1. curr \in 1..Len(db.buckets[b])
    BY <1>1, EntryFacts DEF AtEntry
  <2>2. QED
    BY <1>1, <2>1
<1>5. Control'
  BY <1>1, <1>4 DEF IInv, Control
<1>6. Passed(b, curr)'
  <2>1. ASSUME NEW i \in 1..Len(db.buckets[b]), i < curr + 1
        PROVE  db.buckets[b][i].key \notin leaving
    <3>1. i < curr \/ i = curr
      BY <1>4, <2>1
    <3>2. QED
      BY <1>1, <1>3, <3>1 DEF Passed
  <2>2. QED
    BY <1>1, <2>1 DEF Passed
<1>7. (\A c \in 0..(b - 1) : Clean(c))'
  BY <1>1, <1>3 DEF Clean
<1>8. ScanInv'
  BY <1>1, <1>3, <1>4, <1>6, <1>7 DEF ScanInv
<1>9. QED
  BY <1>1, <1>2, <1>5, <1>8 DEF IInv

LEMMA EndOfBucketKeeps ==
  ASSUME IInv, EndOfBucket
  PROVE  IInv'
<1>1. /\ pc = "bucket" /\ ~ (curr <= Len(db.buckets[b])) /\ pc' = "increment"
      /\ UNCHANGED <<order, table, db, fresh, leaving, b, curr, read>>
  BY DEF EndOfBucket, AtEntry, scanVars
<1>2. ~ Freed /\ ~ Freed'
  BY <1>1 DEF Freed
<1>3. b < db.hmax /\ Passed(b, curr) /\ \A c \in 0..(b - 1) : Clean(c)
  BY <1>1 DEF IInv, ScanInv
<1>4. /\ UintRange \in Nat /\ b \in 0..(UintRange - 1) /\ db.hmax < UintRange
      /\ db.hmax \in Nat \ {0} /\ curr \in Nat
      /\ db.buckets \in [0..(db.hmax - 1) -> Seq(Entries(Contents))]
  BY <1>2, InUse
<1>5. (b + 1) % UintRange = b + 1 /\ b + 1 <= db.hmax
  <2>1. PICK k \in 0..(UintRange - 1) : k = b + 1
    BY <1>3, <1>4
  <2>2. k % UintRange = k
    BY <1>4
  <2>3. QED
    BY <1>3, <1>4, <2>1, <2>2
<1>6. Clean(b)
  <2>1. PICK n \in Nat : n = Len(db.buckets[b])
    <3>1. db.buckets[b] \in Seq(Entries(Contents))
      BY <1>3, <1>4
    <3>2. QED
      BY <3>1
  <2>2. \A i \in 1..n : i < curr
    BY <1>1, <1>4, <2>1
  <2>3. QED
    BY <1>3, <2>1, <2>2 DEF Clean, Passed
<1>7. \A c \in 0..((b + 1) - 1) : Clean(c)
  BY <1>3, <1>4, <1>6
<1>8. (\A c \in 0..(((b + 1) % UintRange) - 1) : Clean(c))'
  BY <1>1, <1>5, <1>7 DEF Clean
<1>9. ScanInv'
  BY <1>1, <1>5, <1>8 DEF ScanInv
<1>10. Control'
  BY <1>1 DEF IInv, Control
<1>11. QED
  BY <1>1, <1>2, <1>9, <1>10 DEF IInv

LEMMA MoveEntryKeeps ==
  ASSUME IInv, MoveEntry
  PROVE  IInv'
<1>1. PICK d, c : d = Entry.key /\ c = Entry.value
  OBVIOUS
<1>2. /\ AtEntry /\ pc = "bucket" /\ pc' = "increment"
      /\ fresh' = HtPut(fresh, d, c) /\ db' = HtRemoveEntry(db, d)
      /\ b' = (b + UintRange - 1) % UintRange
      /\ UNCHANGED <<leaving, curr, read>>
  BY <1>1 DEF MoveEntry, AtEntry
<1>3. PICK r : r = LruCacheRemove([order |-> order, table |-> table], d)
  OBVIOUS
<1>4. order' = r.order /\ table' = r.table
  BY <1>1, <1>3 DEF MoveEntry, SetCache, Cache
<1>5. ~ Freed /\ ~ Freed'
  BY <1>2 DEF Freed
<1>6. /\ CacheSound(order, table) /\ Sound(db, Contents) /\ Sound(fresh, Contents)
      /\ UintRange \in Nat /\ b \in 0..(UintRange - 1) /\ db.hmax \in Nat \ {0}
  BY <1>5, InUse
<1>7. /\ b \in 0..(db.hmax - 1) /\ d \in Docs /\ c \in Contents
      /\ Bucket(db, d) = b /\ HtHasKey(db, d)
  BY <1>1, <1>2, EntryFacts
<1>8. CacheSound(order', table') /\ table'.hmax = table.hmax
  BY <1>3, <1>4, <1>6, <1>7, RemoveSound
<1>9. Sound(fresh', Contents)
  BY <1>2, <1>6, <1>7, Stored
<1>10. /\ Sound(db', Contents) /\ db'.hmax = db.hmax
       /\ \A e \in 0..(db.hmax - 1) : e # b => db'.buckets[e] = db.buckets[e]
  BY <1>2, <1>6, <1>7, Taken
<1>11. b' \in 0..(UintRange - 1) /\ (b' + 1) % UintRange = b
  BY <1>2, <1>6, BackAndForward
<1>12. Control'
  BY <1>2, <1>8, <1>10, <1>11 DEF IInv, Control
<1>13. \A e \in 0..(b - 1) : Clean(e)'
  <2>1. \A e \in 0..(b - 1) : Clean(e)
    BY <1>2 DEF IInv, ScanInv
  <2>2. \A e \in 0..(b - 1) : db'.buckets[e] = db.buckets[e]
    BY <1>6, <1>7, <1>10
  <2>3. QED
    BY <1>2, <2>1, <2>2 DEF Clean
<1>14. ScanInv'
  BY <1>2, <1>6, <1>7, <1>10, <1>11, <1>13 DEF ScanInv
<1>15. QED
  BY <1>5, <1>8, <1>9, <1>10, <1>12, <1>14 DEF IInv

LEMMA NextBucketKeeps ==
  ASSUME IInv, NextBucket
  PROVE  IInv'
<1>1. PICK n : n = (b + 1) % UintRange
  OBVIOUS
<1>2. /\ pc = "increment" /\ b' = n /\ curr' = 1
      /\ pc' = IF b' < db.hmax THEN "bucket" ELSE "link"
      /\ UNCHANGED <<order, table, db, fresh, leaving, read>>
  BY <1>1 DEF NextBucket
<1>3. ~ Freed /\ ~ Freed'
  BY <1>2 DEF Freed
<1>4. n <= db.hmax /\ \A c \in 0..(n - 1) : Clean(c)
  BY <1>1, <1>2 DEF IInv, ScanInv
<1>5. UintRange \in Nat /\ b \in 0..(UintRange - 1) /\ db.hmax \in Nat \ {0}
  BY <1>3, InUse
<1>6. n \in 0..(UintRange - 1)
  BY <1>1, <1>5
<1>7. Control'
  BY <1>2, <1>6 DEF IInv, Control
<1>8. \A c \in 0..(n - 1) : Clean(c)'
  BY <1>2, <1>4 DEF Clean
<1>9. CASE n < db.hmax
  <2>1. pc' = "bucket"
    BY <1>2, <1>9
  <2>2. Passed(b, curr)'
    BY <1>2 DEF Passed
  <2>3. 1 <= Len(db.buckets[n]) + 1
    <3>1. db.buckets[n] \in Seq(Entries(Contents))
      <4>1. n \in 0..(db.hmax - 1)
        BY <1>5, <1>6, <1>9
      <4>2. db.buckets \in [0..(db.hmax - 1) -> Seq(Entries(Contents))]
        BY <1>3, InUse
      <4>3. QED
        BY <4>1, <4>2
    <3>2. QED
      BY <3>1
  <2>4. ScanInv'
    BY <1>2, <1>8, <1>9, <2>1, <2>2, <2>3 DEF ScanInv
  <2>5. QED
    BY <1>2, <1>3, <1>7, <2>4 DEF IInv
<1>10. CASE ~ (n < db.hmax)
  <2>1. pc' = "link" /\ n = db.hmax
    BY <1>2, <1>4, <1>5, <1>6, <1>10
  <2>2. ScanInv'
    BY <1>2, <1>8, <2>1 DEF ScanInv
  <2>3. QED
    BY <1>2, <1>3, <1>7, <2>2 DEF IInv
<1>11. QED
  BY <1>9, <1>10

LEMMA EndScanKeeps ==
  ASSUME IInv, EndScan
  PROVE  IInv'
<1>1. /\ pc = "link" /\ pc' = "ready" /\ fresh' = HtCreate(fresh.hmax)
      /\ leaving' = {} /\ b' = 0 /\ curr' = 0
      /\ UNCHANGED <<order, table, db, read>>
  BY DEF EndScan
<1>2. ~ Freed /\ ~ Freed'
  BY <1>1 DEF Freed
<1>3. PICK h \in Nat \ {0} : h = fresh.hmax
  BY <1>2, InUse
<1>4. Sound(fresh', Contents)
  BY <1>1, <1>3, Created
<1>5. Control'
  BY <1>1, <1>2, InUse DEF IInv, Control
<1>6. QED
  BY <1>1, <1>2, <1>4, <1>5 DEF IInv, ScanInv

LEMMA StartFreeKeeps ==
  ASSUME IInv, StartFree
  PROVE  IInv'
<1>1. /\ pc = "ready" /\ pc' = "free" /\ table' = HtCreate(table.hmax) /\ read' = NULL
      /\ UNCHANGED <<order, db, fresh, leaving, b, curr>>
  BY DEF StartFree, scanVars
<1>2. ~ Freed /\ Freed'
  BY <1>1 DEF Freed
<1>3. CacheSound(order, table)
  BY <1>2, InUse
<1>4. PICK h \in Nat \ {0} : h = table.hmax
  BY <1>2, InUse
<1>5. Sound(table', Addr) /\ table'.hmax = h /\ Keys(table') = {}
  BY <1>1, <1>4, Created
<1>6. order.size <= h
  BY <1>3, <1>4 DEF CacheSound, InStep
<1>7. CacheFreed(order, table)'
  BY <1>1, <1>3, <1>5, <1>6 DEF CacheFreed, CacheSound
<1>8. Control'
  BY <1>1, <1>4, <1>5 DEF IInv, Control
<1>9. QED
  BY <1>1, <1>2, <1>7, <1>8 DEF IInv, ScanInv

LEMMA FreeFirstNodeKeeps ==
  ASSUME IInv, FreeFirstNode
  PROVE  IInv' /\ order.size \in Nat /\ order'.size = order.size - 1 /\ order.size # 0
<1>1. /\ pc = "free" /\ pc' = "free" /\ order.size > 0 /\ order' = RemoveNthNode(order, 0)
      /\ UNCHANGED <<table, db, fresh, leaving, b, curr, read>>
  BY DEF FreeFirstNode, scanVars
<1>2. Freed /\ Freed'
  BY <1>1 DEF Freed
<1>3. /\ order \in List(Infos) /\ WellLinked(order) /\ order.size <= table.hmax
      /\ Sound(table, Addr) /\ Keys(table) = {}
  BY <1>2 DEF IInv, CacheFreed
<1>4. order.size \in Nat /\ order.size # 0
  BY <1>1, <1>3 DEF List
<1>5. PICK s : Lists(order, s)
  BY <1>3, Ordered
<1>6. /\ 1 \in 1..order.size
      /\ RemoveNthNode(order, 0) = RemoveNode(order, s[1])
  BY <1>3, <1>4, <1>5, FreeAssumption, RemoveFirstNode
<1>7. PICK x : x = s[1]
  OBVIOUS
<1>8. order' = RemoveNode(order, x)
  BY <1>1, <1>6, <1>7
<1>9. /\ order' \in List(Infos) /\ order'.size = order.size - 1
      /\ \E q : Lists(order', q)
  <2>1. PICK k \in 1..order.size : k = 1
    BY <1>6
  <2>2. x = s[k]
    BY <1>7, <2>1
  <2>3. QED
    BY <1>3, <1>5, <1>8, <2>2, FreeAssumption, RemoveNodeSound
<1>10. WellLinked(order')
  BY <1>9, ListsIsWellLinked
<1>11. order'.size <= table.hmax
  <2>1. table.hmax \in Nat
    BY <1>3, TableParts DEF Sound
  <2>2. QED
    BY <1>3, <1>4, <1>9, <2>1
<1>12. CacheFreed(order, table)'
  BY <1>1, <1>3, <1>9, <1>10, <1>11 DEF CacheFreed
<1>13. Control'
  BY <1>1 DEF IInv, Control
<1>14. QED
  BY <1>1, <1>2, <1>4, <1>9, <1>12, <1>13 DEF IInv, ScanInv

LEMMA EndFreeKeeps ==
  ASSUME IInv, EndFree
  PROVE  IInv'
<1>1. /\ pc = "free" /\ pc' = "freed" /\ db' = HtCreate(db.hmax)
      /\ UNCHANGED <<order, table, fresh, leaving, b, curr, read>>
  BY DEF EndFree, scanVars
<1>2. Freed /\ Freed'
  BY <1>1 DEF Freed
<1>3. PICK h \in Nat \ {0} : h = db.hmax
  BY TableParts DEF IInv, Sound
<1>4. Sound(db', Contents) /\ db'.hmax = db.hmax
  BY <1>1, <1>3, Created
<1>5. CacheFreed(order, table)'
  BY <1>1, <1>2 DEF IInv, CacheFreed
<1>6. Control'
  BY <1>1, <1>4 DEF IInv, Control
<1>7. QED
  BY <1>1, <1>2, <1>4, <1>5, <1>6 DEF IInv, ScanInv

LEMMA StutterKeeps ==
  ASSUME IInv, UNCHANGED vars
  PROVE  IInv'
<1>1. UNCHANGED <<order, table, db, fresh, leaving, b, curr, pc, read>>
  BY DEF vars
<1>2. Control' /\ ScanInv'
  BY <1>1 DEF IInv, Control, ScanInv, Passed, Clean
<1>3. (~ Freed => CacheSound(order, table))' /\ (Freed => CacheFreed(order, table))'
  BY <1>1 DEF IInv, Freed
<1>4. Sound(db', Contents) /\ Sound(fresh', Contents)
  BY <1>1 DEF IInv
<1>5. QED
  BY <1>2, <1>3, <1>4 DEF IInv

LEMMA StepKeeps ==
  ASSUME IInv, [Next]_vars
  PROVE  IInv'
<1>1. ASSUME NEW d \in Docs, NEW c \in Contents, NEW a \in Addr, Edit(d, c, a)
      PROVE  IInv'
  BY <1>1, EditKeeps
<1>2. ASSUME NEW d \in Docs, NEW a \in Addr, GetHit(d, a)
      PROVE  IInv'
  BY <1>2, GetHitKeeps
<1>3. ASSUME NEW d \in Docs, NEW a \in Addr, GetStored(d, a)
      PROVE  IInv'
  BY <1>3, GetStoredKeeps
<1>4. ASSUME NEW d \in Docs, GetFault(d)
      PROVE  IInv'
  BY <1>4, GetFaultKeeps
<1>5. ASSUME NEW d \in Docs, NEW c \in Contents, Receive(d, c)
      PROVE  IInv'
  BY <1>5, ReceiveKeeps
<1>6. ASSUME NEW ds \in SUBSET Docs, StartScan(ds)
      PROVE  IInv'
  BY <1>6, StartScanKeeps
<1>7. CASE StartFree
  BY <1>7, StartFreeKeeps
<1>8. CASE PassEntry
  BY <1>8, PassEntryKeeps
<1>9. CASE MoveEntry
  BY <1>9, MoveEntryKeeps
<1>10. CASE EndOfBucket
  BY <1>10, EndOfBucketKeeps
<1>11. CASE NextBucket
  BY <1>11, NextBucketKeeps
<1>12. CASE EndScan
  BY <1>12, EndScanKeeps
<1>13. CASE FreeFirstNode
  BY <1>13, FreeFirstNodeKeeps
<1>14. CASE EndFree
  BY <1>14, EndFreeKeeps
<1>15. CASE UNCHANGED vars
  BY <1>15, StutterKeeps
<1>16. QED
  BY <1>1, <1>2, <1>3, <1>4, <1>5, <1>6, <1>7, <1>8, <1>9, <1>10, <1>11, <1>12, <1>13,
     <1>14, <1>15 DEF Next, Request, Handler

\* The memory of a server satisfies the invariant in every state.
THEOREM MemoryInvariant == Spec => []IInv
<1>1. Init => IInv
  BY InitSound
<1>2. IInv /\ [Next]_vars => IInv'
  BY StepKeeps
<1>3. QED
  BY <1>1, <1>2, PTL DEF Spec

-----------------------------------------------------------------------------
(* What follows from the invariant.                                         *)

LEMMA ListOfEither ==
  ASSUME IInv
  PROVE  /\ order \in List(Infos) /\ WellLinked(order)
         /\ Sound(table, Addr) /\ order.size \in Nat /\ order.size <= table.hmax
<1>1. CASE Freed
  BY <1>1 DEF IInv, CacheFreed, List
<1>2. CASE ~ Freed
  BY <1>2 DEF IInv, CacheSound, InStep, List
<1>3. QED
  BY <1>1, <1>2

\* Every variable has its type: the size of the list and the count of the
\* cache's table stay within the capacity, the database has twice its buckets.
THEOREM MemoryTypes == Spec => []TypeOK
<1>1. ASSUME IInv
      PROVE  TypeOK
  <2>1. /\ order \in List(Infos) /\ order.size \in Nat /\ order.size <= table.hmax
        /\ Sound(table, Addr)
    BY <1>1, ListOfEither
  <2>2. /\ order.head \in Addr \cup {NULL} /\ order.tail \in Addr \cup {NULL}
    BY <2>1 DEF List, Pointer
  <2>3. table \in Tables(Addr) /\ db \in Tables(Contents) /\ Counted(db)
    BY <1>1, <2>1 DEF IInv, Sound
  <2>4. table.size \in Nat /\ table.hmax \in Nat
    BY <2>3, TableParts
  <2>5. table.size <= table.hmax
    <3>1. CASE Freed
      <4>1. Keys(table) = {} /\ Counted(table)
        BY <1>1, <3>1 DEF IInv, CacheFreed, Sound
      <4>2. table.size = 0
        BY <4>1, FS_EmptySet DEF Counted
      <4>3. QED
        BY <2>4, <4>2
    <3>2. CASE ~ Freed
      BY <1>1, <3>2 DEF IInv, CacheSound
    <3>3. QED
      BY <3>1, <3>2
  <2>6. db.size \in 0..Cardinality(Docs)
    BY <2>3, DocsAssumption, CountBound
  <2>7. Control
    BY <1>1 DEF IInv
  <2>8. QED
    BY <2>1, <2>2, <2>4, <2>5, <2>6, <2>7 DEF TypeOK, Control
<1>2. QED
  BY <1>1, MemoryInvariant, PTL

\* The list is linked in both directions through exactly the nodes that are
\* allocated: no node leaks, none that was freed is reached.
THEOREM RecencyListSound == Spec => []RecencyListIsSound
<1>1. ASSUME IInv
      PROVE  RecencyListIsSound
  BY <1>1, ListOfEither DEF RecencyListIsSound
<1>2. QED
  BY <1>1, MemoryInvariant, PTL

\* No pointer of the cache's table leads to data that was freed, or to the data
\* of another key.
THEOREM PointersSound == Spec => []NoDanglingPointer
<1>1. ASSUME IInv
      PROVE  NoDanglingPointer
  <2>1. CASE Freed
    <3>1. Keys(table) = {}
      BY <1>1, <2>1 DEF IInv, CacheFreed
    <3>2. \A d \in Docs : ~ HtHasKey(table, d)
      BY <3>1 DEF Keys
    <3>3. QED
      BY <3>2 DEF NoDanglingPointer
  <2>2. CASE ~ Freed
    BY <1>1, <2>2 DEF IInv, CacheSound, InStep, KeyAt, NoDanglingPointer
  <2>3. QED
    BY <2>1, <2>2
<1>2. QED
  BY <1>1, MemoryInvariant, PTL

\* In all three tables every entry is in the bucket of its key, no key has two,
\* and the count that lru_cache_is_full compares with the capacity is right.
THEOREM TablesSound == Spec => []TablesAreSound
<1>1. ASSUME IInv
      PROVE  TablesAreSound
  <2>1. Sound(table, Addr) /\ Sound(db, Contents) /\ Sound(fresh, Contents)
    BY <1>1, ListOfEither DEF IInv
  <2>2. WellFilled(table) /\ WellFilled(db) /\ WellFilled(fresh)
    BY <2>1, FilledIsWellFilled DEF Sound
  <2>3. QED
    BY <2>2 DEF TablesAreSound
<1>2. QED
  BY <1>1, MemoryInvariant, PTL

-----------------------------------------------------------------------------
(* The handlers come to an end.                                             *)

\* What is left of a handler is never less than nothing.
LEMMA LeftIsCounted ==
  ASSUME IInv, InHandler
  PROVE  Left \in Nat \X Nat \X Nat
<1>1. db.size \in Nat
  BY TableParts DEF IInv, Sound
<1>2. CASE pc = "bucket"
  <2>1. /\ b < db.hmax /\ curr <= Len(db.buckets[b]) + 1 /\ ~ Freed
    BY <1>2 DEF IInv, ScanInv, Freed
  <2>2. /\ db.hmax \in Nat \ {0} /\ UintRange \in Nat /\ b \in 0..(UintRange - 1) /\ curr \in Nat
        /\ db.buckets \in [0..(db.hmax - 1) -> Seq(Entries(Contents))]
    BY <2>1, InUse
  <2>3. db.buckets[b] \in Seq(Entries(Contents))
    BY <2>1, <2>2
  <2>4. Len(db.buckets[b]) \in Nat
    BY <2>3
  <2>5. 2 * (db.hmax - b) \in Nat /\ Len(db.buckets[b]) + 1 - curr \in Nat
    BY <2>1, <2>2, <2>4
  <2>6. Left = <<db.size, 2 * (db.hmax - b), Len(db.buckets[b]) + 1 - curr>>
    BY <1>2 DEF Left
  <2>7. QED
    BY <1>1, <2>5, <2>6
<1>3. CASE pc = "increment"
  <2>1. NextIndex <= db.hmax /\ ~ Freed
    BY <1>3 DEF IInv, ScanInv, Freed, NextIndex
  <2>2. db.hmax \in Nat /\ NextIndex \in Nat
    BY <2>1, InUse DEF NextIndex
  <2>3. 2 * (db.hmax - NextIndex) + 1 \in Nat
    BY <2>1, <2>2
  <2>4. Left = <<db.size, 2 * (db.hmax - NextIndex) + 1, 0>>
    BY <1>3 DEF Left
  <2>5. QED
    BY <1>1, <2>3, <2>4
<1>4. CASE pc = "free"
  <2>1. order \in List(Infos)
    BY <1>4 DEF IInv, CacheFreed, Freed
  <2>2. order.size \in Nat
    BY <2>1 DEF List
  <2>3. Left = <<order.size, 0, 0>>
    BY <1>4 DEF Left
  <2>4. QED
    BY <2>2, <2>3
<1>5. CASE pc = "link"
  <2>1. Left = <<db.size, 0, 0>>
    BY <1>5 DEF Left
  <2>2. QED
    BY <1>1, <2>1
<1>6. QED
  BY <1>2, <1>3, <1>4, <1>5 DEF InHandler

LEMMA PassEntryAdvances ==
  ASSUME IInv, PassEntry
  PROVE  Before(Left', Left)
<1>1. /\ AtEntry /\ pc = "bucket" /\ pc' = "bucket" /\ curr' = curr + 1
      /\ UNCHANGED <<order, db, b>>
  BY DEF PassEntry, AtEntry
<1>2. curr \in 1..Len(db.buckets[b])
  BY <1>1, EntryFacts
<1>3. PICK n : n = Len(db.buckets[b])
  OBVIOUS
<1>4. n \in Nat
  <2>1. ~ Freed /\ b \in 0..(db.hmax - 1)
    BY <1>1, EntryFacts DEF Freed
  <2>2. db.buckets[b] \in Seq(Entries(Contents))
    BY <2>1, InUse
  <2>3. QED
    BY <1>3, <2>2
<1>5. n + 1 - (curr + 1) < n + 1 - curr
  <2>1. curr \in 1..n
    BY <1>2, <1>3
  <2>2. PICK k \in 1..n : k = curr
    BY <2>1
  <2>3. QED
    BY <1>4, <2>2
<1>6. Left = <<db.size, 2 * (db.hmax - b), n + 1 - curr>>
  BY <1>1, <1>3 DEF Left
<1>7. Left' = <<db.size, 2 * (db.hmax - b), n + 1 - (curr + 1)>>
  BY <1>1, <1>3 DEF Left
<1>8. QED
  BY <1>5, <1>6, <1>7 DEF Before

LEMMA MoveEntryAdvances ==
  ASSUME IInv, MoveEntry
  PROVE  Before(Left', Left)
<1>1. PICK d : d = Entry.key
  OBVIOUS
<1>2. /\ AtEntry /\ pc = "bucket" /\ pc' = "increment" /\ db' = HtRemoveEntry(db, d)
  BY <1>1 DEF MoveEntry, AtEntry
<1>3. d \in Docs /\ HtHasKey(db, d)
  BY <1>1, <1>2, EntryFacts
<1>4. db \in Tables(Contents) /\ Filled(db) /\ Counted(db)
  BY DEF IInv, Sound
<1>5. db'.size = db.size - 1
  BY <1>2, <1>3, <1>4, HtRemoveEntrySound
<1>6. db.size \in Nat
  BY <1>4, TableParts
<1>7. Left[1] = db.size /\ Left'[1] = db'.size
  BY <1>2 DEF Left
<1>8. QED
  BY <1>5, <1>6, <1>7 DEF Before

LEMMA EndOfBucketAdvances ==
  ASSUME IInv, EndOfBucket
  PROVE  Before(Left', Left)
<1>1. pc = "bucket" /\ pc' = "increment" /\ UNCHANGED <<order, db, b>>
  BY DEF EndOfBucket, scanVars
<1>2. ~ Freed /\ b < db.hmax
  BY <1>1 DEF IInv, ScanInv, Freed
<1>3. /\ UintRange \in Nat /\ b \in 0..(UintRange - 1) /\ db.hmax < UintRange
      /\ db.hmax \in Nat \ {0}
  BY <1>2, InUse
<1>4. (b + 1) % UintRange = b + 1
  <2>1. PICK k \in 0..(UintRange - 1) : k = b + 1
    BY <1>2, <1>3
  <2>2. k % UintRange = k
    BY <1>3
  <2>3. QED
    BY <2>1, <2>2
<1>5. Left[1] = db.size /\ Left[2] = 2 * (db.hmax - b)
  BY <1>1 DEF Left
<1>6. Left'[1] = db.size /\ Left'[2] = 2 * (db.hmax - (b + 1)) + 1
  BY <1>1, <1>4 DEF Left, NextIndex
<1>7. 2 * (db.hmax - (b + 1)) + 1 < 2 * (db.hmax - b)
  BY <1>3
<1>8. QED
  BY <1>5, <1>6, <1>7 DEF Before

LEMMA NextBucketAdvances ==
  ASSUME IInv, NextBucket
  PROVE  Before(Left', Left)
<1>1. PICK n : n = NextIndex
  OBVIOUS
<1>2. /\ pc = "increment" /\ b' = n /\ UNCHANGED <<order, db>>
      /\ pc' = IF n < db.hmax THEN "bucket" ELSE "link"
  BY <1>1 DEF NextBucket, NextIndex
<1>3. ~ Freed /\ n <= db.hmax
  BY <1>1, <1>2 DEF IInv, ScanInv, Freed, NextIndex
<1>4. db.hmax \in Nat /\ n \in Nat
  BY <1>1, <1>3, InUse DEF NextIndex
<1>5. Left[1] = db.size /\ Left[2] = 2 * (db.hmax - n) + 1
  BY <1>1, <1>2 DEF Left
<1>6. /\ Left'[1] = db.size
      /\ Left'[2] = IF n < db.hmax THEN 2 * (db.hmax - n) ELSE 0
  BY <1>2 DEF Left
<1>7. (IF n < db.hmax THEN 2 * (db.hmax - n) ELSE 0) < 2 * (db.hmax - n) + 1
  BY <1>3, <1>4
<1>8. QED
  BY <1>5, <1>6, <1>7 DEF Before

LEMMA FreeFirstNodeAdvances ==
  ASSUME IInv, FreeFirstNode
  PROVE  Before(Left', Left)
<1>1. pc = "free" /\ pc' = "free"
  BY DEF FreeFirstNode
<1>2. order.size \in Nat /\ order'.size = order.size - 1
  BY FreeFirstNodeKeeps
<1>3. Left[1] = order.size /\ Left'[1] = order'.size
  BY <1>1 DEF Left
<1>4. QED
  BY <1>2, <1>3 DEF Before

\* Every step of a handler leaves less of it, and never less than nothing: the
\* scan that starts a bucket over after each document it moves, with an index
\* that wraps below 0 (load_balancer.c:121), and the frees come to an end.
THEOREM HandlersEnd == Spec => HandlersAdvance
<1>1. ASSUME IInv, [Next]_vars
      PROVE  [InHandler => /\ Left \in Nat \X Nat \X Nat
                           /\ InHandler' => Before(Left', Left)]_vars
  <2>1. SUFFICES ASSUME Next, InHandler, InHandler'
                 PROVE  Before(Left', Left)
    BY <1>1, LeftIsCounted
  <2>2. pc # "ready"
    BY <2>1 DEF InHandler
  <2>3. Handler
    BY <2>1, <2>2 DEF Next, Request, Edit, GetHit, GetStored, GetFault, Receive, StartScan, StartFree
  <2>4. ~ EndScan /\ ~ EndFree
    BY <2>1 DEF EndScan, EndFree, InHandler
  <2>5. QED
    BY <1>1, <2>3, <2>4, PassEntryAdvances, MoveEntryAdvances, EndOfBucketAdvances,
       NextBucketAdvances, FreeFirstNodeAdvances DEF Handler
<1>2. QED
  BY <1>1, MemoryInvariant, PTL DEF Spec, HandlersAdvance

-----------------------------------------------------------------------------
(* Every step of the memory is a step of ServerStorage or leaves what is    *)
(* seen from outside as it is.                                              *)

LEMMA SeenReady ==
  ASSUME pc = "ready"
  PROVE  Phase = "ready" /\ ~ Freed /\ StoredCache = Abs(order, table) /\ StoredDb = MapOf(db)
BY DEF Phase, Freed, StoredCache, StoredDb

LEMMA SeenReadyNext ==
  ASSUME pc' = "ready"
  PROVE  /\ Phase' = "ready"
         /\ StoredCache' = Abs(order', table') /\ StoredDb' = MapOf(db')
BY DEF Phase, Freed, StoredCache, StoredDb

Scanning == pc \in {"bucket", "increment", "link"}

LEMMA SeenScan ==
  ASSUME Scanning
  PROVE  Phase = "scan" /\ ~ Freed /\ StoredCache = Abs(order, table) /\ StoredDb = MapOf(db)
BY DEF Phase, Freed, StoredCache, StoredDb, Scanning

LEMMA SeenScanNext ==
  ASSUME Scanning'
  PROVE  /\ Phase' = "scan"
         /\ StoredCache' = Abs(order', table') /\ StoredDb' = MapOf(db')
BY DEF Phase, Freed, StoredCache, StoredDb, Scanning

LEMMA EmptyMap == MapOf(HtCreate(1)) = Storage!NoDocs
<1>1. MapOf(HtCreate(1)) = [d \in Docs |-> NULL]
  BY Created
<1>2. QED
  BY <1>1 DEF Storage!NoDocs

LEMMA SeenFreed ==
  ASSUME Freed
  PROVE  /\ Phase = "freed" /\ StoredDb = Storage!NoDocs
         /\ StoredCache = Storage!InitLruCache(table.hmax)
<1>1. MapOf(HtCreate(1)) = [d \in Docs |-> NULL]
  BY Created
<1>2. Phase = "freed"
  BY DEF Phase, Freed
<1>3. QED
  BY <1>1, <1>2 DEF StoredCache, StoredDb, Storage!NoDocs, Storage!InitLruCache

LEMMA SeenFreedNext ==
  ASSUME Freed'
  PROVE  /\ Phase' = "freed" /\ StoredDb' = Storage!NoDocs
         /\ StoredCache' = Storage!InitLruCache(table'.hmax)
<1>1. MapOf(HtCreate(1)) = [d \in Docs |-> NULL]
  BY Created
<1>2. Phase' = "freed"
  BY DEF Phase, Freed
<1>3. QED
  BY <1>1, <1>2 DEF StoredCache, StoredDb, Storage!NoDocs, Storage!InitLruCache

LEMMA InitMaps ==
  ASSUME Init
  PROVE  Storage!Init
<1>1. PICK h \in CacheSizes : table = HtCreate(h) /\ db = HtCreate(2 * h) /\ fresh = HtCreate(2 * h)
  BY DEF Init
<1>2. h \in Nat \ {0} /\ 2 * h \in Nat \ {0}
  BY SizeFacts
<1>3. pc = "ready" /\ leaving = {} /\ read = NULL /\ order = EmptyList
  BY DEF Init
<1>4. MapOf(db) = Storage!NoDocs /\ MapOf(fresh) = Storage!NoDocs
  BY <1>1, <1>2, Created DEF Storage!NoDocs
<1>5. Abs(order, table) = Storage!InitLruCache(h)
  <2>1. table.hmax = h /\ table.size = 0 /\ \A d \in Docs : ~ HtHasKey(table, d)
    BY <1>1, <1>2, Created
  <2>2. KeyList(order) = << >>
    BY <1>3, EmptyListSound DEF KeyList
  <2>3. Values(order, table) = [d \in Docs |-> NULL]
    BY <2>1 DEF Values
  <2>4. QED
    BY <2>1, <2>2, <2>3 DEF Abs, Storage!InitLruCache
<1>6. QED
  BY <1>3, <1>4, <1>5, SeenReady DEF Storage!Init

LEMMA EditMaps ==
  ASSUME IInv, NEW d \in Docs, NEW c \in Contents, NEW a \in Addr, Edit(d, c, a)
  PROVE  Storage!Edit(d, c)
<1>1. /\ pc = "ready" /\ pc' = "ready" /\ read' = NULL /\ UNCHANGED <<fresh, leaving>>
      /\ db' = HtPut(db, d, c)
  BY DEF Edit, scanVars
<1>2. CacheSound(order, table) /\ Sound(db, Contents)
  BY <1>1 DEF IInv, Freed
<1>3. PICK r : r = LruCachePut([order |-> order, table |-> table], d, c, a)
  OBVIOUS
<1>4. order' = r.order /\ table' = r.table
  BY <1>3 DEF Edit, SetCache, Cache
<1>5. PutMay([order |-> order, table |-> table], d, a)
  BY DEF Edit, Cache
<1>6. Abs(r.order, r.table) = Storage!LruCachePut(Abs(order, table), d, c)
  BY <1>2, <1>3, <1>5, PutSound
<1>7. MapOf(db') = [MapOf(db) EXCEPT ![d] = c]
  BY <1>1, <1>2, Stored
<1>8. QED
  BY <1>1, <1>4, <1>6, <1>7, SeenReady, SeenReadyNext DEF Storage!Edit

LEMMA GetHitMaps ==
  ASSUME IInv, NEW d \in Docs, NEW a \in Addr, GetHit(d, a)
  PROVE  Storage!Get(d)
<1>1. /\ pc = "ready" /\ pc' = "ready" /\ UNCHANGED <<fresh, leaving, db>>
      /\ HtHasKey(table, d) /\ a \in Unallocated(order)
  BY DEF GetHit, scanVars
<1>2. CacheSound(order, table)
  BY <1>1 DEF IInv, Freed
<1>3. /\ order' = MoveNodeToEnd(order, d, a)
      /\ table' = HtPut(HtRemoveEntry(table, d), d, a)
  BY DEF GetHit, SetCache, Cache, LruCacheGet
<1>4. Abs(order', table') = Storage!LruCacheGet(Abs(order, table), d)
  BY <1>1, <1>2, <1>3, GetSound
<1>5. /\ Storage!Cached(Abs(order, table), d)
      /\ Values(order, table)[d] = order.node[HtGet(table, d)].data.value
  BY <1>1, <1>2, AbsCached
<1>6. read' = Abs(order, table).val[d]
  BY <1>5 DEF GetHit, CachedValue, Cache, Abs
<1>7. QED
  BY <1>1, <1>4, <1>5, <1>6, SeenReady, SeenReadyNext DEF Storage!Get

LEMMA GetStoredMaps ==
  ASSUME IInv, NEW d \in Docs, NEW a \in Addr, GetStored(d, a)
  PROVE  Storage!Get(d)
<1>1. /\ pc = "ready" /\ pc' = "ready" /\ UNCHANGED <<fresh, leaving, db>>
      /\ ~ HtHasKey(table, d) /\ HtHasKey(db, d) /\ read' = HtGet(db, d)
  BY DEF GetStored, scanVars
<1>2. CacheSound(order, table) /\ Sound(db, Contents)
  BY <1>1 DEF IInv, Freed
<1>3. PICK c \in Contents : c = HtGet(db, d)
  BY <1>1, <1>2, GotContent
<1>4. MapOf(db)[d] = c /\ c # NULL
  BY <1>1, <1>3, MapAt, NoNullAssumption
<1>5. PICK r : r = LruCachePut([order |-> order, table |-> table], d, c, a)
  OBVIOUS
<1>6. order' = r.order /\ table' = r.table
  BY <1>3, <1>5 DEF GetStored, SetCache, Cache
<1>7. PutMay([order |-> order, table |-> table], d, a)
  BY DEF GetStored, Cache
<1>8. Abs(r.order, r.table) = Storage!LruCachePut(Abs(order, table), d, c)
  BY <1>2, <1>5, <1>7, PutSound
<1>9. ~ Storage!Cached(Abs(order, table), d)
  BY <1>1, <1>2, AbsCached
<1>10. QED
  BY <1>1, <1>3, <1>4, <1>6, <1>8, <1>9, SeenReady, SeenReadyNext DEF Storage!Get

LEMMA GetFaultMaps ==
  ASSUME IInv, NEW d \in Docs, GetFault(d)
  PROVE  Storage!Get(d)
<1>1. /\ pc = "ready" /\ pc' = "ready" /\ UNCHANGED <<order, table, fresh, leaving, db>>
      /\ ~ HtHasKey(table, d) /\ ~ HtHasKey(db, d) /\ read' = NULL
  BY DEF GetFault, scanVars
<1>2. CacheSound(order, table)
  BY <1>1 DEF IInv, Freed
<1>3. MapOf(db)[d] = NULL
  BY <1>1, MapAt
<1>4. ~ Storage!Cached(Abs(order, table), d)
  BY <1>1, <1>2, AbsCached
<1>5. Abs(order', table') = Abs(order, table) /\ MapOf(db') = MapOf(db)
  BY <1>1
<1>6. QED
  BY <1>1, <1>3, <1>4, <1>5, SeenReady, SeenReadyNext DEF Storage!Get

LEMMA ReceiveMaps ==
  ASSUME IInv, NEW d \in Docs, NEW c \in Contents, Receive(d, c)
  PROVE  Storage!Receive(d, c)
<1>1. /\ pc = "ready" /\ pc' = "ready" /\ UNCHANGED <<order, table, fresh, leaving>>
      /\ db' = HtPut(db, d, c) /\ read' = NULL
  BY DEF Receive, scanVars
<1>2. Sound(db, Contents)
  BY DEF IInv
<1>3. MapOf(db') = [MapOf(db) EXCEPT ![d] = c]
  BY <1>1, <1>2, Stored
<1>4. Abs(order', table') = Abs(order, table)
  BY <1>1
<1>5. QED
  BY <1>1, <1>3, <1>4, SeenReady, SeenReadyNext DEF Storage!Receive

LEMMA StartScanMaps ==
  ASSUME IInv, NEW ds \in SUBSET Docs, StartScan(ds)
  PROVE  Storage!StartScan(ds)
<1>1. /\ pc = "ready" /\ Scanning' /\ UNCHANGED <<order, table, db, fresh>>
      /\ leaving' = ds /\ read' = NULL
  BY DEF StartScan, Scanning
<1>2. Abs(order', table') = Abs(order, table) /\ MapOf(db') = MapOf(db)
  BY <1>1
<1>3. QED
  BY <1>1, <1>2, SeenReady, SeenScanNext DEF Storage!StartScan

\* The steps of the scan that move no document.
LEMMA ScanStutters ==
  ASSUME IInv, PassEntry \/ EndOfBucket \/ NextBucket
  PROVE  UNCHANGED Storage!vars
<1>1. Scanning /\ Scanning' /\ UNCHANGED <<order, table, db, fresh, leaving, read>>
  BY DEF PassEntry, EndOfBucket, NextBucket, AtEntry, Scanning, scanVars
<1>2. Abs(order', table') = Abs(order, table) /\ MapOf(db') = MapOf(db)
  BY <1>1
<1>3. QED
  BY <1>1, <1>2, SeenScan, SeenScanNext DEF Storage!vars

LEMMA MoveEntryMaps ==
  ASSUME IInv, MoveEntry
  PROVE  \E d \in Docs : Storage!Move(d)
<1>1. PICK d, c : d = Entry.key /\ c = Entry.value
  OBVIOUS
<1>2. /\ AtEntry /\ Scanning /\ Scanning' /\ d \in leaving
      /\ fresh' = HtPut(fresh, d, c) /\ db' = HtRemoveEntry(db, d)
      /\ UNCHANGED <<leaving, read>>
  BY <1>1 DEF MoveEntry, AtEntry, Scanning
<1>3. PICK r : r = LruCacheRemove([order |-> order, table |-> table], d)
  OBVIOUS
<1>4. order' = r.order /\ table' = r.table
  BY <1>1, <1>3 DEF MoveEntry, SetCache, Cache
<1>5. CacheSound(order, table) /\ Sound(db, Contents) /\ Sound(fresh, Contents)
  BY <1>2, SeenScan, InUse
<1>6. d \in Docs /\ c \in Contents /\ HtHasKey(db, d) /\ MapOf(db)[d] = c
  BY <1>1, <1>2, EntryFacts
<1>7. Abs(order', table') = Storage!LruCacheRemove(Abs(order, table), d)
  BY <1>3, <1>4, <1>5, <1>6, RemoveSound
<1>8. MapOf(fresh') = [MapOf(fresh) EXCEPT ![d] = c]
  BY <1>2, <1>5, <1>6, Stored
<1>9. MapOf(db') = [MapOf(db) EXCEPT ![d] = NULL]
  BY <1>2, <1>5, <1>6, Taken
<1>10. c # NULL
  BY <1>6, NoNullAssumption
<1>11. Storage!Move(d)
  BY <1>2, <1>6, <1>7, <1>8, <1>9, <1>10, SeenScan, SeenScanNext DEF Storage!Move
<1>12. QED
  BY <1>6, <1>11

LEMMA EndScanMaps ==
  ASSUME IInv, EndScan
  PROVE  Storage!EndScan
<1>1. /\ pc = "link" /\ Scanning /\ pc' = "ready" /\ fresh' = HtCreate(fresh.hmax)
      /\ leaving' = {} /\ UNCHANGED <<order, table, db, read>>
  BY DEF EndScan, Scanning
<1>2. PICK h \in Nat \ {0} : h = fresh.hmax
  BY <1>1, SeenScan, InUse
<1>3. Sound(db, Contents) /\ leaving \subseteq Docs
  BY <1>1, SeenScan, InUse
<1>4. MapOf(fresh') = Storage!NoDocs
  BY <1>1, <1>2, Created DEF Storage!NoDocs
<1>5. ASSUME NEW d \in leaving
      PROVE  MapOf(db)[d] = NULL
  <2>1. SUFFICES ASSUME HtHasKey(db, d)
                 PROVE  FALSE
    BY <1>3, MapHas
  <2>2. PICK c \in 0..(db.hmax - 1) : \E i \in 1..Len(db.buckets[c]) : db.buckets[c][i].key = d
    BY <1>3, <2>1, Located
  <2>3. Clean(c)
    BY <1>1 DEF IInv, ScanInv
  <2>4. QED
    BY <2>2, <2>3 DEF Clean
<1>6. Abs(order', table') = Abs(order, table) /\ MapOf(db') = MapOf(db)
  BY <1>1
<1>7. QED
  BY <1>1, <1>4, <1>5, <1>6, SeenScan, SeenReadyNext DEF Storage!EndScan

LEMMA StartFreeMaps ==
  ASSUME IInv, StartFree
  PROVE  Storage!FreeServer
<1>1. /\ pc = "ready" /\ Freed' /\ table' = HtCreate(table.hmax) /\ read' = NULL
      /\ UNCHANGED <<fresh, leaving>>
  BY DEF StartFree, scanVars, Freed
<1>2. table'.hmax = table.hmax
  BY <1>1 DEF HtCreate
<1>3. Abs(order, table).hmax = table.hmax
  BY DEF Abs
<1>4. QED
  BY <1>1, <1>2, <1>3, SeenReady, SeenFreedNext DEF Storage!FreeServer

LEMMA FreeStutters ==
  ASSUME IInv, FreeFirstNode \/ EndFree
  PROVE  UNCHANGED Storage!vars
<1>1. Freed /\ Freed' /\ UNCHANGED <<table, fresh, leaving, read>>
  BY DEF FreeFirstNode, EndFree, Freed, scanVars
<1>2. QED
  BY <1>1, SeenFreed, SeenFreedNext DEF Storage!vars

LEMMA StutterMaps ==
  ASSUME UNCHANGED vars
  PROVE  UNCHANGED Storage!vars
<1>1. UNCHANGED <<order, table, db, fresh, leaving, pc, read>>
  BY DEF vars
<1>2. UNCHANGED <<StoredCache, StoredDb, Phase>>
  BY <1>1 DEF StoredCache, StoredDb, Phase, Freed
<1>3. QED
  BY <1>1, <1>2 DEF Storage!vars

LEMMA StepMaps ==
  ASSUME IInv, [Next]_vars
  PROVE  [Storage!Next]_(Storage!vars)
<1>1. ASSUME NEW d \in Docs, NEW c \in Contents, NEW a \in Addr, Edit(d, c, a)
      PROVE  Storage!Next
  BY <1>1, EditMaps DEF Storage!Next
<1>2. ASSUME NEW d \in Docs, NEW a \in Addr, GetHit(d, a) \/ GetStored(d, a)
      PROVE  Storage!Next
  BY <1>2, GetHitMaps, GetStoredMaps DEF Storage!Next
<1>3. ASSUME NEW d \in Docs, GetFault(d)
      PROVE  Storage!Next
  BY <1>3, GetFaultMaps DEF Storage!Next
<1>4. ASSUME NEW d \in Docs, NEW c \in Contents, Receive(d, c)
      PROVE  Storage!Next
  BY <1>4, ReceiveMaps DEF Storage!Next
<1>5. ASSUME NEW ds \in SUBSET Docs, StartScan(ds)
      PROVE  Storage!Next
  BY <1>5, StartScanMaps DEF Storage!Next
<1>6. CASE StartFree
  BY <1>6, StartFreeMaps DEF Storage!Next
<1>7. CASE PassEntry \/ EndOfBucket \/ NextBucket
  BY <1>7, ScanStutters
<1>8. CASE MoveEntry
  BY <1>8, MoveEntryMaps DEF Storage!Next
<1>9. CASE EndScan
  BY <1>9, EndScanMaps DEF Storage!Next
<1>10. CASE FreeFirstNode \/ EndFree
  BY <1>10, FreeStutters
<1>11. CASE UNCHANGED vars
  BY <1>11, StutterMaps
<1>12. QED
  BY <1>1, <1>2, <1>3, <1>4, <1>5, <1>6, <1>7, <1>8, <1>9, <1>10, <1>11
     DEF Next, Request, Handler

\* Down to nodes, pointers, buckets and the wrapping index, a server's memory
\* implements the cache and the database that it stands for: what a request
\* reads is the cached or the stored content, and the scan of loader_add_server
\* ends only when every document that has to move has been moved.
THEOREM MemoryImplementsStorage == Spec => ImplementsStorage
<1>1. Init => Storage!Init
  BY InitMaps
<1>2. IInv /\ [Next]_vars => [Storage!Next]_(Storage!vars)
  BY StepMaps
<1>3. QED
  BY <1>1, <1>2, MemoryInvariant, PTL DEF Spec, ImplementsStorage, Storage!Spec
=============================================================================
