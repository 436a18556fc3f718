------------------------- MODULE LoadBalancerProofs -------------------------
(***************************************************************************)
(* What holds of the whole program for every set of documents, contents    *)
(* and server ids, every pair of hash functions (ties included), every     *)
(* cache size, every queue capacity, and every liberty of the input.       *)
(*                                                                         *)
(* The first part is the geometry of the ring: where get_server looks,     *)
(* where a new server is linked, and which documents change their owner    *)
(* when a server comes or goes.  Its facts are about any list of servers,  *)
(* so that they can be used for the list before and the list after a step. *)
(***************************************************************************)
EXTENDS LoadBalancer, ServerOpsProofs

-----------------------------------------------------------------------------
(* The ring.                                                                *)

\* hash_uint of the id of the i-th server of a list.
HashAt(ring, i) == HashServer[ring[i].id]

Sorted(ring) == \A i, j \in 1..Len(ring) : i < j => HashAt(ring, i) <= HashAt(ring, j)

\* What get_server finds, without the search: the first server not below the
\* hash, or the first of all if every server is below it.
Serves(ring, hash, k) ==
    /\ k \in 1..Len(ring)
    /\ \/ hash <= HashAt(ring, k) /\ \A j \in 1..Len(ring) : j < k => HashAt(ring, j) < hash
       \/ k = 1 /\ \A j \in 1..Len(ring) : HashAt(ring, j) < hash

\* The slot that separates the servers below a hash from the others.
Separates(ring, hash, k) ==
    /\ k \in 1..(Len(ring) + 1)
    /\ \A j \in 1..Len(ring) : IF j < k THEN HashAt(ring, j) < hash ELSE hash <= HashAt(ring, j)

LEMMA HashIsNat ==
  ASSUME NEW ring \in Seq(Server), NEW i \in 1..Len(ring)
  PROVE  HashAt(ring, i) \in Nat
<1>1. ring[i] \in Server
  OBVIOUS
<1>2. ring[i].id \in ServerIds
  BY <1>1 DEF Server
<1>3. QED
  BY <1>2, HashAssumption DEF HashAt

LEMMA FirstIndex ==
  ASSUME NEW I \in SUBSET Nat, I # {}
  PROVE  Min(I) \in I /\ \A i \in I : Min(I) <= i
<1>1. PICK x \in I : \A y \in I : ~ (<<y, x>> \in OpToRel(<, Nat))
  BY WFMin, NatLessThanWellFounded
<1>2. ASSUME NEW y \in I PROVE x <= y
  <2>1. x \in Nat /\ y \in Nat
    OBVIOUS
  <2>2. <<y, x>> \notin OpToRel(<, Nat)
    BY <1>1
  <2>3. ~ (y < x)
    BY <2>1, <2>2 DEF OpToRel
  <2>4. QED
    BY <2>1, <2>3
<1>3. QED
  BY <1>2 DEF Min

LEMMA ServesOne ==
  ASSUME NEW ring \in Seq(Server), NEW hash \in Nat, NEW k, Serves(ring, hash, k),
         NEW l, Serves(ring, hash, l)
  PROVE  k = l
<1>1. /\ k \in 1..Len(ring) /\ l \in 1..Len(ring)
      /\ \A i \in 1..Len(ring) : HashAt(ring, i) \in Nat
  BY HashIsNat DEF Serves
<1>2. ~ (k < l) /\ ~ (l < k)
  BY <1>1 DEF Serves
<1>3. QED
  BY <1>1, <1>2

\* get_server on any list of servers.
FirstNotBelow(ring, hash) ==
    LET hits == {i \in 1..Len(ring) : hash <= HashAt(ring, i)}
    IN  IF hits = {} THEN 1 ELSE Min(hits)

LEMMA FirstNotBelowServes ==
  ASSUME NEW ring \in Seq(Server), ring # <<>>, NEW hash \in Nat
  PROVE  Serves(ring, hash, FirstNotBelow(ring, hash))
<1> DEFINE n    == Len(ring)
           hits == {i \in 1..n : hash <= HashAt(ring, i)}
<1>1. n \in Nat \ {0} /\ \A i \in 1..n : HashAt(ring, i) \in Nat
  BY HashIsNat
<1>2. CASE hits = {}
  <2>1. FirstNotBelow(ring, hash) = 1
    BY <1>2 DEF FirstNotBelow
  <2>2. \A j \in 1..n : HashAt(ring, j) < hash
    BY <1>1, <1>2
  <2>3. QED
    BY <1>1, <2>1, <2>2 DEF Serves
<1>3. CASE hits # {}
  <2>1. FirstNotBelow(ring, hash) = Min(hits)
    BY <1>3 DEF FirstNotBelow
  <2>2. hits \in SUBSET Nat
    OBVIOUS
  <2>3. Min(hits) \in hits /\ \A i \in hits : Min(hits) <= i
    <3> HIDE DEF hits
    <3>1. QED
      BY <1>3, <2>2, FirstIndex
  <2> DEFINE k == Min(hits)
  <2>4. k \in 1..n /\ hash <= HashAt(ring, k)
    BY <2>3
  <2>5. ASSUME NEW j \in 1..n, j < k PROVE HashAt(ring, j) < hash
    <3>1. j \notin hits
      BY <1>1, <2>3, <2>4, <2>5
    <3>2. QED
      BY <1>1, <3>1
  <2> HIDE DEF k, hits
  <2>6. QED
    BY <2>1, <2>4, <2>5 DEF Serves, k
<1>4. QED
  BY <1>2, <1>3

\* get_server does what it is for.
LEMMA GetServerServes ==
  ASSUME servers \in Seq(Server), servers # <<>>, NEW hash \in Nat
  PROVE  Serves(servers, hash, GetServer(hash))
<1>1. GetServer(hash) = FirstNotBelow(servers, hash)
  BY DEF GetServer, FirstNotBelow, RingHash, HashAt
<1>2. QED
  BY <1>1, FirstNotBelowServes

LEMMA OwnerServes ==
  ASSUME servers \in Seq(Server), servers # <<>>, NEW d \in Docs
  PROVE  Serves(servers, HashDoc[d], Owner(d)) /\ Owner(d) \in 1..Len(servers)
<1>1. HashDoc[d] \in Nat
  BY HashAssumption
<1>2. QED
  BY <1>1, GetServerServes DEF Owner, Serves

\* The slot of loader_add_server, the special case behind the tail included.
LEMMA AddSlotSeparates ==
  ASSUME servers \in Seq(Server), servers # <<>>, Sorted(servers), NEW id \in ServerIds
  PROVE  Separates(servers, HashServer[id], AddSlot(id))
<1> DEFINE n    == Len(servers)
           hash == HashServer[id]
<1>1. n \in Nat \ {0} /\ hash \in Nat /\ \A i \in 1..n : HashAt(servers, i) \in Nat
  BY HashIsNat, HashAssumption
<1>2. CASE BehindTail(id)
  <2>1. AddSlot(id) = n + 1 /\ HashAt(servers, n) < hash
    BY <1>1, <1>2 DEF AddSlot, BehindTail, RingHash, HashAt
  <2>2. \A j \in 1..n : HashAt(servers, j) <= HashAt(servers, n)
    BY <1>1 DEF Sorted
  <2>3. \A j \in 1..n : HashAt(servers, j) < hash
    BY <1>1, <2>1, <2>2
  <2>4. QED
    BY <1>1, <2>1, <2>3 DEF Separates
<1>3. CASE ~ BehindTail(id)
  <2> DEFINE k == GetServer(hash)
  <2>1. AddSlot(id) = k /\ hash <= HashAt(servers, n)
    BY <1>1, <1>3 DEF AddSlot, BehindTail, RingHash, HashAt
  <2>2. Serves(servers, hash, k)
    BY <1>1, GetServerServes
  <2> HIDE DEF k
  <2>3. k \in 1..n /\ hash <= HashAt(servers, k)
    BY <1>1, <2>1, <2>2 DEF Serves
  <2>4. \A j \in 1..n : j < k => HashAt(servers, j) < hash
    BY <1>1, <2>1, <2>2 DEF Serves
  <2>5. \A j \in 1..n : ~ (j < k) => hash <= HashAt(servers, j)
    BY <1>1, <2>3 DEF Sorted
  <2>6. QED
    BY <1>1, <2>1, <2>3, <2>4, <2>5 DEF Separates
<1>4. QED
  BY <1>2, <1>3

-----------------------------------------------------------------------------
(* Lists that differ from another one in a single place.                    *)

\* One server was replaced by a later state of itself.
Updated(ring, after, k) ==
    /\ after \in Seq(Server) /\ Len(after) = Len(ring)
    /\ \A i \in 1..Len(ring) : after[i].id = ring[i].id
    /\ \A i \in 1..Len(ring) : i # k => after[i] = ring[i]

\* A server was inserted at k, or the one at k removed.
Inserted(ring, after, k, s) ==
    /\ after \in Seq(Server) /\ Len(after) = Len(ring) + 1
    /\ \A j \in 1..Len(after) :
          after[j] = IF j < k THEN ring[j] ELSE IF j = k THEN s ELSE ring[j - 1]
Removed(ring, after, k) ==
    /\ after \in Seq(Server) /\ Len(after) = Len(ring) - 1
    /\ \A j \in 1..Len(after) : after[j] = IF j < k THEN ring[j] ELSE ring[j + 1]

LEMMA ExceptUpdates ==
  ASSUME NEW ring \in Seq(Server), NEW k \in 1..Len(ring), NEW s \in Server,
         s.id = ring[k].id
  PROVE  Updated(ring, [ring EXCEPT ![k] = s], k) /\ [ring EXCEPT ![k] = s][k] = s
BY DEF Updated

LEMMA InsertAtInserts ==
  ASSUME NEW ring \in Seq(Server), NEW k \in 1..(Len(ring) + 1), NEW s \in Server
  PROVE  Inserted(ring, InsertAt(ring, k, s), k, s)
<1> DEFINE n     == Len(ring)
           front == SubSeq(ring, 1, k - 1)
           back  == SubSeq(ring, k, n)
           left  == front \o <<s>>
<1>1. n \in Nat /\ k \in Nat \ {0} /\ k <= n + 1
  OBVIOUS
<1>2. /\ front \in Seq(Server) /\ Len(front) = k - 1
      /\ \A j \in 1..(k - 1) : front[j] = ring[j]
  OBVIOUS
<1>3. /\ back \in Seq(Server) /\ Len(back) = n - k + 1
      /\ \A j \in 1..(n - k + 1) : back[j] = ring[k + j - 1]
  OBVIOUS
<1>4. <<s>> \in Seq(Server) /\ Len(<<s>>) = 1 /\ <<s>>[1] = s
  OBVIOUS
<1> HIDE DEF front, back
<1>5. /\ left \in Seq(Server) /\ Len(left) = k
      /\ \A j \in 1..k : left[j] = IF j < k THEN front[j] ELSE s
  <2>1. /\ left \in Seq(Server) /\ Len(left) = Len(front) + Len(<<s>>)
        /\ \A j \in 1..(Len(front) + Len(<<s>>)) :
              left[j] = IF j <= Len(front) THEN front[j] ELSE <<s>>[j - Len(front)]
    BY <1>2, <1>4, ConcatProperties
  <2>2. QED
    BY <1>1, <1>2, <1>4, <2>1
<1> HIDE DEF left
<1>6. /\ left \o back \in Seq(Server) /\ Len(left \o back) = n + 1
      /\ \A j \in 1..(n + 1) : (left \o back)[j] = IF j <= k THEN left[j] ELSE back[j - k]
  <2>1. /\ left \o back \in Seq(Server) /\ Len(left \o back) = Len(left) + Len(back)
        /\ \A j \in 1..(Len(left) + Len(back)) :
              (left \o back)[j] = IF j <= Len(left) THEN left[j] ELSE back[j - Len(left)]
    BY <1>3, <1>5, ConcatProperties
  <2>2. QED
    BY <1>1, <1>3, <1>5, <2>1
<1>7. \A j \in 1..(n + 1) :
         (left \o back)[j] = IF j < k THEN ring[j] ELSE IF j = k THEN s ELSE ring[j - 1]
  BY <1>1, <1>2, <1>3, <1>5, <1>6
<1>8. InsertAt(ring, k, s) = left \o back
  BY DEF InsertAt, left, front, back
<1>9. QED
  BY <1>6, <1>7, <1>8 DEF Inserted

LEMMA RemoveAtRemoves ==
  ASSUME NEW ring \in Seq(Server), NEW k \in 1..Len(ring)
  PROVE  Removed(ring, RemoveAt(ring, k), k)
<1>1. Len(ring) \in Nat /\ Len(RemoveAt(ring, k)) = Len(ring) - 1
  BY RemoveAtProperties
<1>2. QED
  BY <1>1, RemoveAtProperties DEF Removed

\* The order of the ring survives each of the three.
LEMMA UpdatedStaysSorted ==
  ASSUME NEW ring \in Seq(Server), Sorted(ring), NEW after, NEW k, Updated(ring, after, k)
  PROVE  Sorted(after)
BY DEF Updated, Sorted, HashAt

LEMMA RemovedStaysSorted ==
  ASSUME NEW ring \in Seq(Server), Sorted(ring), NEW k \in 1..Len(ring), NEW after,
         Removed(ring, after, k)
  PROVE  Sorted(after)
<1> DEFINE Old(j) == IF j < k THEN j ELSE j + 1
<1>1. Len(ring) \in Nat /\ Len(after) = Len(ring) - 1
  BY DEF Removed
<1>2. \A j \in 1..Len(after) : HashAt(after, j) = HashAt(ring, Old(j)) /\ Old(j) \in 1..Len(ring)
  BY <1>1 DEF Removed, HashAt
<1>3. \A i, j \in 1..Len(after) : i < j => Old(i) < Old(j)
  BY <1>1
<1> HIDE DEF Old
<1>4. SUFFICES ASSUME NEW i \in 1..Len(after), NEW j \in 1..Len(after), i < j
               PROVE  HashAt(after, i) <= HashAt(after, j)
  BY DEF Sorted
<1>5. HashAt(ring, Old(i)) <= HashAt(ring, Old(j))
  BY <1>2, <1>3, <1>4 DEF Sorted
<1>6. QED
  BY <1>2, <1>5

LEMMA InsertedStaysSorted ==
  ASSUME NEW ring \in Seq(Server), Sorted(ring), NEW s \in Server, NEW k,
         Separates(ring, HashServer[s.id], k), NEW after, Inserted(ring, after, k, s)
  PROVE  Sorted(after)
<1> DEFINE hash   == HashServer[s.id]
           Old(j) == IF j < k THEN j ELSE j - 1
<1>1. Len(ring) \in Nat /\ Len(after) = Len(ring) + 1 /\ k \in 1..(Len(ring) + 1)
  BY DEF Inserted, Separates
<1>2. \A j \in 1..Len(after) :
         j # k => HashAt(after, j) = HashAt(ring, Old(j)) /\ Old(j) \in 1..Len(ring)
  BY <1>1 DEF Inserted, HashAt
<1>3. HashAt(after, k) = hash
  BY <1>1 DEF Inserted, HashAt
<1>4. \A j \in 1..Len(ring) : HashAt(ring, j) \in Nat
  BY HashIsNat
<1>5. hash \in Nat
  <2>1. s.id \in ServerIds
    BY DEF Server
  <2>2. QED
    BY <2>1, HashAssumption
<1>6. \A j \in 1..Len(ring) : IF j < k THEN HashAt(ring, j) < hash ELSE hash <= HashAt(ring, j)
  BY DEF Separates
<1> HIDE DEF hash
<1>7. SUFFICES ASSUME NEW i \in 1..Len(after), NEW j \in 1..Len(after), i < j
               PROVE  HashAt(after, i) <= HashAt(after, j)
  BY DEF Sorted
<1>8. CASE i = k
  <2>1. Old(j) = j - 1 /\ ~ (Old(j) < k) /\ j # k
    BY <1>1, <1>7, <1>8
  <2> HIDE DEF Old
  <2>2. hash <= HashAt(ring, Old(j))
    BY <1>2, <1>6, <2>1
  <2>3. QED
    BY <1>2, <1>3, <1>8, <2>1, <2>2
<1>9. CASE j = k
  <2>1. Old(i) < k /\ i # k
    BY <1>1, <1>7, <1>9
  <2> HIDE DEF Old
  <2>2. HashAt(ring, Old(i)) < hash
    BY <1>2, <1>6, <2>1
  <2>3. QED
    BY <1>2, <1>3, <1>4, <1>5, <1>9, <2>1, <2>2
<1>10. CASE i # k /\ j # k
  <2>1. Old(i) < Old(j)
    BY <1>1, <1>7, <1>10
  <2> HIDE DEF Old
  <2>2. HashAt(ring, Old(i)) <= HashAt(ring, Old(j))
    BY <1>2, <1>10, <2>1 DEF Sorted
  <2>3. QED
    BY <1>2, <1>10, <2>2
<1>11. QED
  BY <1>8, <1>9, <1>10

-----------------------------------------------------------------------------
(* Which documents change their server when the list changes: those of the  *)
(* server a new one is put in front of, and those of the server removed.    *)

LEMMA ServesAfterUpdate ==
  ASSUME NEW ring, NEW after, NEW k, Updated(ring, after, k),
         NEW hash, NEW o, Serves(ring, hash, o)
  PROVE  Serves(after, hash, o)
BY DEF Updated, Serves, HashAt

LEMMA ServesAfterInsert ==
  ASSUME NEW ring \in Seq(Server), NEW s \in Server, NEW k,
         Separates(ring, HashServer[s.id], k), NEW after, Inserted(ring, after, k, s),
         NEW y \in Nat, NEW o, Serves(ring, y, o),
         o # IF k <= Len(ring) THEN k ELSE 1
  PROVE  Serves(after, y, IF o < k THEN o ELSE o + 1)
<1> DEFINE n      == Len(ring)
           hash   == HashServer[s.id]
           new    == IF o < k THEN o ELSE o + 1
           Old(j) == IF j < k THEN j ELSE j - 1
<1>1. n \in Nat /\ Len(after) = n + 1 /\ k \in 1..(n + 1) /\ o \in 1..n
  BY DEF Inserted, Separates, Serves
<1>2. \A j \in 1..(n + 1) :
         j # k => HashAt(after, j) = HashAt(ring, Old(j)) /\ Old(j) \in 1..n
  BY <1>1 DEF Inserted, HashAt
<1>3. HashAt(after, k) = hash
  BY <1>1 DEF Inserted, HashAt
<1>4. \A j \in 1..n : HashAt(ring, j) \in Nat
  BY HashIsNat
<1>5. hash \in Nat
  <2>1. s.id \in ServerIds
    BY DEF Server
  <2>2. QED
    BY <2>1, HashAssumption
<1>6. k <= n => hash <= HashAt(ring, k)
  BY <1>1 DEF Separates
<1>7. /\ new \in 1..(n + 1) /\ new # k /\ Old(new) = o
      /\ \A j \in 1..(n + 1) : j # k /\ j < new => Old(j) < o
  BY <1>1
<1>8. HashAt(after, new) = HashAt(ring, o)
  BY <1>2, <1>7
<1> HIDE DEF hash
<1>9. CASE y <= HashAt(ring, o) /\ \A j \in 1..n : j < o => HashAt(ring, j) < y
  <2>1. \A j \in 1..(n + 1) : j # k /\ j < new => HashAt(after, j) < y
    <3> HIDE DEF Old, new
    <3>1. QED
      BY <1>2, <1>7, <1>9
  <2>2. k < new => hash < y
    <3>1. ASSUME k < new PROVE k <= n /\ k < o
      BY <1>1, <3>1
    <3>2. ASSUME k < new PROVE HashAt(ring, k) < y
      <4>1. k \in 1..n /\ k < o
        BY <1>1, <3>1, <3>2
      <4>2. QED
        BY <1>9, <4>1
    <3>3. QED
      BY <1>1, <1>4, <1>5, <1>6, <3>1, <3>2
  <2> HIDE DEF new, Old
  <2>3. \A j \in 1..(n + 1) : j < new => HashAt(after, j) < y
    BY <1>3, <2>1, <2>2
  <2>4. QED
    BY <1>1, <1>7, <1>8, <1>9, <2>3 DEF Serves, new
<1>10. CASE o = 1 /\ \A j \in 1..n : HashAt(ring, j) < y
  <2>1. k <= n /\ k # 1 /\ new = 1
    BY <1>1, <1>10
  <2>2. hash < y
    <3>1. k \in 1..n
      BY <1>1, <2>1
    <3>2. HashAt(ring, k) < y /\ HashAt(ring, k) \in Nat
      BY <1>4, <1>10, <3>1
    <3>3. QED
      BY <1>5, <1>6, <2>1, <3>2
  <2> HIDE DEF new, Old
  <2>3. \A j \in 1..(n + 1) : HashAt(after, j) < y
    BY <1>2, <1>3, <1>10, <2>2
  <2>4. QED
    BY <1>1, <1>7, <2>1, <2>3 DEF Serves, new
<1>11. QED
  BY <1>9, <1>10 DEF Serves

LEMMA ServesAfterRemoval ==
  ASSUME NEW ring \in Seq(Server), NEW k \in 1..Len(ring), NEW after, Removed(ring, after, k),
         NEW y \in Nat, NEW o, Serves(ring, y, o), o # k
  PROVE  Serves(after, y, IF o < k THEN o ELSE o - 1)
<1> DEFINE n      == Len(ring)
           new    == IF o < k THEN o ELSE o - 1
           Old(j) == IF j < k THEN j ELSE j + 1
<1>1. n \in Nat /\ Len(after) = n - 1 /\ o \in 1..n
  BY DEF Removed, Serves
<1>2. \A j \in 1..(n - 1) : HashAt(after, j) = HashAt(ring, Old(j)) /\ Old(j) \in 1..n
  BY <1>1 DEF Removed, HashAt
<1>3. /\ new \in 1..(n - 1) /\ Old(new) = o
      /\ \A j \in 1..(n - 1) : j < new => Old(j) < o
      /\ o = 1 => new = 1
  BY <1>1
<1> HIDE DEF Old, new
<1>4. HashAt(after, new) = HashAt(ring, o)
  BY <1>2, <1>3
<1>5. CASE y <= HashAt(ring, o) /\ \A j \in 1..n : j < o => HashAt(ring, j) < y
  <2>1. \A j \in 1..(n - 1) : j < new => HashAt(after, j) < y
    BY <1>2, <1>3, <1>5
  <2>2. QED
    BY <1>1, <1>3, <1>4, <1>5, <2>1 DEF Serves, new
<1>6. CASE o = 1 /\ \A j \in 1..n : HashAt(ring, j) < y
  <2>1. new = 1 /\ \A j \in 1..(n - 1) : HashAt(after, j) < y
    BY <1>2, <1>3, <1>6
  <2>2. QED
    BY <1>1, <1>3, <2>1 DEF Serves, new
<1>7. QED
  BY <1>5, <1>6 DEF Serves

-----------------------------------------------------------------------------
(* Waiting edits                                                            *)

\* Every edit in a queue waits at the server that serves its document.
WellPlaced(ring, tasks, i) ==
    \A j \in 1..Len(tasks) : Serves(ring, HashDoc[tasks[j].doc], i)
Placed(ring) == \A i \in 1..Len(ring) : WellPlaced(ring, ring[i].tasks, i)

LEMMA TaskHash ==
  ASSUME NEW s \in Server, NEW j \in 1..Len(s.tasks)
  PROVE  s.tasks[j] \in Task /\ s.tasks[j].doc \in Docs /\ HashDoc[s.tasks[j].doc] \in Nat
<1>1. s.tasks \in Seq(Task)
  BY DEF Server
<1>2. s.tasks[j] \in Task
  BY <1>1
<1>3. s.tasks[j].doc \in Docs
  BY <1>2, TaskParts
<1>4. QED
  BY <1>2, <1>3, HashAssumption

LEMMA PlacedIsPending ==
  ASSUME servers \in Seq(Server)
  PROVE  Placed(servers) => PendingAtOwner
<1> SUFFICES ASSUME Placed(servers),
                    NEW i \in 1..Len(servers), NEW j \in 1..Len(servers[i].tasks)
             PROVE  Owner(servers[i].tasks[j].doc) = i
  BY DEF PendingAtOwner
<1> DEFINE d == servers[i].tasks[j].doc
<1>1. servers[i] \in Server /\ servers # <<>>
  OBVIOUS
<1>2. d \in Docs /\ HashDoc[d] \in Nat
  BY <1>1, TaskHash
<1>3. Serves(servers, HashDoc[d], i)
  BY DEF Placed, WellPlaced
<1>4. Serves(servers, HashDoc[d], Owner(d))
  BY <1>1, <1>2, OwnerServes
<1>5. QED
  BY <1>2, <1>3, <1>4, ServesOne

LEMMA PlacedAfterUpdate ==
  ASSUME NEW ring \in Seq(Server), Placed(ring), NEW k \in 1..Len(ring),
         NEW after, Updated(ring, after, k), WellPlaced(ring, after[k].tasks, k)
  PROVE  Placed(after)
<1> SUFFICES ASSUME NEW i \in 1..Len(after), NEW j \in 1..Len(after[i].tasks)
             PROVE  Serves(after, HashDoc[after[i].tasks[j].doc], i)
  BY DEF Placed, WellPlaced
<1>1. i \in 1..Len(ring) /\ (i # k => after[i] = ring[i])
  BY DEF Updated
<1>2. Serves(ring, HashDoc[after[i].tasks[j].doc], i)
  BY <1>1 DEF Placed, WellPlaced
<1>3. QED
  BY <1>2, ServesAfterUpdate

\* The new server is put in front of one whose queue was executed.
LEMMA PlacedAfterInsert ==
  ASSUME NEW ring \in Seq(Server), Placed(ring), NEW s \in Server, s.tasks = <<>>, NEW k,
         Separates(ring, HashServer[s.id], k), NEW after, Inserted(ring, after, k, s),
         ring[IF k <= Len(ring) THEN k ELSE 1].tasks = <<>>
  PROVE  Placed(after)
<1> SUFFICES ASSUME NEW i \in 1..Len(after), NEW j \in 1..Len(after[i].tasks)
             PROVE  Serves(after, HashDoc[after[i].tasks[j].doc], i)
  BY DEF Placed, WellPlaced
<1> DEFINE next == IF k <= Len(ring) THEN k ELSE 1
           old  == IF i < k THEN i ELSE i - 1
<1>1. /\ Len(ring) \in Nat /\ Len(after) = Len(ring) + 1 /\ k \in 1..(Len(ring) + 1)
      /\ i # k => old \in 1..Len(ring) /\ after[i] = ring[old]
      /\ i = k => after[i] = s
  BY DEF Inserted, Separates
<1>2. i # k
  BY <1>1
<1>3. ring[old].tasks # <<>>
  BY <1>1, <1>2
<1>4. old # next
  BY <1>3
<1>5. i = IF old < k THEN old ELSE old + 1
  BY <1>1, <1>2
<1> DEFINE y == HashDoc[after[i].tasks[j].doc]
<1>6. after[i] \in Server
  BY DEF Inserted
<1>7. y \in Nat
  BY <1>6, TaskHash
<1>8. Serves(ring, y, old)
  BY <1>1, <1>2 DEF Placed, WellPlaced
<1> HIDE DEF y, old
<1>9. Serves(after, y, IF old < k THEN old ELSE old + 1)
  BY <1>4, <1>7, <1>8, ServesAfterInsert
<1>10. QED
  BY <1>5, <1>9 DEF y

\* A server is removed after its queue was executed.
LEMMA PlacedAfterRemoval ==
  ASSUME NEW ring \in Seq(Server), Placed(ring), NEW k \in 1..Len(ring), ring[k].tasks = <<>>,
         NEW after, Removed(ring, after, k)
  PROVE  Placed(after)
<1> SUFFICES ASSUME NEW i \in 1..Len(after), NEW j \in 1..Len(after[i].tasks)
             PROVE  Serves(after, HashDoc[after[i].tasks[j].doc], i)
  BY DEF Placed, WellPlaced
<1> DEFINE old == IF i < k THEN i ELSE i + 1
           y   == HashDoc[after[i].tasks[j].doc]
<1>1. /\ Len(ring) \in Nat /\ Len(after) = Len(ring) - 1
      /\ old \in 1..Len(ring) /\ after[i] = ring[old] /\ old # k
      /\ i = IF old < k THEN old ELSE old - 1
  BY DEF Removed
<1>2. after[i] \in Server
  BY DEF Removed
<1>3. y \in Nat
  BY <1>2, TaskHash
<1>4. Serves(ring, y, old)
  BY <1>1 DEF Placed, WellPlaced
<1> HIDE DEF y, old
<1>5. Serves(after, y, IF old < k THEN old ELSE old - 1)
  BY <1>1, <1>3, <1>4, ServesAfterRemoval
<1>6. QED
  BY <1>1, <1>5 DEF y

-----------------------------------------------------------------------------
(* The inductive invariant of the program.                                  *)

\* A server is being added: the slot chosen at the start stays the right one,
\* because the list does not change before the link.
Adding ==
    /\ SoundServer(fresh) /\ fresh.tasks = <<>>
    /\ Len(servers) \in Nat \ {0} /\ Len(servers) < MaxServers
    /\ Separates(servers, HashServer[fresh.id], slot)
    /\ at = IF slot <= Len(servers) THEN slot ELSE 1

AllSound(ring) == \A i \in 1..Len(ring) : SoundServer(ring[i])

(***************************************************************************)
(* The inductive invariant.  RingSorted is needed for the slot of a new    *)
(* server to separate, Adding for RingSorted to survive the link, and both *)
(* for a waiting edit to stay where get_server leads.                      *)
(***************************************************************************)
IInv ==
    /\ TypeOK
    /\ AllSound(servers)
    /\ Sorted(servers)
    /\ Placed(servers)
    /\ pc = "add" => Adding
    /\ pc = "remove" => Len(servers) > 1

-----------------------------------------------------------------------------
(* What the load balancer does to a server behind the server's back.        *)

LEMMA WithoutDocumentSound ==
  ASSUME NEW s, SoundServer(s), NEW d \in Docs
  PROVE  /\ SoundServer(WithoutDocument(s, d)) /\ WithoutDocument(s, d).id = s.id
         /\ WithoutDocument(s, d).tasks = s.tasks
         /\ WithoutDocument(s, d).db = [s.db EXCEPT ![d] = NULL]
<1> DEFINE cache == LruCacheRemove(s.cache, d)
           db    == [s.db EXCEPT ![d] = NULL]
           after == WithoutDocument(s, d)
<1>1. /\ s \in Server /\ s.cache \in LruCache /\ LruConsistent(s.cache)
      /\ s.db \in [Docs -> Value] /\ CachedIsStored(s) /\ Len(s.tasks) <= QueueMax
  BY SoundParts
<1>2. /\ cache \in LruCache /\ LruConsistent(cache)
      /\ cache.val = [s.cache.val EXCEPT ![d] = NULL]
  BY <1>1, RemoveProperties
<1>3. /\ after.cache = cache /\ after.db = db /\ after.tasks = s.tasks /\ after.id = s.id
  BY <1>1 DEF Server, WithoutDocument
<1>4. after \in Server
  BY <1>1, <1>2 DEF Server, Value, WithoutDocument
<1> HIDE DEF after
<1>5. s.cache.val \in [Docs -> Value]
  BY <1>1 DEF LruCache
<1>6. CachedIsStored(after)
  <2> SUFFICES ASSUME NEW e \in Docs, cache.val[e] # NULL PROVE db[e] # NULL
    BY <1>3 DEF CachedIsStored, Cached
  <2>1. e # d /\ s.cache.val[e] # NULL
    BY <1>2, <1>5
  <2>2. QED
    BY <1>1, <2>1 DEF CachedIsStored, Cached
<1>7. QED
  BY <1>1, <1>2, <1>3, <1>4, <1>6 DEF SoundServer, after

LEMMA ReceiveSound ==
  ASSUME NEW s, SoundServer(s), NEW d \in Docs, NEW c \in Contents
  PROVE  /\ SoundServer([s EXCEPT !.db[d] = c])
         /\ [s EXCEPT !.db[d] = c].id = s.id /\ [s EXCEPT !.db[d] = c].tasks = s.tasks
         /\ [s EXCEPT !.db[d] = c].db = [s.db EXCEPT ![d] = c]
<1> DEFINE after == [s EXCEPT !.db[d] = c]
<1>1. /\ s \in Server /\ s.db \in [Docs -> Value] /\ CachedIsStored(s)
      /\ LruConsistent(s.cache) /\ Len(s.tasks) <= QueueMax
  BY SoundParts
<1>2. /\ after.cache = s.cache /\ after.db = [s.db EXCEPT ![d] = c]
      /\ after.tasks = s.tasks /\ after.id = s.id
  BY <1>1 DEF Server
<1>3. after \in Server
  BY <1>1 DEF Server, Value
<1> HIDE DEF after
<1>4. CachedIsStored(after)
  BY <1>1, <1>2, NULLAssumption DEF CachedIsStored, Cached
<1>5. SoundServer(after)
  BY <1>1, <1>2, <1>3, <1>4 DEF SoundServer
<1>6. QED
  BY <1>2, <1>5 DEF after

LEMMA MergeSound ==
  ASSUME NEW from, SoundServer(from), NEW into, SoundServer(into)
  PROVE  /\ SoundServer(Merge(from, into))
         /\ Merge(from, into).id = into.id /\ Merge(from, into).tasks = into.tasks
         /\ \A d \in Docs : Merge(from, into).db[d]
                              = IF from.db[d] # NULL THEN from.db[d] ELSE into.db[d]
<1> DEFINE db    == [d \in Docs |-> IF from.db[d] # NULL THEN from.db[d] ELSE into.db[d]]
           after == Merge(from, into)
<1>1. /\ into \in Server /\ into.db \in [Docs -> Value] /\ CachedIsStored(into)
      /\ from.db \in [Docs -> Value] /\ LruConsistent(into.cache) /\ Len(into.tasks) <= QueueMax
  BY SoundParts
<1>2. db \in [Docs -> Value]
  BY <1>1
<1>3. /\ after.cache = into.cache /\ after.db = db
      /\ after.tasks = into.tasks /\ after.id = into.id
  BY <1>1 DEF Server, Merge
<1>4. after \in Server
  BY <1>1, <1>2 DEF Server, Merge
<1> HIDE DEF after
<1>5. CachedIsStored(after)
  BY <1>1, <1>3 DEF CachedIsStored
<1>6. SoundServer(after)
  BY <1>1, <1>3, <1>4, <1>5 DEF SoundServer
<1>7. QED
  BY <1>3, <1>6 DEF after

\* One server of the list is replaced by a sound later state of itself.
LEMMA RingAfterUpdate ==
  ASSUME NEW ring \in Seq(Server), Sorted(ring), AllSound(ring), NEW k \in 1..Len(ring),
         NEW s, SoundServer(s), s.id = ring[k].id, NEW after, after = [ring EXCEPT ![k] = s]
  PROVE  /\ Updated(ring, after, k) /\ after[k] = s
         /\ after \in Seq(Server) /\ Len(after) = Len(ring)
         /\ Sorted(after) /\ AllSound(after)
<1>1. s \in Server
  BY DEF SoundServer
<1>2. Updated(ring, after, k) /\ after[k] = s
  BY <1>1, ExceptUpdates
<1>3. Sorted(after)
  BY <1>2, UpdatedStaysSorted
<1>4. after \in Seq(Server) /\ Len(after) = Len(ring)
  BY <1>2 DEF Updated
<1>5. AllSound(after)
  BY <1>2, <1>4 DEF AllSound, Updated
<1>6. QED
  BY <1>2, <1>3, <1>4, <1>5

\* The slot and the next server of an add survive changes to single servers.
LEMMA AddingAfterUpdate ==
  ASSUME NEW ring, NEW after, NEW k, Updated(ring, after, k),
         NEW hash, NEW l, Separates(ring, hash, l)
  PROVE  Separates(after, hash, l)
BY DEF Updated, Separates, HashAt

\* The ring is a ring: after the last slot comes the first.
LEMMA AroundTheRing ==
  ASSUME NEW n \in Nat \ {0}, NEW i \in 0..n
  PROVE  (i % n) + 1 = IF i < n THEN i + 1 ELSE 1
<1>1. CASE i < n
  BY <1>1
<1>2. CASE i = n
  BY <1>2
<1>3. QED
  BY <1>1, <1>2

-----------------------------------------------------------------------------
(* The initial state and every action                                       *)

LEMMA InitIInv == Init => IInv
BY SizesAssumption DEF Init, IInv, TypeOK, AllSound, Sorted, Placed

\* A step that replaces a single server keeps what IInv says of the list.
ListInv(ring) == AllSound(ring) /\ Sorted(ring) /\ Placed(ring)

LEMMA ServerStep ==
  ASSUME servers \in Seq(Server), ListInv(servers), NEW k \in 1..Len(servers), NEW s,
         SoundServer(s), s.id = servers[k].id, WellPlaced(servers, s.tasks, k),
         servers' = [servers EXCEPT ![k] = s]
  PROVE  /\ servers' \in Seq(Server) /\ Len(servers') = Len(servers) /\ servers'[k] = s
         /\ ListInv(servers') /\ Updated(servers, servers', k)
<1> DEFINE after == [servers EXCEPT ![k] = s]
<1>1. /\ Updated(servers, after, k) /\ after[k] = s
      /\ after \in Seq(Server) /\ Len(after) = Len(servers)
      /\ Sorted(after) /\ AllSound(after)
  BY RingAfterUpdate DEF ListInv
<1> HIDE DEF after
<1>2. Placed(after)
  BY <1>1, PlacedAfterUpdate DEF ListInv
<1>3. servers' = after
  BY DEF after
<1>4. QED
  BY <1>1, <1>2, <1>3 DEF ListInv

\* IInv is a matter of the list, of the other types, and of the running add.
LEMMA Assembled ==
  ASSUME TypeOK', ListInv(servers'), (pc = "add")' => Adding', (pc = "remove")' => Len(servers') > 1
  PROVE  IInv'
BY DEF IInv, ListInv, AllSound, Sorted, Placed, WellPlaced, Serves, HashAt

LEMMA Disassembled ==
  ASSUME IInv
  PROVE  /\ TypeOK /\ servers \in Seq(Server) /\ Len(servers) \in Nat /\ ListInv(servers)
         /\ (pc = "add" => Adding) /\ (pc = "remove" => Len(servers) > 1)
         /\ \A i \in 1..Len(servers) : SoundServer(servers[i])
BY DEF IInv, ListInv, TypeOK, AllSound

LEMMA ForwardEditIInv ==
  ASSUME IInv, NEW d \in Docs, NEW c \in Contents, ForwardEdit(d, c)
  PROVE  IInv'
<1> DEFINE k == Owner(d)
           t == [doc |-> d, content |-> c]
           s == Enqueue(servers[k], t)
<1>1. servers \in Seq(Server) /\ servers # <<>> /\ pc = "ready" /\ ListInv(servers) /\ TypeOK
  BY Disassembled DEF ForwardEdit
<1>2. Serves(servers, HashDoc[d], k) /\ k \in 1..Len(servers)
  BY <1>1, OwnerServes
<1>3. t \in Task /\ t.doc = d
  BY DEF Task
<1>4. /\ servers' = [servers EXCEPT ![k] = s]
      /\ res' = Queued(servers'[k], d)
      /\ UNCHANGED <<pc, at, slot, fresh, doc, printed>>
  BY DEF ForwardEdit
<1> HIDE DEF k, t
<1>5. SoundServer(servers[k]) /\ SoundServer(s) /\ s.id = servers[k].id
  BY <1>1, <1>2, <1>3, EnqueueSound DEF ListInv, AllSound
<1>6. s.tasks = servers[k].tasks \/ s.tasks = Append(servers[k].tasks, t)
  BY <1>5 DEF Enqueue, SoundServer, Server
<1> HIDE DEF s
<1>7. WellPlaced(servers, s.tasks, k)
  <2>1. servers[k].tasks \in Seq(Task)
    BY <1>5, SoundParts
  <2>2. WellPlaced(servers, servers[k].tasks, k)
    BY <1>1, <1>2 DEF ListInv, Placed
  <2>3. CASE s.tasks = Append(servers[k].tasks, t)
    BY <1>2, <1>3, <2>1, <2>2, <2>3 DEF WellPlaced
  <2>4. QED
    BY <1>6, <2>2, <2>3
<1>8. /\ servers' \in Seq(Server) /\ Len(servers') = Len(servers) /\ servers'[k] = s
      /\ ListInv(servers')
  BY <1>1, <1>2, <1>4, <1>5, <1>7, ServerStep
<1>9. res' \in QueuedResponse
  BY <1>4, <1>5, <1>8, QueuedTyped
<1>10. TypeOK'
  BY <1>1, <1>4, <1>8, <1>9 DEF TypeOK
<1>11. QED
  BY <1>1, <1>4, <1>8, <1>10, Assembled

\* Executing one task: the queue that is executed gets shorter, no other changes.
LEMMA ExecuteTaskIInv ==
  ASSUME IInv, ExecuteTask
  PROVE  IInv'
<1> DEFINE old    == servers[at]
           t      == Head(old.tasks)
           edited == EditDocument(old, t.doc, t.content)
           s      == Dequeue(edited)
<1>1. /\ servers \in Seq(Server) /\ ListInv(servers) /\ TypeOK /\ at \in 1..Len(servers)
      /\ SoundServer(old) /\ old.tasks # <<>> /\ old.tasks \in Seq(Task)
      /\ (pc = "add" => Adding) /\ (pc = "remove" => Len(servers) > 1)
  <2>1. at \in 1..Len(servers)
    BY DEF IInv, TypeOK, ExecuteTask
  <2>2. QED
    BY <2>1, Disassembled, SoundParts DEF ExecuteTask
<1>2. t \in Task /\ t.doc \in Docs /\ t.content \in Contents
  <2>1. t \in Task
    BY <1>1
  <2>2. QED
    BY <2>1, TaskParts
<1>3. SoundServer(edited) /\ edited.tasks = old.tasks /\ edited.id = old.id
  BY <1>1, <1>2, EditSound
<1>4. SoundServer(s) /\ s.id = old.id /\ s.tasks = Tail(old.tasks)
  BY <1>1, <1>3, DequeueSound
<1>5. /\ servers' = [servers EXCEPT ![at] = s] /\ printed' = Edited(old, t.doc)
      /\ UNCHANGED <<pc, at, slot, fresh, doc, res>>
  BY DEF ExecuteTask
<1>6. printed' \in EditResponse
  BY <1>1, <1>2, <1>5, EditedTyped
<1> HIDE DEF s
<1>7. WellPlaced(servers, s.tasks, at)
  <2>1. WellPlaced(servers, old.tasks, at)
    BY <1>1 DEF ListInv, Placed
  <2> HIDE DEF old
  <2>2. \A j \in 1..Len(Tail(old.tasks)) :
           j + 1 \in 1..Len(old.tasks) /\ Tail(old.tasks)[j] = old.tasks[j + 1]
    BY <1>1
  <2>3. QED
    BY <1>4, <2>1, <2>2 DEF WellPlaced
<1>8. /\ servers' \in Seq(Server) /\ Len(servers') = Len(servers)
      /\ ListInv(servers') /\ Updated(servers, servers', at)
  BY <1>1, <1>4, <1>5, <1>7, ServerStep
<1>9. TypeOK'
  BY <1>1, <1>5, <1>6, <1>8 DEF TypeOK
<1>10. ASSUME pc = "add" PROVE Adding'
  BY <1>1, <1>5, <1>8, <1>10, AddingAfterUpdate DEF Adding
<1>11. QED
  BY <1>1, <1>5, <1>8, <1>9, <1>10, Assembled

LEMMA ForwardGetIInv ==
  ASSUME IInv, NEW d \in Docs, ForwardGet(d)
  PROVE  IInv'
<1>1. servers \in Seq(Server) /\ servers # <<>>
  BY DEF IInv, TypeOK, ForwardGet
<1>2. Owner(d) \in 1..Len(servers)
  BY <1>1, OwnerServes
<1>3. TypeOK'
  BY <1>2 DEF IInv, TypeOK, ForwardGet
<1>4. QED
  BY <1>3 DEF IInv, AllSound, Sorted, Placed, WellPlaced, Serves, HashAt, ForwardGet

LEMMA AnswerGetIInv ==
  ASSUME IInv, AnswerGet
  PROVE  IInv'
<1> DEFINE old == servers[at]
           s   == GetDocument(old, doc)
<1>1. /\ servers \in Seq(Server) /\ ListInv(servers) /\ TypeOK /\ at \in 1..Len(servers)
      /\ SoundServer(old) /\ old.tasks = <<>> /\ doc \in Docs
  <2>1. at \in 1..Len(servers) /\ doc \in Docs
    BY DEF IInv, TypeOK, AnswerGet
  <2>2. QED
    BY <2>1, Disassembled DEF AnswerGet
<1>2. SoundServer(s) /\ s.id = old.id /\ s.tasks = <<>>
  BY <1>1, GetSound
<1>3. /\ servers' = [servers EXCEPT ![at] = s] /\ res' = Got(old, doc)
      /\ pc' = "ready" /\ doc' = NULL /\ UNCHANGED <<at, slot, fresh, printed>>
  BY DEF AnswerGet
<1>4. res' \in GetResponse
  BY <1>1, <1>3, GotTyped
<1> HIDE DEF s
<1>5. WellPlaced(servers, s.tasks, at)
  BY <1>2 DEF WellPlaced
<1>6. servers' \in Seq(Server) /\ Len(servers') = Len(servers) /\ ListInv(servers')
  BY <1>1, <1>2, <1>3, <1>5, ServerStep
<1>7. fresh' = NULL
  BY <1>1, <1>3 DEF TypeOK, AnswerGet
<1>8. TypeOK'
  BY <1>1, <1>3, <1>4, <1>6, <1>7 DEF TypeOK
<1>9. QED
  BY <1>3, <1>6, <1>8, Assembled

LEMMA MoveDocumentIInv ==
  ASSUME IInv, NEW d \in Docs, MoveDocument(d)
  PROVE  IInv'
<1> DEFINE old == servers[at]
           s   == WithoutDocument(old, d)
           c   == old.db[d]
<1>1. /\ servers \in Seq(Server) /\ ListInv(servers) /\ TypeOK /\ at \in 1..Len(servers)
      /\ SoundServer(old) /\ old.tasks = <<>> /\ Adding /\ pc = "add"
  <2>1. at \in 1..Len(servers) /\ pc = "add"
    BY DEF IInv, TypeOK, MoveDocument
  <2>2. QED
    BY <2>1, Disassembled DEF MoveDocument
<1>2. c \in Contents
  <2>1. old.db \in [Docs -> Value]
    BY <1>1, SoundParts
  <2>2. c # NULL
    BY DEF MoveDocument, MustMove
  <2>3. QED
    BY <2>1, <2>2 DEF Value
<1>3. SoundServer(s) /\ s.id = old.id /\ s.tasks = <<>>
  BY <1>1, WithoutDocumentSound
<1>4. /\ servers' = [servers EXCEPT ![at] = s] /\ fresh' = [fresh EXCEPT !.db[d] = c]
      /\ UNCHANGED <<pc, at, slot, doc, res, printed>>
  BY DEF MoveDocument
<1> HIDE DEF s, c
<1>5. SoundServer(fresh') /\ fresh'.id = fresh.id /\ fresh'.tasks = <<>>
  <2> DEFINE after == [fresh EXCEPT !.db[d] = c]
  <2>1. SoundServer(fresh) /\ fresh.tasks = <<>>
    BY <1>1 DEF Adding
  <2>2. SoundServer(after) /\ after.id = fresh.id /\ after.tasks = fresh.tasks
    BY <1>2, <2>1, ReceiveSound
  <2> HIDE DEF after
  <2>3. fresh' = after
    BY <1>4 DEF after
  <2>4. QED
    BY <2>1, <2>2, <2>3
<1>6. WellPlaced(servers, s.tasks, at)
  BY <1>3 DEF WellPlaced
<1>7. /\ servers' \in Seq(Server) /\ Len(servers') = Len(servers)
      /\ ListInv(servers') /\ Updated(servers, servers', at)
  BY <1>1, <1>3, <1>4, <1>6, ServerStep
<1>8. TypeOK'
  BY <1>1, <1>4, <1>5, <1>7, SoundParts DEF TypeOK
<1>9. Adding'
  BY <1>1, <1>4, <1>5, <1>7, AddingAfterUpdate DEF Adding
<1>10. QED
  BY <1>1, <1>4, <1>7, <1>8, <1>9, Assembled

LEMMA LinkServerIInv ==
  ASSUME IInv, LinkServer
  PROVE  IInv'
<1> DEFINE after == InsertAt(servers, slot, fresh)
<1>1. /\ servers \in Seq(Server) /\ ListInv(servers) /\ TypeOK /\ at \in 1..Len(servers)
      /\ servers[at].tasks = <<>> /\ Adding /\ pc = "add"
  <2>1. at \in 1..Len(servers) /\ pc = "add"
    BY DEF IInv, TypeOK, LinkServer
  <2>2. QED
    BY <2>1, Disassembled DEF LinkServer
<1>2. /\ SoundServer(fresh) /\ fresh \in Server /\ fresh.tasks = <<>>
      /\ Separates(servers, HashServer[fresh.id], slot) /\ slot \in 1..(Len(servers) + 1)
      /\ at = (IF slot <= Len(servers) THEN slot ELSE 1) /\ Len(servers) < MaxServers
  BY <1>1 DEF Adding, SoundServer, Separates
<1>3. Inserted(servers, after, slot, fresh)
  BY <1>1, <1>2, InsertAtInserts
<1> HIDE DEF after
<1>4. after \in Seq(Server) /\ Len(after) = Len(servers) + 1
  BY <1>3 DEF Inserted
<1>5. Sorted(after)
  BY <1>1, <1>2, <1>3, InsertedStaysSorted DEF ListInv
<1>6. Placed(after)
  BY <1>1, <1>2, <1>3, PlacedAfterInsert DEF ListInv
<1>7. AllSound(after)
  <2>1. SUFFICES ASSUME NEW i \in 1..Len(after) PROVE SoundServer(after[i])
    BY DEF AllSound
  <2>2. after[i] = fresh \/ \E j \in 1..Len(servers) : after[i] = servers[j]
    BY <1>1, <1>2, <1>3, <1>4 DEF Inserted
  <2>3. QED
    BY <1>1, <1>2, <2>2 DEF ListInv, AllSound
<1>8. /\ servers' = after /\ pc' = "ready" /\ fresh' = NULL
      /\ UNCHANGED <<at, slot, doc, res, printed>>
  BY DEF LinkServer, after
<1>9. TypeOK'
  BY <1>1, <1>2, <1>4, <1>8, SizesAssumption DEF TypeOK
<1>10. QED
  BY <1>5, <1>6, <1>7, <1>8, <1>9, Assembled DEF ListInv

\* The next server takes the documents over, then the removed one is unlinked.
LEMMA UnlinkServerList ==
  ASSUME IInv, UnlinkServer
  PROVE  \E next \in 1..Len(servers), merged \in Seq(Server) :
            /\ next = After(at) /\ next # at /\ at \in 1..Len(servers)
            /\ merged = [servers EXCEPT ![next] = Merge(servers[at], servers[next])]
            /\ ListInv(merged) /\ Len(merged) = Len(servers) /\ merged[at] = servers[at]
            /\ SoundServer(servers[at]) /\ SoundServer(servers[next])
            /\ servers[at].tasks = <<>>
            /\ servers' = RemoveAt(merged, at) /\ Removed(merged, servers', at)
<1> DEFINE next   == IF at < Len(servers) THEN at + 1 ELSE 1
           s      == Merge(servers[at], servers[next])
           merged == [servers EXCEPT ![next] = s]
<1>1. /\ servers \in Seq(Server) /\ ListInv(servers) /\ at \in 1..Len(servers)
      /\ Len(servers) \in Nat \ {0} /\ Len(servers) > 1 /\ servers[at].tasks = <<>>
      /\ \A i \in 1..Len(servers) : SoundServer(servers[i])
  <2>1. at \in 1..Len(servers) /\ pc = "remove"
    BY DEF IInv, TypeOK, UnlinkServer
  <2>2. QED
    BY <2>1, Disassembled DEF UnlinkServer
<1>2. After(at) = next /\ next \in 1..Len(servers) /\ next # at
  <2>1. at \in 0..Len(servers) /\ Len(servers) \in Nat \ {0}
    BY <1>1
  <2>2. (at % Len(servers)) + 1 = IF at < Len(servers) THEN at + 1 ELSE 1
    BY <2>1, AroundTheRing
  <2>3. next \in 1..Len(servers) /\ next # at
    BY <1>1
  <2>4. QED
    BY <2>2, <2>3 DEF After
<1> HIDE DEF next
<1>3. /\ SoundServer(servers[at]) /\ SoundServer(servers[next])
      /\ SoundServer(s) /\ s.id = servers[next].id /\ s.tasks = servers[next].tasks
  BY <1>1, <1>2, MergeSound
<1>4. servers' = RemoveAt(merged, at)
  BY <1>2 DEF UnlinkServer
<1> HIDE DEF s
<1>5. /\ Updated(servers, merged, next) /\ merged[next] = s
      /\ merged \in Seq(Server) /\ Len(merged) = Len(servers)
      /\ Sorted(merged) /\ AllSound(merged)
  BY <1>1, <1>2, <1>3, RingAfterUpdate DEF ListInv
<1> HIDE DEF merged
<1>6. WellPlaced(servers, merged[next].tasks, next)
  BY <1>1, <1>2, <1>3, <1>5 DEF ListInv, Placed
<1>7. Placed(merged)
  BY <1>1, <1>2, <1>5, <1>6, PlacedAfterUpdate DEF ListInv
<1>8. merged[at] = servers[at]
  BY <1>1, <1>2, <1>5 DEF Updated
<1>9. Removed(merged, servers', at)
  <2>1. Removed(merged, RemoveAt(merged, at), at)
    BY <1>1, <1>5, RemoveAtRemoves
  <2>2. QED
    BY <1>4, <2>1
<1>10. /\ next = After(at) /\ merged = [servers EXCEPT ![next] = Merge(servers[at], servers[next])]
       /\ ListInv(merged)
  BY <1>2, <1>5, <1>7 DEF merged, s, ListInv
<1>11. QED
  BY <1>1, <1>2, <1>3, <1>4, <1>5, <1>8, <1>9, <1>10

LEMMA UnlinkServerIInv ==
  ASSUME IInv, UnlinkServer
  PROVE  IInv'
<1>1. PICK merged \in Seq(Server) :
         /\ at \in 1..Len(merged) /\ Len(merged) = Len(servers) /\ ListInv(merged)
         /\ merged[at].tasks = <<>> /\ Removed(merged, servers', at)
  BY UnlinkServerList
<1>2. servers' \in Seq(Server) /\ Len(servers') = Len(servers) - 1
  BY <1>1 DEF Removed
<1>3. Sorted(servers')
  BY <1>1, RemovedStaysSorted DEF ListInv
<1>4. Placed(servers')
  BY <1>1, PlacedAfterRemoval DEF ListInv
<1>5. AllSound(servers')
  <2>1. SUFFICES ASSUME NEW i \in 1..Len(servers') PROVE SoundServer(servers'[i])
    BY DEF AllSound
  <2>2. PICK j \in 1..Len(merged) : servers'[i] = merged[j]
    BY <1>1, <1>2 DEF Removed
  <2>3. QED
    BY <1>1, <2>2 DEF ListInv, AllSound
<1>6. pc' = "ready" /\ UNCHANGED <<at, slot, fresh, doc, res, printed>> /\ TypeOK /\ pc = "remove"
  BY Disassembled DEF UnlinkServer
<1>7. TypeOK'
  BY <1>1, <1>2, <1>6, SizesAssumption DEF TypeOK
<1>8. QED
  BY <1>3, <1>4, <1>5, <1>6, <1>7, Assembled DEF ListInv

\* Requests that start with, or end with, no server or a single one.
LEMMA ShortListInv ==
  /\ ListInv(<<>>)
  /\ \A s \in Server : SoundServer(s) /\ s.tasks = <<>> => ListInv(<<s>>)
BY DEF ListInv, AllSound, Sorted, Placed, WellPlaced

LEMMA AddFirstServerIInv ==
  ASSUME IInv, NEW id \in ServerIds, NEW size \in CacheSizes, AddFirstServer(id, size)
  PROVE  IInv'
<1> DEFINE s == InitServer(id, size)
<1>1. size \in Nat \ {0} /\ pc = "ready" /\ TypeOK
  BY SizesAssumption, Disassembled DEF AddFirstServer
<1>2. SoundServer(s) /\ s \in Server /\ s.tasks = <<>>
  BY <1>1, InitServerSound DEF SoundServer
<1>3. servers' = <<s>> /\ UNCHANGED <<pc, at, slot, fresh, doc, res, printed>>
  BY DEF AddFirstServer
<1> HIDE DEF s
<1>4. ListInv(servers')
  BY <1>2, <1>3, ShortListInv
<1>5. servers' \in Seq(Server) /\ Len(servers') = 1
  BY <1>2, <1>3
<1>6. TypeOK'
  BY <1>1, <1>3, <1>5, SizesAssumption DEF TypeOK
<1>7. QED
  BY <1>1, <1>3, <1>4, <1>6, Assembled

LEMMA AddServerIInv ==
  ASSUME IInv, NEW id \in ServerIds, NEW size \in CacheSizes, AddServer(id, size)
  PROVE  IInv'
<1> DEFINE s == InitServer(id, size)
           k == AddSlot(id)
<1>1. /\ size \in Nat \ {0} /\ pc = "ready" /\ TypeOK /\ servers \in Seq(Server)
      /\ servers # <<>> /\ ListInv(servers) /\ Len(servers) < MaxServers
  BY SizesAssumption, Disassembled DEF AddServer
<1>2. SoundServer(s) /\ s \in Server /\ s.tasks = <<>> /\ s.id = id
  BY <1>1, InitServerSound DEF SoundServer
<1>3. Separates(servers, HashServer[id], k) /\ k \in 1..(Len(servers) + 1)
  BY <1>1, AddSlotSeparates DEF ListInv, Separates
<1>4. Len(servers) \in Nat \ {0}
  BY <1>1
<1>5. NextSlot(k) = IF k <= Len(servers) THEN k ELSE 1
  <2>1. k - 1 \in 0..Len(servers)
    BY <1>3, <1>4
  <2>2. ((k - 1) % Len(servers)) + 1 = IF k - 1 < Len(servers) THEN (k - 1) + 1 ELSE 1
    BY <1>4, <2>1, AroundTheRing
  <2>3. QED
    BY <1>3, <1>4, <2>2 DEF NextSlot
<1>6. /\ pc' = "add" /\ slot' = k /\ at' = NextSlot(k) /\ fresh' = s
      /\ UNCHANGED <<servers, doc, res, printed>>
  BY DEF AddServer, NextSlot
<1> HIDE DEF s, k
<1>7. at' = (IF slot' <= Len(servers') THEN slot' ELSE 1) /\ at' \in 1..Len(servers')
  BY <1>3, <1>4, <1>5, <1>6
<1>8. Adding'
  BY <1>1, <1>2, <1>3, <1>4, <1>6, <1>7 DEF Adding
<1>9. TypeOK'
  BY <1>1, <1>2, <1>3, <1>6, <1>7 DEF TypeOK
<1>10. QED
  BY <1>1, <1>6, <1>8, <1>9, Assembled

LEMMA RemoveServerIInv ==
  ASSUME IInv, NEW id \in ServerIds, RemoveServer(id)
  PROVE  IInv'
<1>1. /\ TypeOK /\ servers \in Seq(Server) /\ servers # <<>> /\ ListInv(servers)
      /\ Len(servers) > 1 /\ pc = "ready"
  BY Disassembled DEF RemoveServer
<1>2. GetServer(HashServer[id]) \in 1..Len(servers)
  <2>1. HashServer[id] \in Nat
    BY HashAssumption
  <2>2. QED
    BY <1>1, <2>1, GetServerServes DEF Serves
<1>3. /\ pc' = "remove" /\ at' = GetServer(HashServer[id])
      /\ UNCHANGED <<servers, slot, fresh, doc, res, printed>>
  BY DEF RemoveServer
<1>4. TypeOK'
  BY <1>1, <1>2, <1>3 DEF TypeOK
<1>5. QED
  BY <1>1, <1>3, <1>4, Assembled

\* The last server goes, or all of them at the end of the input.
LEMMA NoServersIInv ==
  ASSUME IInv, pc = "ready", servers' = <<>>, pc' \in {"ready", "done"},
         UNCHANGED <<at, slot, fresh, doc, res, printed>>
  PROVE  IInv'
<1>1. TypeOK'
  BY SizesAssumption DEF IInv, TypeOK
<1>2. QED
  BY <1>1, ShortListInv, Assembled

LEMMA CrashIInv ==
  ASSUME IInv, pc = "ready", Crash
  PROVE  IInv'
<1>1. TypeOK'
  BY DEF IInv, TypeOK, Crash
<1>2. QED
  BY <1>1, Disassembled, Assembled DEF Crash

LEMMA NextIInv == IInv /\ [Next]_vars => IInv'
<1> SUFFICES ASSUME IInv, [Next]_vars PROVE IInv'
  OBVIOUS
<1>1. ASSUME NEW d \in Docs, NEW c \in Contents, ForwardEdit(d, c) PROVE IInv'
  BY <1>1, ForwardEditIInv
<1>2. ASSUME NEW d \in Docs, ForwardGet(d) PROVE IInv'
  BY <1>2, ForwardGetIInv
<1>3. CASE ForwardWithoutServer \/ AddWithoutCache \/ RemoveWithoutServer
  BY <1>3, CrashIInv DEF ForwardWithoutServer, AddWithoutCache, RemoveWithoutServer
<1>4. ASSUME NEW id \in ServerIds, NEW size \in CacheSizes, AddFirstServer(id, size)
      PROVE  IInv'
  BY <1>4, AddFirstServerIInv
<1>5. ASSUME NEW id \in ServerIds, NEW size \in CacheSizes, AddServer(id, size) PROVE IInv'
  BY <1>5, AddServerIInv
<1>6. ASSUME NEW id \in ServerIds, RemoveLastServer(id) PROVE IInv'
  BY <1>6, NoServersIInv DEF RemoveLastServer
<1>7. ASSUME NEW id \in ServerIds, RemoveServer(id) PROVE IInv'
  BY <1>7, RemoveServerIInv
<1>8. CASE EndOfInput
  BY <1>8, NoServersIInv DEF EndOfInput
<1>9. CASE ExecuteTask
  BY <1>9, ExecuteTaskIInv
<1>10. CASE AnswerGet
  BY <1>10, AnswerGetIInv
<1>11. ASSUME NEW d \in Docs, MoveDocument(d) PROVE IInv'
  BY <1>11, MoveDocumentIInv
<1>12. CASE LinkServer
  BY <1>12, LinkServerIInv
<1>13. CASE UnlinkServer
  BY <1>13, UnlinkServerIInv
<1>14. CASE UNCHANGED vars
  <2>1. TypeOK'
    BY <1>14 DEF IInv, TypeOK, vars
  <2>2. (pc = "add")' => Adding'
    BY <1>14 DEF IInv, Adding, vars
  <2>3. QED
    BY <1>14, <2>1, <2>2, Disassembled, Assembled DEF vars
<1>15. QED
  BY <1>1, <1>2, <1>3, <1>4, <1>5, <1>6, <1>7, <1>8, <1>9, <1>10, <1>11, <1>12, <1>13, <1>14
  DEF Next, Request, Handler

\* IInv holds throughout, whatever the input does.
THEOREM Invariance == Spec => []IInv
<1>1. QED
  BY InitIInv, NextIInv, PTL DEF Spec

\* Every variable keeps its type: the handlers only follow positions that are in
\* the list, and a list never outgrows its bound.
THEOREM TypeCorrect == Spec => []TypeOK
<1>1. IInv => TypeOK
  BY DEF IInv
<1>2. QED
  BY <1>1, Invariance, PTL

\* loader_add_server and loader_remove_server keep the list ordered by hash,
\* whatever the hash functions are.
THEOREM RingStaysSorted == Spec => []RingSorted
<1>1. IInv => RingSorted
  BY DEF IInv, Sorted, HashAt, RingSorted, RingHash
<1>2. QED
  BY <1>1, Invariance, PTL

\* No server that comes or goes strands an edit that waits in some queue: the
\* queues that execute_queue empties are all that have to be emptied.
THEOREM EditsWaitAtTheirOwner == Spec => []PendingAtOwner
<1>1. IInv => PendingAtOwner
  BY PlacedIsPending DEF IInv, TypeOK
<1>2. QED
  BY <1>1, Invariance, PTL

\* On every server the cache's list and table agree and the cache holds nothing
\* that the database does not, moved and merged documents included.
THEOREM CachesStayConsistent == Spec => []CachesConsistent
<1>1. IInv => CachesConsistent
  BY DEF IInv, AllSound, SoundServer, CachedIsStored, CachesConsistent
<1>2. QED
  BY <1>1, Invariance, PTL

-----------------------------------------------------------------------------
(* Documents are kept                                                       *)

HeldOn(ring, d) == \E i \in 1..Len(ring) : ring[i].db[d] # NULL

LEMMA HeldParts ==
  ASSUME NEW d
  PROVE  /\ Held(d) <=> HeldOn(servers, d) \/ (pc = "add" /\ fresh.db[d] # NULL)
         /\ Held(d)' <=> HeldOn(servers', d) \/ (pc' = "add" /\ fresh'.db[d] # NULL)
BY DEF Held, HeldOn

\* A server that loses no document leaves none unheld.
LEMMA HeldAfterUpdate ==
  ASSUME NEW ring \in Seq(Server), NEW k \in 1..Len(ring), NEW s, NEW d,
         ring[k].db[d] # NULL => s.db[d] # NULL, HeldOn(ring, d)
  PROVE  HeldOn([ring EXCEPT ![k] = s], d)
<1>1. PICK i \in 1..Len(ring) : ring[i].db[d] # NULL
  BY DEF HeldOn
<1>2. CASE i = k
  BY <1>1, <1>2 DEF HeldOn
<1>3. CASE i # k
  BY <1>1, <1>3 DEF HeldOn
<1>4. QED
  BY <1>2, <1>3

LEMMA ExecuteTaskKeeps ==
  ASSUME IInv, ExecuteTask, NEW d \in Docs, Held(d)
  PROVE  Held(d)'
<1> DEFINE old    == servers[at]
           t      == Head(old.tasks)
           edited == EditDocument(old, t.doc, t.content)
           s      == Dequeue(edited)
<1>1. /\ servers \in Seq(Server) /\ at \in 1..Len(servers)
      /\ SoundServer(old) /\ old.tasks # <<>> /\ old.tasks \in Seq(Task)
      /\ old.db \in [Docs -> Value]
  <2>1. at \in 1..Len(servers)
    BY DEF IInv, TypeOK, ExecuteTask
  <2>2. QED
    BY <2>1, Disassembled, SoundParts DEF ExecuteTask
<1>2. t.doc \in Docs /\ t.content \in Contents
  <2>1. t \in Task
    BY <1>1
  <2>2. QED
    BY <2>1, TaskParts
<1>3. /\ SoundServer(edited) /\ edited.tasks = old.tasks
      /\ edited.db = [old.db EXCEPT ![t.doc] = t.content]
  BY <1>1, <1>2, EditSound
<1>4. s.db = edited.db
  BY <1>1, <1>3, DequeueSound
<1>5. servers' = [servers EXCEPT ![at] = s] /\ UNCHANGED <<pc, fresh>>
  BY DEF ExecuteTask
<1> HIDE DEF s, edited, t
<1>6. old.db[d] # NULL => s.db[d] # NULL
  BY <1>1, <1>2, <1>3, <1>4, NULLAssumption
<1>7. HeldOn(servers, d) => HeldOn(servers', d)
  BY <1>1, <1>5, <1>6, HeldAfterUpdate
<1>8. QED
  BY <1>5, <1>7, HeldParts

\* The document that moves is held by the new server from the same step on.
LEMMA MoveDocumentKeeps ==
  ASSUME IInv, NEW e \in Docs, MoveDocument(e), NEW d \in Docs, Held(d)
  PROVE  Held(d)'
<1> DEFINE s == WithoutDocument(servers[at], e)
           c == servers[at].db[e]
<1>1. /\ servers \in Seq(Server) /\ at \in 1..Len(servers) /\ SoundServer(servers[at])
      /\ SoundServer(fresh) /\ pc = "add"
  <2>1. at \in 1..Len(servers) /\ pc = "add"
    BY DEF IInv, TypeOK, MoveDocument
  <2>2. QED
    BY <2>1, Disassembled DEF Adding
<1>2. fresh.db \in [Docs -> Value] /\ servers[at].db \in [Docs -> Value] /\ fresh \in Server
  BY <1>1, SoundParts
<1>3. s.db = [servers[at].db EXCEPT ![e] = NULL]
  BY <1>1, WithoutDocumentSound
<1>4. /\ servers' = [servers EXCEPT ![at] = s] /\ fresh' = [fresh EXCEPT !.db[e] = c]
      /\ pc' = "add" /\ c # NULL
  BY <1>1 DEF MoveDocument, MustMove
<1>5. fresh'.db = [fresh.db EXCEPT ![e] = c]
  BY <1>2, <1>4 DEF Server
<1> HIDE DEF s, c
<1>6. CASE d = e
  BY <1>2, <1>4, <1>5, <1>6, HeldParts
<1>7. CASE d # e
  <2>1. servers[at].db[d] # NULL => s.db[d] # NULL
    BY <1>2, <1>3, <1>7
  <2>2. HeldOn(servers, d) => HeldOn(servers', d)
    BY <1>1, <1>4, <2>1, HeldAfterUpdate
  <2>3. fresh.db[d] # NULL => fresh'.db[d] # NULL
    BY <1>2, <1>5, <1>7
  <2>4. QED
    BY <1>1, <1>4, <2>2, <2>3, HeldParts
<1>8. QED
  BY <1>6, <1>7

\* What the new server has taken over is on the ring once it is linked.
LEMMA LinkServerKeeps ==
  ASSUME IInv, LinkServer, NEW d \in Docs, Held(d)
  PROVE  Held(d)'
<1>1. /\ servers \in Seq(Server) /\ Adding
      /\ SoundServer(fresh) /\ slot \in 1..(Len(servers) + 1)
  <2>1. pc = "add"
    BY DEF LinkServer
  <2>2. QED
    BY <2>1, Disassembled DEF Adding, Separates
<1>2. Inserted(servers, servers', slot, fresh)
  BY <1>1, InsertAtInserts DEF LinkServer, SoundServer
<1>3. CASE HeldOn(servers, d)
  <2>1. PICK i \in 1..Len(servers) : servers[i].db[d] # NULL
    BY <1>3 DEF HeldOn
  <2> DEFINE j == IF i < slot THEN i ELSE i + 1
  <2>2. j \in 1..Len(servers') /\ servers'[j] = servers[i]
    BY <1>1, <1>2 DEF Inserted
  <2> HIDE DEF j
  <2>3. HeldOn(servers', d)
    BY <2>1, <2>2 DEF HeldOn
  <2>4. QED
    BY <2>3, HeldParts
<1>4. CASE fresh.db[d] # NULL
  <2>1. slot \in 1..Len(servers') /\ servers'[slot] = fresh
    BY <1>1, <1>2 DEF Inserted
  <2>2. HeldOn(servers', d)
    BY <1>4, <2>1 DEF HeldOn
  <2>3. QED
    BY <2>2, HeldParts
<1>5. QED
  BY <1>3, <1>4, HeldParts

\* What the removed server held is held by the next one.
LEMMA UnlinkServerKeeps ==
  ASSUME IInv, UnlinkServer, NEW d \in Docs, Held(d)
  PROVE  Held(d)'
<1>1. PICK next \in 1..Len(servers), merged \in Seq(Server) :
         /\ next # at /\ at \in 1..Len(servers)
         /\ merged = [servers EXCEPT ![next] = Merge(servers[at], servers[next])]
         /\ Len(merged) = Len(servers)
         /\ SoundServer(servers[at]) /\ SoundServer(servers[next])
         /\ Removed(merged, servers', at)
  BY UnlinkServerList
<1> DEFINE s == Merge(servers[at], servers[next])
<1>2. s.db[d] = IF servers[at].db[d] # NULL THEN servers[at].db[d] ELSE servers[next].db[d]
  BY <1>1, MergeSound
<1>3. /\ servers \in Seq(Server) /\ merged[next] = s
      /\ \A i \in 1..Len(servers) : i # next => merged[i] = servers[i]
  BY <1>1, Disassembled
<1> HIDE DEF s
<1>4. PICK i \in 1..Len(servers) : servers[i].db[d] # NULL
  <2>1. pc # "add"
    BY DEF UnlinkServer
  <2>2. QED
    BY <2>1, HeldParts DEF HeldOn
<1>5. \E j \in 1..Len(merged) : j # at /\ merged[j].db[d] # NULL
  <2>1. CASE i = at \/ i = next
    BY <1>1, <1>2, <1>3, <1>4, <2>1
  <2>2. CASE i # at /\ i # next
    BY <1>1, <1>3, <1>4, <2>2
  <2>3. QED
    BY <2>1, <2>2
<1>6. PICK j \in 1..Len(merged) : j # at /\ merged[j].db[d] # NULL
  BY <1>5
<1> DEFINE new == IF j < at THEN j ELSE j - 1
<1>7. new \in 1..Len(servers') /\ servers'[new] = merged[j]
  BY <1>1, <1>6 DEF Removed
<1> HIDE DEF new
<1>8. HeldOn(servers', d)
  BY <1>6, <1>7 DEF HeldOn
<1>9. QED
  BY <1>8, HeldParts

\* The other steps: those that touch no database, and those between requests.
LEMMA OtherStepKeeps ==
  ASSUME NEW d \in Docs, Held(d), UNCHANGED <<servers, pc, fresh>>
         \/ (pc = "ready" /\ UNCHANGED servers)
  PROVE  Held(d)'
BY HeldParts

LEMMA ForwardEditKeeps ==
  ASSUME IInv, NEW e \in Docs, NEW c \in Contents, ForwardEdit(e, c), NEW d \in Docs, Held(d)
  PROVE  Held(d)'
<1> DEFINE k == Owner(e)
           t == [doc |-> e, content |-> c]
           s == Enqueue(servers[k], t)
<1>1. servers \in Seq(Server) /\ servers # <<>> /\ pc = "ready"
  BY Disassembled DEF ForwardEdit
<1>2. k \in 1..Len(servers)
  BY <1>1, OwnerServes
<1>3. servers[k] \in Server
  BY <1>1, <1>2
<1>4. servers' = [servers EXCEPT ![k] = s]
  BY DEF ForwardEdit
<1> HIDE DEF k, t
<1>5. s.db = servers[k].db
  BY <1>3 DEF Enqueue, Server
<1> HIDE DEF s
<1>6. HeldOn(servers, d) => HeldOn(servers', d)
  BY <1>1, <1>2, <1>4, <1>5, HeldAfterUpdate
<1>7. QED
  BY <1>1, <1>6, HeldParts

LEMMA AnswerGetKeeps ==
  ASSUME IInv, AnswerGet, NEW d \in Docs, Held(d)
  PROVE  Held(d)'
<1> DEFINE s == GetDocument(servers[at], doc)
<1>1. /\ servers \in Seq(Server) /\ at \in 1..Len(servers) /\ pc = "get" /\ doc \in Docs
      /\ SoundServer(servers[at])
  <2>1. at \in 1..Len(servers) /\ pc = "get" /\ doc \in Docs
    BY DEF IInv, TypeOK, AnswerGet
  <2>2. QED
    BY <2>1, Disassembled
<1>2. s.db = servers[at].db
  BY <1>1, GetSound
<1>3. servers' = [servers EXCEPT ![at] = s]
  BY DEF AnswerGet
<1> HIDE DEF s
<1>4. HeldOn(servers, d) => HeldOn(servers', d)
  BY <1>1, <1>2, <1>3, HeldAfterUpdate
<1>5. QED
  BY <1>1, <1>4, HeldParts

\* No step of any handler drops a document, unless it drops the last server.
LEMMA NextKeeps ==
  ASSUME IInv, [Next]_vars, servers' # <<>>, NEW d \in Docs, Held(d)
  PROVE  Held(d)'
<1>1. ASSUME NEW e \in Docs, NEW c \in Contents, ForwardEdit(e, c) PROVE Held(d)'
  BY <1>1, ForwardEditKeeps
<1>2. ASSUME NEW e \in Docs, ForwardGet(e) PROVE Held(d)'
  BY <1>2, OtherStepKeeps DEF ForwardGet
<1>3. CASE ForwardWithoutServer \/ AddWithoutCache \/ RemoveWithoutServer
  BY <1>3, OtherStepKeeps DEF ForwardWithoutServer, AddWithoutCache, RemoveWithoutServer, Crash
<1>4. ASSUME NEW id \in ServerIds, NEW size \in CacheSizes, AddFirstServer(id, size)
      PROVE  Held(d)'
  BY <1>4, HeldParts DEF AddFirstServer, HeldOn
<1>5. ASSUME NEW id \in ServerIds, NEW size \in CacheSizes, AddServer(id, size) PROVE Held(d)'
  BY <1>5, OtherStepKeeps DEF AddServer
<1>6. ASSUME NEW id \in ServerIds, RemoveLastServer(id) \/ RemoveServer(id) PROVE Held(d)'
  BY <1>6, OtherStepKeeps DEF RemoveLastServer, RemoveServer
<1>7. CASE EndOfInput
  BY <1>7 DEF EndOfInput
<1>8. CASE ExecuteTask
  BY <1>8, ExecuteTaskKeeps
<1>9. CASE AnswerGet
  BY <1>9, AnswerGetKeeps
<1>10. ASSUME NEW e \in Docs, MoveDocument(e) PROVE Held(d)'
  BY <1>10, MoveDocumentKeeps
<1>11. CASE LinkServer
  BY <1>11, LinkServerKeeps
<1>12. CASE UnlinkServer
  BY <1>12, UnlinkServerKeeps
<1>13. CASE UNCHANGED vars
  BY <1>13, OtherStepKeeps DEF vars
<1>14. QED
  BY <1>1, <1>2, <1>3, <1>4, <1>5, <1>6, <1>7, <1>8, <1>9, <1>10, <1>11, <1>12, <1>13
  DEF Next, Request, Handler

\* While there is a server, no document disappears from the program: neither the
\* migration loop of loader_add_server nor the merge of loader_remove_server
\* drops one, for any ring and any hash functions.
THEOREM DocumentsStay == Spec => DocumentsAreKept
<1>1. IInv /\ [Next]_vars
         => [servers' # <<>> => \A d \in Docs : Held(d) => Held(d)']_vars
  BY NextKeeps
<1>2. QED
  BY <1>1, Invariance, PTL DEF Spec, DocumentsAreKept
-----------------------------------------------------------------------------
(* The ring as a store.  What follows needs more than the above: no document *)
(* has the hash of a server and no server is added behind the tail while the *)
(* head holds something, the two cases in which loader_add_server leaves     *)
(* documents where no GET looks for them.                                    *)

HashesApart == \A d \in Docs, id \in ServerIds : HashDoc[d] # HashServer[id]

Restricted == HashesApart /\ "add_behind_tail" \notin InputKinds

-----------------------------------------------------------------------------
(* The documents of the server in front of which a new one is put, and the  *)
(* documents of a server that is removed.                                   *)

\* The server behind the slot k, and where the server at o is once k is taken.
Behind(ring, k) == IF k <= Len(ring) THEN k ELSE 1
Shifted(o, k) == IF o < k THEN o ELSE o + 1

\* The condition of loader_add_server on a document's hash (load_balancer.c:107).
GoesOver(ring, hash, k, y) == y < hash \/ (k = 1 /\ y >= HashAt(ring, k))

LEMMA InsertedHashes ==
  ASSUME NEW ring \in Seq(Server), NEW s \in Server, NEW k,
         Separates(ring, HashServer[s.id], k), NEW after, Inserted(ring, after, k, s)
  PROVE  /\ Len(ring) \in Nat /\ Len(after) = Len(ring) + 1 /\ k \in 1..(Len(ring) + 1)
         /\ HashServer[s.id] \in Nat /\ HashAt(after, k) = HashServer[s.id]
         /\ \A j \in 1..Len(ring) : HashAt(ring, j) \in Nat
         /\ \A j \in 1..Len(ring) : j < k => HashAt(after, j) = HashAt(ring, j)
         /\ \A j \in 1..Len(ring) : ~ (j < k) => HashAt(after, j + 1) = HashAt(ring, j)
         /\ \A i \in 1..Len(after) :
               i = k \/ \E j \in 1..Len(ring) : HashAt(after, i) = HashAt(ring, j)
<1>1. Len(ring) \in Nat /\ Len(after) = Len(ring) + 1 /\ k \in 1..(Len(ring) + 1)
  BY DEF Inserted, Separates
<1>2. HashServer[s.id] \in Nat
  <2>1. s.id \in ServerIds
    BY DEF Server
  <2>2. QED
    BY <2>1, HashAssumption
<1>3. after[k] = s
  BY <1>1 DEF Inserted
<1>4. \A j \in 1..Len(ring) : j < k => after[j] = ring[j]
  BY <1>1 DEF Inserted
<1>5. \A j \in 1..Len(ring) : ~ (j < k) => after[j + 1] = ring[j]
  BY <1>1 DEF Inserted
<1>6. ASSUME NEW i \in 1..Len(after), i # k
      PROVE  \E j \in 1..Len(ring) : after[i] = ring[j]
  <2> DEFINE j == IF i < k THEN i ELSE i - 1
  <2>1. j \in 1..Len(ring) /\ after[i] = ring[j]
    BY <1>1, <1>6 DEF Inserted
  <2>2. QED
    BY <2>1
<1>7. QED
  BY <1>1, <1>2, <1>3, <1>4, <1>5, <1>6, HashIsNat DEF HashAt

\* A document that goes over is served by the new server.
LEMMA ServedByTheNew ==
  ASSUME NEW ring \in Seq(Server), NEW s \in Server, NEW k,
         Separates(ring, HashServer[s.id], k), NEW after, Inserted(ring, after, k, s),
         k <= Len(ring), NEW y \in Nat, Serves(ring, y, k),
         \A i \in 1..Len(ring) : y # HashAt(ring, i),
         GoesOver(ring, HashServer[s.id], k, y)
  PROVE  Serves(after, y, k)
<1> DEFINE hash == HashServer[s.id]
<1>1. /\ Len(ring) \in Nat /\ Len(after) = Len(ring) + 1 /\ k \in 1..Len(ring)
      /\ hash \in Nat /\ HashAt(after, k) = hash
      /\ \A j \in 1..Len(ring) : HashAt(ring, j) \in Nat
      /\ \A j \in 1..Len(ring) : j < k => HashAt(after, j) = HashAt(ring, j)
      /\ \A i \in 1..Len(after) :
            i = k \/ \E j \in 1..Len(ring) : HashAt(after, i) = HashAt(ring, j)
  BY InsertedHashes
<1>2. hash <= HashAt(ring, k)
  BY <1>1 DEF Separates
<1> HIDE DEF hash
<1>3. CASE y <= HashAt(ring, k) /\ \A j \in 1..Len(ring) : j < k => HashAt(ring, j) < y
  <2>1. y < HashAt(ring, k)
    BY <1>1, <1>3
  <2>2. y < hash
    <3>1. HashAt(ring, k) \in Nat
      BY <1>1
    <3>2. y < hash \/ y >= HashAt(ring, k)
      BY DEF GoesOver, hash
    <3>3. QED
      BY <2>1, <3>1, <3>2
  <2>3. \A j \in 1..Len(after) : j < k => HashAt(after, j) < y
    BY <1>1, <1>3
  <2>4. k \in 1..Len(after) /\ y <= HashAt(after, k)
    BY <1>1, <2>2
  <2>5. QED
    BY <2>3, <2>4 DEF Serves
<1>4. CASE k = 1 /\ \A j \in 1..Len(ring) : HashAt(ring, j) < y
  <2>1. hash < y
    BY <1>1, <1>2, <1>4
  <2>2. \A i \in 1..Len(after) : HashAt(after, i) < y
    BY <1>1, <1>4, <2>1
  <2>3. QED
    BY <1>1, <1>4, <2>2 DEF Serves
<1>5. QED
  BY <1>3, <1>4 DEF Serves

\* A document that does not is served by the server it is on.
LEMMA ServedByTheOld ==
  ASSUME NEW ring \in Seq(Server), NEW s \in Server, NEW k,
         Separates(ring, HashServer[s.id], k), NEW after, Inserted(ring, after, k, s),
         k <= Len(ring), NEW y \in Nat, Serves(ring, y, k), y # HashServer[s.id],
         ~ GoesOver(ring, HashServer[s.id], k, y)
  PROVE  Serves(after, y, k + 1)
<1> DEFINE hash == HashServer[s.id]
<1>1. /\ Len(ring) \in Nat /\ Len(after) = Len(ring) + 1 /\ k \in 1..Len(ring)
      /\ hash \in Nat /\ HashAt(after, k) = hash
      /\ \A j \in 1..Len(ring) : HashAt(ring, j) \in Nat
      /\ \A j \in 1..Len(ring) : j < k => HashAt(after, j) = HashAt(ring, j)
      /\ HashAt(after, k + 1) = HashAt(ring, k)
  BY InsertedHashes
<1>2. hash < y
  BY <1>1 DEF GoesOver
<1> HIDE DEF hash
<1>3. y <= HashAt(ring, k) /\ \A j \in 1..Len(ring) : j < k => HashAt(ring, j) < y
  BY <1>1 DEF Serves, GoesOver
<1>4. \A j \in 1..Len(after) : j < k + 1 => HashAt(after, j) < y
  BY <1>1, <1>2, <1>3
<1>5. QED
  BY <1>1, <1>3, <1>4 DEF Serves

\* Whatever its hash, a document of the server behind the slot is served by that
\* server or by the new one.
LEMMA ServedByEither ==
  ASSUME NEW ring \in Seq(Server), NEW s \in Server, NEW k,
         Separates(ring, HashServer[s.id], k), NEW after, Inserted(ring, after, k, s),
         NEW y \in Nat, Serves(ring, y, Behind(ring, k))
  PROVE  Serves(after, y, k) \/ Serves(after, y, Shifted(Behind(ring, k), k))
<1> DEFINE hash == HashServer[s.id]
           n    == Len(ring)
<1>1. /\ n \in Nat /\ Len(after) = n + 1 /\ k \in 1..(n + 1) /\ n >= 1
      /\ hash \in Nat /\ HashAt(after, k) = hash
      /\ \A j \in 1..n : HashAt(ring, j) \in Nat
      /\ \A j \in 1..n : j < k => HashAt(after, j) = HashAt(ring, j)
      /\ k <= n => HashAt(after, k + 1) = HashAt(ring, k)
      /\ \A i \in 1..Len(after) : i = k \/ \E j \in 1..n : HashAt(after, i) = HashAt(ring, j)
  <2>1. n \in Nat /\ Behind(ring, k) \in 1..n
    BY DEF Serves
  <2>2. n >= 1
    BY <2>1
  <2>3. QED
    BY <2>2, InsertedHashes
<1>2. \A j \in 1..n : IF j < k THEN HashAt(ring, j) < hash ELSE hash <= HashAt(ring, j)
  BY DEF Separates
<1>3. CASE \A j \in 1..n : HashAt(ring, j) < y
  <2>1. CASE hash < y
    <3>1. \A i \in 1..Len(after) : HashAt(after, i) < y
      BY <1>1, <1>3, <2>1
    <3>2. Serves(after, y, 1)
      BY <1>1, <3>1 DEF Serves
    <3>3. k = 1 \/ Shifted(Behind(ring, k), k) = 1
      <4>1. Behind(ring, k) = 1
        BY <1>1, <1>3, HashIsNat DEF Serves, Behind
      <4>2. QED
        BY <1>1, <4>1 DEF Shifted
    <3>4. QED
      BY <3>2, <3>3
  <2>2. CASE ~ (hash < y)
    <3>1. k = n + 1
      <4>1. ASSUME k <= n PROVE FALSE
        <5>1. hash <= HashAt(ring, k) /\ HashAt(ring, k) < y /\ HashAt(ring, k) \in Nat
          BY <1>1, <1>2, <1>3, <4>1
        <5>2. Behind(ring, k) = 1
          BY <1>1, <1>3, HashIsNat DEF Serves, Behind
        <5>3. QED
          BY <1>1, <2>2, <5>1
      <4>2. QED
        BY <1>1, <4>1
    <3>2. \A j \in 1..Len(after) : j < k => HashAt(after, j) < y
      BY <1>1, <1>3, <3>1
    <3>3. QED
      BY <1>1, <2>2, <3>2 DEF Serves
  <2>3. QED
    BY <2>1, <2>2
<1>4. CASE ~ \A j \in 1..n : HashAt(ring, j) < y
  <2> DEFINE o == Behind(ring, k)
  <2>1. /\ o \in 1..n /\ y <= HashAt(ring, o)
        /\ \A j \in 1..n : j < o => HashAt(ring, j) < y
    BY <1>4 DEF Serves
  <2>2. CASE k <= n /\ hash < y
    <3>1. o = k /\ Shifted(o, k) = k + 1
      BY <1>1, <2>2 DEF Behind, Shifted
    <3>2. \A j \in 1..Len(after) : j < k + 1 => HashAt(after, j) < y
      BY <1>1, <2>1, <2>2, <3>1
    <3>3. QED
      BY <1>1, <2>1, <2>2, <3>1, <3>2 DEF Serves
  <2>3. CASE k <= n /\ ~ (hash < y)
    <3>1. o = k
      BY <2>3 DEF Behind
    <3>2. \A j \in 1..Len(after) : j < k => HashAt(after, j) < y
      BY <1>1, <2>1, <2>3, <3>1
    <3>3. k \in 1..Len(after) /\ y <= HashAt(after, k)
      BY <1>1, <2>3
    <3>4. QED
      BY <3>2, <3>3 DEF Serves
  <2>4. CASE k = n + 1
    <3>1. o = 1 /\ Shifted(o, k) = 1
      BY <1>1, <2>4 DEF Behind, Shifted
    <3>2. HashAt(after, 1) = HashAt(ring, 1)
      BY <1>1, <2>4
    <3>3. QED
      BY <1>1, <2>1, <3>1, <3>2 DEF Serves
  <2>5. QED
    BY <1>1, <2>2, <2>3, <2>4
<1>5. QED
  BY <1>3, <1>4

\* The documents of a removed server are served by the next one.
LEMMA ServedByTheNext ==
  ASSUME NEW ring \in Seq(Server), Sorted(ring), Len(ring) > 1, NEW k \in 1..Len(ring),
         NEW after, Removed(ring, after, k), NEW y \in Nat, Serves(ring, y, k)
  PROVE  Serves(after, y, IF k < Len(ring) THEN k ELSE 1)
<1> DEFINE n == Len(ring)
<1>1. /\ n \in Nat /\ Len(after) = n - 1
      /\ \A j \in 1..n : HashAt(ring, j) \in Nat
      /\ \A j \in 1..(n - 1) : j < k => HashAt(after, j) = HashAt(ring, j)
      /\ \A j \in 1..(n - 1) : ~ (j < k) => HashAt(after, j) = HashAt(ring, j + 1)
  <2>1. \A j \in 1..n : HashAt(ring, j) \in Nat
    BY HashIsNat
  <2>2. /\ n \in Nat /\ Len(after) = n - 1
        /\ \A j \in 1..(n - 1) : j < k => after[j] = ring[j]
        /\ \A j \in 1..(n - 1) : ~ (j < k) => after[j] = ring[j + 1]
    BY DEF Removed
  <2>3. QED
    BY <2>1, <2>2 DEF HashAt
<1>2. CASE \A j \in 1..n : HashAt(ring, j) < y
  <2>1. k = 1
    BY <1>1, <1>2 DEF Serves
  <2>2. \A j \in 1..(n - 1) : HashAt(after, j) < y
    BY <1>1, <1>2
  <2>3. QED
    BY <1>1, <2>1, <2>2 DEF Serves
<1>3. CASE y <= HashAt(ring, k) /\ \A j \in 1..n : j < k => HashAt(ring, j) < y
  <2>1. \A j \in 1..(n - 1) : j < k => HashAt(after, j) < y
    BY <1>1, <1>3
  <2>2. CASE k < n
    <3>1. HashAt(ring, k) <= HashAt(ring, k + 1) /\ HashAt(after, k) = HashAt(ring, k + 1)
      BY <1>1, <2>2 DEF Sorted
    <3>2. y <= HashAt(after, k)
      BY <1>1, <1>3, <2>2, <3>1
    <3>3. QED
      BY <1>1, <2>1, <2>2, <3>2 DEF Serves
  <2>3. CASE k = n
    BY <1>1, <2>1, <2>3 DEF Serves
  <2>4. QED
    BY <1>1, <2>2, <2>3
<1>4. QED
  BY <1>2, <1>3 DEF Serves
-----------------------------------------------------------------------------
(* Where the documents are                                                  *)

Stored(ring) ==
    \A i \in 1..Len(ring), d \in Docs : ring[i].db[d] # NULL => Serves(ring, HashDoc[d], i)

Coherent(ring) == \A i \in 1..Len(ring) : CacheCoherent(ring[i])

\* A document that loader_add_server has handed to the new server s: the server
\* at k served it, and keeps neither the document nor an edit of it.
Moved(ring, k, s, d) ==
    /\ k <= Len(ring) /\ Serves(ring, HashDoc[d], k)
    /\ GoesOver(ring, HashServer[s.id], k, HashDoc[d])
    /\ ring[k].tasks = <<>> /\ ring[k].db[d] = NULL

Moving(ring, k, s) ==
    /\ \A d \in Docs : ~ Cached(s.cache, d)
    /\ k > Len(ring) => Empty(ring[1])
    /\ \A d \in Docs : s.db[d] # NULL => Moved(ring, k, s, d)

(***************************************************************************)
(* The strengthening of IInv: documents and caches between requests, and   *)
(* what a running GET or ADD_SERVER knows of its server.                   *)
(***************************************************************************)
SInv ==
    /\ Stored(servers)
    /\ Coherent(servers)
    /\ pc = "add" => Moving(servers, slot, fresh)
    /\ pc = "get" => Serves(servers, HashDoc[doc], at)

LEMMA StorageAssembled ==
  ASSUME Stored(servers'), Coherent(servers'), (pc = "add")' => Moving(servers', slot', fresh'),
         (pc = "get")' => Serves(servers', HashDoc[doc'], at')
  PROVE  SInv'
BY DEF SInv, Stored, Coherent, CacheCoherent, Moving, Moved, GoesOver, Cached, Empty, Serves,
       HashAt

LEMMA HashOfDoc == \A d \in Docs : HashDoc[d] \in Nat
BY HashAssumption

LEMMA InitSInv == Init => SInv
BY DEF Init, SInv, Stored, Coherent

\* A server takes on a later state of itself with no document it does not serve.
LEMMA StorageStep ==
  ASSUME NEW ring \in Seq(Server), Stored(ring), Coherent(ring), NEW k \in 1..Len(ring),
         NEW s \in Server, s.id = ring[k].id, CacheCoherent(s),
         \A d \in Docs : s.db[d] # NULL => Serves(ring, HashDoc[d], k),
         NEW after, after = [ring EXCEPT ![k] = s]
  PROVE  Stored(after) /\ Coherent(after) /\ Updated(ring, after, k) /\ after[k] = s
<1>1. Updated(ring, after, k) /\ after[k] = s
  BY ExceptUpdates
<1>2. /\ Len(after) = Len(ring)
      /\ \A i \in 1..Len(ring) : i # k => after[i] = ring[i]
  BY <1>1 DEF Updated
<1>3. Coherent(after)
  BY <1>1, <1>2 DEF Coherent
<1>4. ASSUME NEW i \in 1..Len(after), NEW d \in Docs, after[i].db[d] # NULL
      PROVE  Serves(after, HashDoc[d], i)
  <2>1. Serves(ring, HashDoc[d], i)
    BY <1>1, <1>2, <1>4 DEF Stored
  <2>2. QED
    BY <1>1, <2>1, ServesAfterUpdate
<1>5. QED
  BY <1>1, <1>3, <1>4 DEF Stored

LEMMA ForwardEditSInv ==
  ASSUME IInv, SInv, NEW d \in Docs, NEW c \in Contents, ForwardEdit(d, c)
  PROVE  SInv'
<1> DEFINE k == Owner(d)
           t == [doc |-> d, content |-> c]
           s == Enqueue(servers[k], t)
<1>1. /\ servers \in Seq(Server) /\ servers # <<>> /\ Stored(servers) /\ Coherent(servers)
      /\ \A i \in 1..Len(servers) : SoundServer(servers[i])
  BY Disassembled DEF ForwardEdit, SInv
<1>2. k \in 1..Len(servers)
  BY <1>1, OwnerServes
<1>3. t \in Task
  BY DEF Task
<1>4. servers' = [servers EXCEPT ![k] = s] /\ pc' = "ready"
  BY DEF ForwardEdit
<1> HIDE DEF k, t
<1>5. SoundServer(servers[k]) /\ servers[k] \in Server /\ CacheCoherent(servers[k])
  BY <1>1, <1>2 DEF Coherent
<1>6. SoundServer(s) /\ s \in Server /\ s.id = servers[k].id /\ CacheCoherent(s)
  BY <1>3, <1>5, EnqueueSound, SoundParts
<1>7. s.db = servers[k].db
  BY <1>5 DEF Enqueue, Server
<1> HIDE DEF s
<1>8. Stored(servers') /\ Coherent(servers')
  BY <1>1, <1>2, <1>4, <1>6, <1>7, StorageStep DEF Stored
<1>9. QED
  BY <1>4, <1>8, StorageAssembled

LEMMA AnswerGetSInv ==
  ASSUME IInv, SInv, AnswerGet
  PROVE  SInv'
<1> DEFINE s == GetDocument(servers[at], doc)
<1>1. /\ servers \in Seq(Server) /\ Stored(servers) /\ Coherent(servers)
      /\ at \in 1..Len(servers) /\ doc \in Docs /\ SoundServer(servers[at])
  <2>1. at \in 1..Len(servers) /\ doc \in Docs
    BY DEF IInv, TypeOK, AnswerGet
  <2>2. QED
    BY <2>1, Disassembled DEF SInv
<1>2. /\ SoundServer(s) /\ s \in Server /\ s.id = servers[at].id /\ s.db = servers[at].db
      /\ CacheCoherent(s)
  BY <1>1, GetSound, SoundParts DEF Coherent
<1>3. servers' = [servers EXCEPT ![at] = s] /\ pc' = "ready"
  BY DEF AnswerGet
<1> HIDE DEF s
<1>4. Stored(servers') /\ Coherent(servers')
  BY <1>1, <1>2, <1>3, StorageStep DEF Stored
<1>5. QED
  BY <1>3, <1>4, StorageAssembled

\* While tasks are executed the new server has not been handed anything.
LEMMA ExecuteTaskSInv ==
  ASSUME IInv, SInv, ExecuteTask
  PROVE  SInv'
<1> DEFINE old    == servers[at]
           t      == Head(old.tasks)
           edited == EditDocument(old, t.doc, t.content)
           s      == Dequeue(edited)
<1>1. /\ servers \in Seq(Server) /\ at \in 1..Len(servers) /\ Stored(servers)
      /\ Coherent(servers) /\ SoundServer(old) /\ old.tasks # <<>> /\ old.tasks \in Seq(Task)
      /\ old.db \in [Docs -> Value] /\ ListInv(servers)
  <2>1. at \in 1..Len(servers)
    BY DEF IInv, TypeOK, ExecuteTask
  <2>2. QED
    BY <2>1, Disassembled, SoundParts DEF ExecuteTask, SInv
<1>2. t \in Task /\ t.doc \in Docs /\ t.content \in Contents /\ Len(old.tasks) >= 1
      /\ t = old.tasks[1]
  <2>1. t \in Task /\ Len(old.tasks) >= 1 /\ t = old.tasks[1]
    BY <1>1
  <2>2. QED
    BY <2>1, TaskParts
<1>3. Serves(servers, HashDoc[t.doc], at)
  <2>1. WellPlaced(servers, old.tasks, at)
    BY <1>1 DEF ListInv, Placed
  <2>2. QED
    BY <1>1, <1>2, <2>1 DEF WellPlaced
<1>4. /\ SoundServer(edited) /\ edited.tasks = old.tasks /\ edited.id = old.id
      /\ edited.db = [old.db EXCEPT ![t.doc] = t.content] /\ CacheCoherent(edited)
  BY <1>1, <1>2, EditSound DEF Coherent
<1>5. /\ SoundServer(s) /\ s \in Server /\ s.id = old.id /\ s.db = edited.db
      /\ CacheCoherent(s)
  BY <1>1, <1>4, DequeueSound, SoundParts
<1>6. servers' = [servers EXCEPT ![at] = s] /\ UNCHANGED <<pc, at, slot, fresh, doc>>
  BY DEF ExecuteTask
<1> HIDE DEF s, edited, t
<1>7. \A d \in Docs : s.db[d] # NULL => Serves(servers, HashDoc[d], at)
  BY <1>1, <1>3, <1>4, <1>5 DEF Stored
<1>8. Stored(servers') /\ Coherent(servers') /\ Updated(servers, servers', at)
  BY <1>1, <1>5, <1>6, <1>7, StorageStep
<1>9. ASSUME pc = "add" PROVE Moving(servers', slot', fresh')
  <2>1. /\ Adding /\ Moving(servers, slot, fresh) /\ Len(servers') = Len(servers)
        /\ Len(servers) \in Nat /\ slot \in 1..(Len(servers) + 1)
    BY <1>8, <1>9, Disassembled DEF SInv, Updated, Adding, Separates
  <2>2. slot <= Len(servers) /\ at = slot
    <3>1. slot > Len(servers) => at = 1 /\ Empty(servers[1])
      BY <2>1 DEF Moving, Adding
    <3>2. ~ Empty(servers[at])
      BY <1>1 DEF Empty
    <3>3. QED
      BY <2>1, <3>1, <3>2 DEF Adding
  <2>3. \A d \in Docs : fresh.db[d] = NULL
    BY <1>1, <2>1, <2>2 DEF Moving, Moved
  <2>4. QED
    BY <1>6, <2>1, <2>2, <2>3 DEF Moving
<1>10. ASSUME pc = "get" PROVE Serves(servers', HashDoc[doc'], at')
  BY <1>6, <1>8, <1>10, ServesAfterUpdate DEF SInv
<1>11. QED
  BY <1>6, <1>8, <1>9, <1>10, StorageAssembled

LEMMA MoveDocumentSInv ==
  ASSUME IInv, SInv, NEW d \in Docs, MoveDocument(d)
  PROVE  SInv'
<1> DEFINE old == servers[at]
           s   == WithoutDocument(old, d)
           c   == old.db[d]
<1>1. /\ servers \in Seq(Server) /\ at \in 1..Len(servers) /\ Stored(servers)
      /\ Coherent(servers) /\ SoundServer(old) /\ old.tasks = <<>> /\ c # NULL
      /\ Adding /\ Moving(servers, slot, fresh) /\ slot \in 1..(Len(servers) + 1)
      /\ Len(servers) \in Nat /\ old.db \in [Docs -> Value] /\ pc = "add"
  <2>1. at \in 1..Len(servers) /\ pc = "add"
    BY DEF IInv, TypeOK, MoveDocument
  <2>2. QED
    BY <2>1, Disassembled, SoundParts DEF MoveDocument, MustMove, SInv, Adding, Separates
<1>2. /\ SoundServer(s) /\ s \in Server /\ s.id = old.id /\ s.tasks = old.tasks
      /\ s.db = [old.db EXCEPT ![d] = NULL]
  BY <1>1, WithoutDocumentSound, SoundParts
<1>3. CacheCoherent(s)
  <2>1. /\ old.cache \in LruCache /\ LruConsistent(old.cache)
        /\ old.cache.val \in [Docs -> Value]
    BY <1>1, SoundParts DEF LruCache
  <2>2. s.cache.val = [old.cache.val EXCEPT ![d] = NULL]
    <3>1. s.cache = LruCacheRemove(old.cache, d)
      BY <1>1 DEF WithoutDocument, SoundServer, Server
    <3>2. QED
      BY <2>1, <3>1, RemoveProperties
  <2>3. CacheCoherent(old)
    BY <1>1 DEF Coherent
  <2> HIDE DEF old, s
  <2>4. QED
    BY <1>1, <1>2, <2>1, <2>2, <2>3 DEF CacheCoherent, Cached
<1>4. /\ servers' = [servers EXCEPT ![at] = s] /\ fresh' = [fresh EXCEPT !.db[d] = c]
      /\ UNCHANGED <<pc, at, slot, doc>>
  BY DEF MoveDocument
<1> HIDE DEF s
<1>5. \A e \in Docs : s.db[e] # NULL => Serves(servers, HashDoc[e], at)
  BY <1>1, <1>2 DEF Stored
<1>6. /\ Stored(servers') /\ Coherent(servers') /\ Updated(servers, servers', at)
      /\ servers'[at] = s
  <2>1. /\ s \in Server /\ s.id = servers[at].id /\ servers' = [servers EXCEPT ![at] = s]
        /\ CacheCoherent(s)
    BY <1>2, <1>3, <1>4
  <2> HIDE DEF old, c
  <2>2. /\ servers \in Seq(Server) /\ at \in 1..Len(servers)
        /\ Stored(servers) /\ Coherent(servers)
    BY <1>1
  <2>3. Stored(servers') /\ Coherent(servers') /\ Updated(servers, servers', at)
    BY <1>5, <2>1, <2>2, StorageStep
  <2>4. servers'[at] = s
    BY <2>1, <2>2
  <2>5. QED
    BY <2>3, <2>4
<1>7. slot <= Len(servers) /\ at = slot
  <2>1. slot > Len(servers) => at = 1 /\ Empty(servers[1])
    BY <1>1 DEF Moving, Adding
  <2>2. ~ Empty(servers[at])
    BY <1>1 DEF Empty
  <2>3. QED
    BY <1>1, <2>1, <2>2 DEF Adding
<1>8. GoesOver(servers, HashServer[fresh.id], slot, HashDoc[d])
  BY <1>7 DEF MoveDocument, MustMove, GoesOver, RingHash, HashAt
<1>9. Serves(servers, HashDoc[d], slot)
  BY <1>1, <1>7 DEF Stored
<1>10. /\ fresh'.id = fresh.id /\ fresh'.cache = fresh.cache
       /\ \A e \in Docs : fresh'.db[e] = IF e = d THEN c ELSE fresh.db[e]
  <2>1. fresh \in Server /\ fresh.db \in [Docs -> Value]
    BY <1>1, SoundParts DEF Adding
  <2>2. QED
    BY <1>4, <2>1 DEF Server
<1> HIDE DEF c
<1>11. ASSUME NEW e \in Docs, fresh'.db[e] # NULL PROVE Moved(servers', slot, fresh', e)
  <2>1. /\ Serves(servers, HashDoc[e], slot)
        /\ GoesOver(servers, HashServer[fresh.id], slot, HashDoc[e])
        /\ s.db[e] = NULL
    <3>1. CASE e = d
      BY <1>1, <1>2, <1>8, <1>9, <3>1
    <3>2. CASE e # d
      <4>1. Moved(servers, slot, fresh, e)
        BY <1>1, <1>10, <1>11, <3>2 DEF Moving
      <4>2. QED
        BY <1>1, <1>2, <1>7, <3>2, <4>1 DEF Moved
    <3>3. QED
      BY <3>1, <3>2
  <2>2. Serves(servers', HashDoc[e], slot)
    BY <1>6, <2>1, ServesAfterUpdate
  <2>3. HashAt(servers', slot) = HashAt(servers, slot) /\ Len(servers') = Len(servers)
    BY <1>1, <1>6, <1>7 DEF Updated, HashAt
  <2>4. GoesOver(servers', HashServer[fresh'.id], slot, HashDoc[e])
    BY <1>10, <2>1, <2>3 DEF GoesOver
  <2>5. QED
    BY <1>1, <1>2, <1>6, <1>7, <2>1, <2>2, <2>3, <2>4 DEF Moved
<1>12. Moving(servers', slot', fresh')
  <2>1. slot' = slot /\ ~ (slot > Len(servers'))
    BY <1>1, <1>4, <1>6, <1>7 DEF Updated
  <2>2. QED
    BY <1>1, <1>10, <1>11, <2>1 DEF Moving
<1>13. QED
  BY <1>1, <1>4, <1>6, <1>12, StorageAssembled

\* What has gone over is served by the new server once it is linked, and what has
\* stayed by the server it stayed on: this is where both restrictions are needed.
LEMMA LinkServerSInv ==
  ASSUME Restricted, IInv, SInv, LinkServer
  PROVE  SInv'
<1>1. /\ servers \in Seq(Server) /\ at \in 1..Len(servers) /\ Stored(servers)
      /\ Coherent(servers) /\ Adding /\ Moving(servers, slot, fresh) /\ Len(servers) \in Nat
      /\ SoundServer(fresh) /\ fresh \in Server /\ Separates(servers, HashServer[fresh.id], slot)
      /\ slot \in 1..(Len(servers) + 1) /\ at = Behind(servers, slot)
  <2>1. at \in 1..Len(servers) /\ pc = "add"
    BY DEF IInv, TypeOK, LinkServer
  <2>2. QED
    BY <2>1, Disassembled, SoundParts DEF SInv, Adding, Separates, Behind
<1>2. Inserted(servers, servers', slot, fresh)
  BY <1>1, InsertAtInserts DEF LinkServer
<1>3. ASSUME NEW d \in Docs, fresh.db[d] # NULL PROVE Serves(servers', HashDoc[d], slot)
  <2>1. Moved(servers, slot, fresh, d)
    BY <1>1, <1>3 DEF Moving
  <2>2. \A i \in 1..Len(servers) : HashDoc[d] # HashAt(servers, i)
    <3>1. ASSUME NEW i \in 1..Len(servers) PROVE HashDoc[d] # HashAt(servers, i)
      <4>1. servers[i] \in Server
        BY <1>1
      <4>2. servers[i].id \in ServerIds
        BY <4>1 DEF Server
      <4>3. QED
        BY <4>2 DEF Restricted, HashesApart, HashAt
    <3>2. QED
      BY <3>1
  <2>3. HashDoc[d] \in Nat
    BY HashOfDoc
  <2>4. QED
    BY <1>1, <1>2, <2>1, <2>2, <2>3, ServedByTheNew DEF Moved
<1>4. ASSUME NEW o \in 1..Len(servers), NEW d \in Docs, servers[o].db[d] # NULL
      PROVE  Serves(servers', HashDoc[d], Shifted(o, slot))
  <2>1. Serves(servers, HashDoc[d], o) /\ HashDoc[d] \in Nat
    BY <1>1, <1>4, HashOfDoc DEF Stored
  <2>2. CASE o # Behind(servers, slot)
    BY <1>1, <1>2, <2>1, <2>2, ServesAfterInsert DEF Behind, Shifted
  <2>3. CASE o = Behind(servers, slot)
    <3>1. slot <= Len(servers)
      <4>1. slot > Len(servers) => o = 1 /\ Empty(servers[1])
        BY <1>1, <2>3 DEF Moving, Behind
      <4>2. ~ Empty(servers[o])
        BY <1>4 DEF Empty
      <4>3. QED
        BY <1>1, <4>1, <4>2
    <3>2. o = slot /\ at = slot
      BY <1>1, <2>3, <3>1 DEF Behind
    <3>3. ~ GoesOver(servers, HashServer[fresh.id], slot, HashDoc[d])
      <4>1. ~ MustMove(d)
        BY DEF LinkServer
      <4>2. QED
        BY <1>4, <3>2, <4>1 DEF MustMove, GoesOver, RingHash, HashAt
    <3>4. HashDoc[d] # HashServer[fresh.id]
      <4>1. fresh.id \in ServerIds
        BY <1>1 DEF Server
      <4>2. QED
        BY <4>1 DEF Restricted, HashesApart
    <3>5. Serves(servers', HashDoc[d], slot + 1)
      BY <1>1, <1>2, <2>1, <3>1, <3>2, <3>3, <3>4, ServedByTheOld
    <3>6. Shifted(o, slot) = slot + 1
      BY <1>1, <3>2 DEF Shifted
    <3>7. QED
      BY <3>5, <3>6
  <2>4. QED
    BY <2>2, <2>3
<1>5. ASSUME NEW i \in 1..Len(servers')
      PROVE  \/ i = slot /\ servers'[i] = fresh
             \/ \E o \in 1..Len(servers) : i = Shifted(o, slot) /\ servers'[i] = servers[o]
  <2> DEFINE o == IF i < slot THEN i ELSE i - 1
  <2>1. Len(servers') = Len(servers) + 1 /\ i \in 1..(Len(servers) + 1)
    BY <1>2 DEF Inserted
  <2>2. CASE i = slot
    BY <1>2, <2>2 DEF Inserted
  <2>3. CASE i # slot
    <3>1. o \in 1..Len(servers) /\ i = Shifted(o, slot)
      BY <1>1, <2>1, <2>3 DEF Shifted
    <3>2. servers'[i] = servers[o]
      BY <1>2, <2>3 DEF Inserted
    <3>3. QED
      BY <3>1, <3>2
  <2>4. QED
    BY <2>2, <2>3
<1>6. Stored(servers')
  BY <1>3, <1>4, <1>5 DEF Stored
<1>7. CacheCoherent(fresh)
  BY <1>1 DEF Moving, CacheCoherent
<1>8. Coherent(servers')
  BY <1>1, <1>5, <1>7 DEF Coherent
<1>9. pc' = "ready"
  BY DEF LinkServer
<1>10. QED
  BY <1>6, <1>8, <1>9, StorageAssembled

\* Two servers never hold the same document, so the merge overwrites nothing that
\* a cache has a copy of.
LEMMA StoredOnce ==
  ASSUME NEW ring \in Seq(Server), Stored(ring), NEW d \in Docs,
         NEW i \in 1..Len(ring), ring[i].db[d] # NULL, NEW k, Serves(ring, HashDoc[d], k)
  PROVE  i = k
<1>1. Serves(ring, HashDoc[d], i) /\ HashDoc[d] \in Nat
  BY HashOfDoc DEF Stored
<1>2. QED
  BY <1>1, ServesOne

\* Where a position of the list is after the removal of k.
Closed(o, k) == IF o < k THEN o ELSE o - 1

\* The list after the removal of a server, seen from the list before it.
LEMMA UnlinkServerParts ==
  ASSUME IInv, UnlinkServer
  PROVE  \E next \in 1..Len(servers) :
            LET merged == Merge(servers[at], servers[next])
            IN  /\ next # at /\ at \in 1..Len(servers)
                /\ SoundServer(servers[at]) /\ SoundServer(servers[next])
                /\ servers[at].tasks = <<>>
                /\ servers' \in Seq(Server) /\ Len(servers) > 1
                /\ \A i \in 1..Len(servers') : \E o \in 1..Len(servers) :
                      /\ o # at /\ i = Closed(o, at)
                      /\ servers'[i] = IF o = next THEN merged ELSE servers[o]
                /\ \A o \in 1..Len(servers) : o # at =>
                      /\ Closed(o, at) \in 1..Len(servers')
                      /\ servers'[Closed(o, at)] = IF o = next THEN merged ELSE servers[o]
                /\ \A y \in Nat, o \in 1..Len(servers) :
                      Serves(servers, y, o) =>
                         Serves(servers', y, Closed(IF o = at THEN next ELSE o, at))
<1>1. PICK next \in 1..Len(servers), ring \in Seq(Server) :
         /\ next = After(at) /\ next # at /\ at \in 1..Len(servers)
         /\ ring = [servers EXCEPT ![next] = Merge(servers[at], servers[next])]
         /\ ListInv(ring) /\ Len(ring) = Len(servers) /\ ring[at] = servers[at]
         /\ SoundServer(servers[at]) /\ SoundServer(servers[next])
         /\ servers[at].tasks = <<>> /\ Removed(ring, servers', at)
  BY UnlinkServerList
<1> DEFINE merged == Merge(servers[at], servers[next])
<1>2. servers \in Seq(Server) /\ Len(servers) \in Nat /\ Len(servers) > 1
  BY Disassembled DEF UnlinkServer
<1>3. merged \in Server /\ merged.id = servers[next].id
  BY <1>1, MergeSound, SoundParts
<1> HIDE DEF merged
<1>4. Updated(servers, ring, next) /\ ring[next] = merged
  <2>1. ring = [servers EXCEPT ![next] = merged]
    BY <1>1 DEF merged
  <2>2. QED
    BY <1>2, <1>3, <2>1, ExceptUpdates
<1>5. \A o \in 1..Len(servers) : ring[o] = IF o = next THEN merged ELSE servers[o]
  BY <1>4 DEF Updated
<1>6. /\ servers' \in Seq(Server) /\ Len(servers') = Len(servers) - 1
      /\ \A i \in 1..Len(servers') : servers'[i] = IF i < at THEN ring[i] ELSE ring[i + 1]
  BY <1>1 DEF Removed
<1>7. ASSUME NEW i \in 1..Len(servers')
      PROVE  \E o \in 1..Len(servers) :
                /\ o # at /\ i = Closed(o, at)
                /\ servers'[i] = IF o = next THEN merged ELSE servers[o]
  <2> DEFINE o == IF i < at THEN i ELSE i + 1
  <2>1. o \in 1..Len(servers) /\ o # at /\ i = Closed(o, at)
    BY <1>1, <1>2, <1>6 DEF Closed
  <2>2. servers'[i] = ring[o]
    BY <1>6
  <2> HIDE DEF o
  <2>3. QED
    BY <1>5, <2>1, <2>2
<1>8. ASSUME NEW o \in 1..Len(servers), o # at
      PROVE  /\ Closed(o, at) \in 1..Len(servers')
             /\ servers'[Closed(o, at)] = IF o = next THEN merged ELSE servers[o]
  <2>1. Closed(o, at) \in 1..Len(servers')
    BY <1>1, <1>2, <1>6, <1>8 DEF Closed
  <2>2. servers'[Closed(o, at)] = ring[o]
    BY <1>1, <1>2, <1>6, <1>8, <2>1 DEF Closed
  <2>3. QED
    BY <1>5, <2>1, <2>2
<1>9. ASSUME NEW y \in Nat, NEW o \in 1..Len(servers), Serves(servers, y, o)
      PROVE  Serves(servers', y, Closed(IF o = at THEN next ELSE o, at))
  <2>1. Serves(ring, y, o)
    BY <1>4, <1>9, ServesAfterUpdate
  <2>2. CASE o = at
    <3>1. next = IF at < Len(servers) THEN at + 1 ELSE 1
      <4>1. at \in 0..Len(servers) /\ Len(servers) \in Nat \ {0}
        BY <1>1, <1>2
      <4>2. (at % Len(servers)) + 1 = IF at < Len(servers) THEN at + 1 ELSE 1
        BY <4>1, AroundTheRing
      <4>3. QED
        BY <1>1, <4>2 DEF After
    <3>2. Closed(next, at) = IF at < Len(ring) THEN at ELSE 1
      BY <1>1, <1>2, <3>1 DEF Closed
    <3>3. Serves(servers', y, IF at < Len(ring) THEN at ELSE 1)
      BY <1>1, <1>2, <2>1, <2>2, ServedByTheNext DEF ListInv
    <3>4. QED
      BY <2>2, <3>2, <3>3
  <2>3. CASE o # at
    BY <1>1, <1>2, <2>1, <2>3, ServesAfterRemoval DEF Closed
  <2>4. QED
    BY <2>2, <2>3
<1>10. QED
  BY <1>1, <1>2, <1>6, <1>7, <1>8, <1>9 DEF merged

LEMMA UnlinkServerSInv ==
  ASSUME IInv, SInv, UnlinkServer
  PROVE  SInv'
<1>1. PICK next \in 1..Len(servers) :
         LET merged == Merge(servers[at], servers[next])
         IN  /\ next # at /\ at \in 1..Len(servers)
             /\ SoundServer(servers[at]) /\ SoundServer(servers[next])
             /\ \A i \in 1..Len(servers') : \E o \in 1..Len(servers) :
                   /\ o # at /\ i = Closed(o, at)
                   /\ servers'[i] = IF o = next THEN merged ELSE servers[o]
             /\ \A y \in Nat, o \in 1..Len(servers) :
                   Serves(servers, y, o) =>
                      Serves(servers', y, Closed(IF o = at THEN next ELSE o, at))
  BY UnlinkServerParts
<1> DEFINE merged == Merge(servers[at], servers[next])
<1>2. servers \in Seq(Server) /\ Stored(servers) /\ Coherent(servers)
  BY Disassembled DEF SInv
<1>3. \A d \in Docs : merged.db[d]
                        = IF servers[at].db[d] # NULL THEN servers[at].db[d] ELSE servers[next].db[d]
  BY <1>1, MergeSound
<1>4. merged.cache = servers[next].cache
  BY <1>1 DEF Merge, SoundServer, Server
<1> HIDE DEF merged
<1>5. CacheCoherent(merged)
  <2> SUFFICES ASSUME NEW d \in Docs, Cached(servers[next].cache, d)
               PROVE  servers[next].cache.val[d] = merged.db[d]
    BY <1>4 DEF CacheCoherent
  <2>1. servers[next].db[d] # NULL /\ servers[next].cache.val[d] = servers[next].db[d]
    BY <1>1, <1>2 DEF SoundServer, CachedIsStored, Coherent, CacheCoherent
  <2>2. servers[at].db[d] = NULL
    <3>1. ASSUME servers[at].db[d] # NULL PROVE FALSE
      <4>1. Serves(servers, HashDoc[d], next)
        BY <1>2, <2>1 DEF Stored
      <4>2. at \in 1..Len(servers) /\ next # at
        BY <1>1
      <4>3. QED
        BY <1>2, <3>1, <4>1, <4>2, StoredOnce
    <3>2. QED
      BY <3>1
  <2>3. QED
    BY <1>3, <2>1, <2>2
<1>6. Coherent(servers')
  <2> SUFFICES ASSUME NEW i \in 1..Len(servers') PROVE CacheCoherent(servers'[i])
    BY DEF Coherent
  <2>1. servers'[i] = merged \/ \E o \in 1..Len(servers) : servers'[i] = servers[o]
    BY <1>1 DEF merged
  <2>2. QED
    BY <1>2, <1>5, <2>1 DEF Coherent
<1>7. Stored(servers')
  <2> SUFFICES ASSUME NEW i \in 1..Len(servers'), NEW d \in Docs, servers'[i].db[d] # NULL
               PROVE  Serves(servers', HashDoc[d], i)
    BY DEF Stored
  <2>1. PICK o \in 1..Len(servers) :
           /\ o # at /\ i = Closed(o, at)
           /\ servers'[i] = IF o = next THEN merged ELSE servers[o]
    BY <1>1 DEF merged
  <2>2. \/ servers[o].db[d] # NULL
        \/ o = next /\ servers[at].db[d] # NULL
    BY <1>3, <2>1
  <2>3. HashDoc[d] \in Nat
    BY HashOfDoc
  <2>4. CASE servers[o].db[d] # NULL
    BY <1>1, <1>2, <2>1, <2>3, <2>4 DEF Stored
  <2>5. CASE o = next /\ servers[at].db[d] # NULL
    BY <1>1, <1>2, <2>1, <2>3, <2>5 DEF Stored
  <2>6. QED
    BY <2>2, <2>4, <2>5
<1>8. pc' = "ready"
  BY DEF UnlinkServer
<1>9. QED
  BY <1>6, <1>7, <1>8, StorageAssembled

LEMMA InitServerStores ==
  ASSUME NEW id \in ServerIds, NEW size \in Nat \ {0}
  PROVE  /\ InitServer(id, size).tasks = <<>>
         /\ \A d \in Docs : /\ InitServer(id, size).db[d] = NULL
                            /\ ~ Cached(InitServer(id, size).cache, d)
BY DEF InitServer, InitLruCache, Cached

LEMMA AddServerSInv ==
  ASSUME Restricted, IInv, SInv, NEW id \in ServerIds, NEW size \in CacheSizes,
         AddServer(id, size)
  PROVE  SInv'
<1>1. size \in Nat \ {0} /\ servers \in Seq(Server) /\ servers # <<>>
  BY SizesAssumption, Disassembled DEF AddServer
<1>2. /\ pc' = "add" /\ servers' = servers /\ slot' = AddSlot(id)
      /\ fresh' = InitServer(id, size)
  BY DEF AddServer
<1>3. ASSUME AddSlot(id) > Len(servers) PROVE Empty(servers[1])
  <2>1. BehindTail(id)
    <3>1. HashServer[id] \in Nat
      BY HashAssumption
    <3>2. GetServer(HashServer[id]) \in 1..Len(servers)
      BY <1>1, <3>1, GetServerServes DEF Serves
    <3>3. QED
      BY <1>1, <1>3, <3>2 DEF AddSlot
  <2>2. QED
    BY <2>1 DEF AddServer, Permitted, Restricted
<1>4. Moving(servers', slot', fresh')
  BY <1>1, <1>2, <1>3, InitServerStores DEF Moving
<1>5. QED
  BY <1>2, <1>4, StorageAssembled DEF SInv

LEMMA AddFirstServerSInv ==
  ASSUME IInv, SInv, NEW id \in ServerIds, NEW size \in CacheSizes, AddFirstServer(id, size)
  PROVE  SInv'
<1> DEFINE s == InitServer(id, size)
<1>1. size \in Nat \ {0} /\ servers' = <<s>> /\ pc' = "ready"
  BY SizesAssumption DEF AddFirstServer
<1>2. (\A d \in Docs : s.db[d] = NULL) /\ CacheCoherent(s)
  BY <1>1, InitServerStores, InitServerSound
<1> HIDE DEF s
<1>3. Stored(servers') /\ Coherent(servers')
  BY <1>1, <1>2 DEF Stored, Coherent
<1>4. QED
  BY <1>1, <1>3, StorageAssembled

\* The steps that leave the list alone, or empty it, and start no handler.
LEMMA OtherStepSInv ==
  ASSUME SInv, servers' = servers \/ servers' = <<>>, pc' \notin {"add", "get"}
  PROVE  SInv'
<1>1. Stored(servers') /\ Coherent(servers')
  BY DEF SInv, Stored, Coherent
<1>2. QED
  BY <1>1, StorageAssembled

LEMMA ForwardGetSInv ==
  ASSUME IInv, SInv, NEW d \in Docs, ForwardGet(d)
  PROVE  SInv'
<1>1. servers \in Seq(Server) /\ servers # <<>>
  BY Disassembled DEF ForwardGet
<1>2. Serves(servers, HashDoc[d], Owner(d))
  BY <1>1, OwnerServes
<1>3. /\ servers' = servers /\ pc' = "get" /\ doc' = d /\ at' = Owner(d)
  BY DEF ForwardGet
<1>4. QED
  BY <1>2, <1>3, StorageAssembled DEF SInv

LEMMA NextSInv == Restricted /\ IInv /\ SInv /\ [Next]_vars => SInv'
<1> SUFFICES ASSUME Restricted, IInv, SInv, [Next]_vars PROVE SInv'
  OBVIOUS
<1>1. ASSUME NEW d \in Docs, NEW c \in Contents, ForwardEdit(d, c) PROVE SInv'
  BY <1>1, ForwardEditSInv
<1>2. ASSUME NEW d \in Docs, ForwardGet(d) PROVE SInv'
  BY <1>2, ForwardGetSInv
<1>3. CASE ForwardWithoutServer \/ AddWithoutCache \/ RemoveWithoutServer
  BY <1>3, OtherStepSInv DEF ForwardWithoutServer, AddWithoutCache, RemoveWithoutServer, Crash
<1>4. ASSUME NEW id \in ServerIds, NEW size \in CacheSizes, AddFirstServer(id, size)
      PROVE  SInv'
  BY <1>4, AddFirstServerSInv
<1>5. ASSUME NEW id \in ServerIds, NEW size \in CacheSizes, AddServer(id, size) PROVE SInv'
  BY <1>5, AddServerSInv
<1>6. ASSUME NEW id \in ServerIds, RemoveLastServer(id) \/ RemoveServer(id) PROVE SInv'
  BY <1>6, OtherStepSInv DEF RemoveLastServer, RemoveServer
<1>7. CASE EndOfInput
  BY <1>7, OtherStepSInv DEF EndOfInput
<1>8. CASE ExecuteTask
  BY <1>8, ExecuteTaskSInv
<1>9. CASE AnswerGet
  BY <1>9, AnswerGetSInv
<1>10. ASSUME NEW d \in Docs, MoveDocument(d) PROVE SInv'
  BY <1>10, MoveDocumentSInv
<1>11. CASE LinkServer
  BY <1>11, LinkServerSInv
<1>12. CASE UnlinkServer
  BY <1>12, UnlinkServerSInv
<1>13. CASE UNCHANGED vars
  BY <1>13, StorageAssembled DEF vars, SInv
<1>14. QED
  BY <1>1, <1>2, <1>3, <1>4, <1>5, <1>6, <1>7, <1>8, <1>9, <1>10, <1>11, <1>12, <1>13
  DEF Next, Request, Handler

LEMMA StorageInvariance ==
  ASSUME Restricted
  PROVE  Spec => [](IInv /\ SInv)
<1>1. IInv /\ SInv /\ [Next]_vars => (IInv /\ SInv)'
  BY NextIInv, NextSInv
<1>2. QED
  BY <1>1, InitIInv, InitSInv, PTL DEF Spec

\* However servers come and go, every document is in the database of the server
\* that get_server routes its requests to, and in no other.
THEOREM DocumentsStayAtTheirOwner ==
  ASSUME Restricted
  PROVE  Spec => []StoredAtOwner
<1>1. IInv /\ SInv => StoredAtOwner
  <2> SUFFICES ASSUME IInv, SInv, NEW i \in 1..Len(servers), NEW d \in Docs,
                      servers[i].db[d] # NULL
               PROVE  Owner(d) = i
    BY DEF StoredAtOwner
  <2>1. servers \in Seq(Server) /\ servers # <<>> /\ Stored(servers)
    BY Disassembled DEF SInv
  <2>2. Serves(servers, HashDoc[d], Owner(d))
    BY <2>1, OwnerServes
  <2>3. QED
    BY <2>1, <2>2, StoredOnce
<1>2. QED
  BY <1>1, StorageInvariance, PTL

\* loader_remove_server writes documents into the database of the next server
\* behind the back of its cache, and the cache is never wrong for it.
THEOREM CachesStayCoherent ==
  ASSUME Restricted
  PROVE  Spec => []CachesMatchDatabases
<1>1. SInv => CachesMatchDatabases
  BY DEF SInv, Coherent, CachesMatchDatabases
<1>2. QED
  BY <1>1, StorageInvariance, PTL

-----------------------------------------------------------------------------
(* The ring implements DocumentStore                                        *)

\* What a client reads of d from the servers of a list.
ContentIn(ring, d) ==
    IF ring = <<>> THEN NULL ELSE Current(ring[FirstNotBelow(ring, HashDoc[d])], d)

LEMMA ContentParts ==
  ASSUME NEW d \in Docs
  PROVE  /\ ContentOf(d) = IF pc = "add" /\ fresh.db[d] # NULL THEN fresh.db[d]
                           ELSE ContentIn(servers, d)
         /\ ContentOf(d)' = IF pc' = "add" /\ fresh'.db[d] # NULL THEN fresh'.db[d]
                            ELSE ContentIn(servers', d)
BY DEF ContentOf, ContentIn, Owner, GetServer, FirstNotBelow, RingHash, HashAt

LEMMA ContentAt ==
  ASSUME NEW ring \in Seq(Server), NEW d \in Docs, NEW o, Serves(ring, HashDoc[d], o)
  PROVE  ContentIn(ring, d) = Current(ring[o], d)
<1>1. ring # <<>> /\ HashDoc[d] \in Nat
  BY HashOfDoc DEF Serves
<1>2. FirstNotBelow(ring, HashDoc[d]) = o
  BY <1>1, FirstNotBelowServes, ServesOne
<1>3. QED
  BY <1>1, <1>2 DEF ContentIn

LEMMA SomeoneServes ==
  ASSUME NEW ring \in Seq(Server), ring # <<>>, NEW d \in Docs
  PROVE  \E o \in 1..Len(ring) : Serves(ring, HashDoc[d], o)
BY HashOfDoc, FirstNotBelowServes DEF Serves

\* A server that is read like its earlier state leaves the ring's contents alone.
LEMMA ContentAfterUpdate ==
  ASSUME NEW ring \in Seq(Server), NEW after, NEW k \in 1..Len(ring), Updated(ring, after, k),
         NEW d \in Docs, Current(after[k], d) = Current(ring[k], d)
  PROVE  ContentIn(after, d) = ContentIn(ring, d)
<1>1. after \in Seq(Server) /\ ring # <<>>
  BY DEF Updated
<1>2. PICK o \in 1..Len(ring) : Serves(ring, HashDoc[d], o)
  BY <1>1, SomeoneServes
<1>3. Serves(after, HashDoc[d], o)
  BY <1>2, ServesAfterUpdate
<1>4. Current(after[o], d) = Current(ring[o], d)
  BY DEF Updated
<1>5. QED
  BY <1>1, <1>2, <1>3, <1>4, ContentAt

\* A document without waiting edits reads as the database has it; with the same
\* edits waiting and the same content stored it reads the same.
LEMMA CurrentUndisturbed ==
  ASSUME NEW s, NEW after, NEW d \in Docs, after.tasks = s.tasks, after.db[d] = s.db[d]
  PROVE  Current(after, d) = Current(s, d)
BY DEF Current, LastTask

LEMMA CurrentOfDrained ==
  ASSUME NEW s, s.tasks = <<>>, NEW d \in Docs
  PROVE  Current(s, d) = s.db[d]
BY CurrentWithoutTask DEF TasksOn

\* The mapping of a state to the abstract one.
Seen == [d \in Docs |-> ContentOf(d)]
Said ==
    IF res = NULL THEN NULL
    ELSE [kind |-> res.kind, doc |-> res.doc,
          content |-> IF res.kind = "content" THEN res.content ELSE NULL]

LEMMA Stutters ==
  ASSUME \A d \in Docs : ContentOf(d)' = ContentOf(d), res' = res,
         (servers' # <<>>) = (servers # <<>>)
  PROVE  UNCHANGED Store!vars
<1>1. Seen' = Seen
  BY DEF Seen
<1>2. QED
  BY <1>1 DEF Store!vars, Seen

LEMMA InitImplements == Init => Store!Init
<1> SUFFICES ASSUME Init PROVE Store!Init
  OBVIOUS
<1>1. \A d \in Docs : ContentOf(d) = NULL
  BY DEF Init, ContentOf
<1>2. QED
  BY <1>1 DEF Init, Store!Init

LEMMA ForwardEditImplements ==
  ASSUME "overflow" \notin InputKinds, IInv, IInv', NEW d \in Docs, NEW c \in Contents,
         ForwardEdit(d, c)
  PROVE  Store!Edit(d, c)
<1> DEFINE k == Owner(d)
           t == [doc |-> d, content |-> c]
           s == Enqueue(servers[k], t)
<1>1. /\ servers \in Seq(Server) /\ servers # <<>> /\ servers' \in Seq(Server)
      /\ pc = "ready" /\ pc' = "ready"
  BY Disassembled DEF ForwardEdit, IInv, TypeOK
<1>2. k \in 1..Len(servers) /\ Serves(servers, HashDoc[d], k)
  BY <1>1, OwnerServes
<1>3. servers' = [servers EXCEPT ![k] = s] /\ res' = Queued(servers'[k], d)
  BY DEF ForwardEdit
<1>4. ~ QueueFull(servers[k])
  BY DEF ForwardEdit, Permitted
<1> HIDE DEF k
<1>5. SoundServer(servers[k])
  BY <1>2, Disassembled
<1>6. \A e \in Docs : Current(s, e) = IF e = d THEN c ELSE Current(servers[k], e)
  BY <1>4, <1>5, CurrentAfterEnqueue
<1>7. SoundServer(s) /\ s \in Server /\ s.id = servers[k].id
  <2>1. t \in Task
    BY DEF Task
  <2> HIDE DEF t
  <2>2. QED
    BY <1>5, <2>1, EnqueueSound, SoundParts
<1> HIDE DEF s
<1>8. Updated(servers, servers', k) /\ servers'[k] = s
  BY <1>1, <1>2, <1>3, <1>7, ExceptUpdates
<1>9. ASSUME NEW e \in Docs
      PROVE  ContentIn(servers', e) = IF e = d THEN c ELSE ContentIn(servers, e)
  <2>1. CASE e = d
    <3>1. Serves(servers', HashDoc[d], k)
      BY <1>2, <1>8, ServesAfterUpdate
    <3>2. QED
      BY <1>1, <1>6, <1>8, <2>1, <3>1, ContentAt
  <2>2. CASE e # d
    <3>1. Current(servers'[k], e) = Current(servers[k], e)
      BY <1>6, <1>8, <2>2
    <3>2. QED
      BY <1>1, <1>2, <1>8, <2>2, <3>1, ContentAfterUpdate
  <2>3. QED
    BY <2>1, <2>2
<1>10. \A e \in Docs : ContentOf(e)' = IF e = d THEN c ELSE ContentOf(e)
  BY <1>1, <1>9, ContentParts
<1>11. Seen' = [Seen EXCEPT ![d] = c]
  BY <1>10 DEF Seen
<1>12. res'.kind = "queued" /\ res'.doc = d /\ res' # NULL
  <2>1. res' = Queued(s, d)
    BY <1>3, <1>8
  <2>2. res' \in QueuedResponse
    BY <1>7, <2>1, QueuedTyped
  <2>3. QED
    BY <2>1, <2>2, ResponseAssumption DEF Queued
<1>13. Said' = [kind |-> "queued", doc |-> d, content |-> NULL]
  BY <1>12 DEF Said
<1>14. servers' # <<>>
  BY <1>2, <1>8 DEF Updated
<1>15. QED
  BY <1>1, <1>11, <1>13, <1>14 DEF Store!Edit, Seen, Said

LEMMA AnswerGetImplements ==
  ASSUME IInv, SInv, AnswerGet
  PROVE  doc \in Docs /\ Store!Get(doc)
<1> DEFINE s == GetDocument(servers[at], doc)
<1>1. /\ servers \in Seq(Server) /\ at \in 1..Len(servers) /\ doc \in Docs
      /\ SoundServer(servers[at]) /\ CacheCoherent(servers[at]) /\ servers[at].tasks = <<>>
      /\ pc = "get" /\ Serves(servers, HashDoc[doc], at)
  <2>1. at \in 1..Len(servers) /\ doc \in Docs /\ pc = "get"
    BY DEF IInv, TypeOK, AnswerGet
  <2>2. QED
    BY <2>1, Disassembled DEF SInv, Coherent, AnswerGet
<1>2. /\ SoundServer(s) /\ s \in Server /\ s.id = servers[at].id
      /\ s.tasks = servers[at].tasks /\ s.db = servers[at].db
  BY <1>1, GetSound, SoundParts
<1>3. servers' = [servers EXCEPT ![at] = s] /\ res' = Got(servers[at], doc) /\ pc' = "ready"
  BY DEF AnswerGet
<1> HIDE DEF s
<1>4. Updated(servers, servers', at) /\ servers'[at] = s
  BY <1>1, <1>2, <1>3, ExceptUpdates
<1>5. \A e \in Docs : ContentIn(servers', e) = ContentIn(servers, e)
  <2>1. \A e \in Docs : Current(servers'[at], e) = Current(servers[at], e)
    BY <1>2, <1>4, CurrentDependsOn
  <2>2. QED
    BY <1>1, <1>4, <2>1, ContentAfterUpdate
<1>6. \A e \in Docs : ContentOf(e)' = ContentOf(e)
  BY <1>1, <1>3, <1>5, ContentParts
<1>7. Seen' = Seen
  BY <1>6 DEF Seen
<1>8. ContentOf(doc) = servers[at].db[doc]
  BY <1>1, ContentParts, ContentAt, CurrentOfDrained
<1>9. res'.kind = "content" /\ res'.doc = doc /\ res'.content = servers[at].db[doc]
  BY <1>1, <1>3, GotContent
<1>10. res' # NULL
  BY <1>1, <1>3, GotTyped, ResponseAssumption
<1>11. Said' = [kind |-> "content", doc |-> doc, content |-> Seen[doc]]
  BY <1>1, <1>8, <1>9, <1>10 DEF Said, Seen
<1>12. servers # <<>> /\ servers' # <<>>
  BY <1>1, <1>4 DEF Updated
<1>13. QED
  BY <1>1, <1>7, <1>11, <1>12 DEF Store!Get, Seen, Said

LEMMA ExecuteTaskImplements ==
  ASSUME IInv, ExecuteTask
  PROVE  UNCHANGED Store!vars
<1> DEFINE old    == servers[at]
           t      == Head(old.tasks)
           edited == EditDocument(old, t.doc, t.content)
           s      == Dequeue(edited)
<1>1. /\ servers \in Seq(Server) /\ at \in 1..Len(servers) /\ SoundServer(old)
      /\ old.tasks # <<>> /\ old.tasks \in Seq(Task)
  <2>1. at \in 1..Len(servers)
    BY DEF IInv, TypeOK, ExecuteTask
  <2>2. QED
    BY <2>1, Disassembled, SoundParts DEF ExecuteTask
<1>2. t.doc \in Docs /\ t.content \in Contents
  <2>1. t \in Task
    BY <1>1
  <2>2. QED
    BY <2>1, TaskParts
<1>3. SoundServer(edited) /\ edited.tasks = old.tasks /\ edited.id = old.id
  BY <1>1, <1>2, EditSound
<1>4. s \in Server /\ s.id = old.id
  BY <1>1, <1>3, DequeueSound, SoundParts
<1>5. \A d \in Docs : Current(s, d) = Current(old, d)
  BY <1>1, CurrentAfterExecution
<1>6. servers' = [servers EXCEPT ![at] = s] /\ UNCHANGED <<pc, fresh, res>>
  BY DEF ExecuteTask
<1> HIDE DEF s, edited, t
<1>7. Updated(servers, servers', at) /\ servers'[at] = s
  BY <1>1, <1>4, <1>6, ExceptUpdates
<1>8. \A d \in Docs : ContentIn(servers', d) = ContentIn(servers, d)
  BY <1>1, <1>5, <1>7, ContentAfterUpdate
<1>9. servers # <<>> /\ servers' # <<>>
  BY <1>1, <1>7 DEF Updated
<1>10. QED
  BY <1>6, <1>8, <1>9, ContentParts, Stutters

\* The document reads the same before and after it changes hands.
LEMMA MoveDocumentImplements ==
  ASSUME IInv, SInv, NEW d \in Docs, MoveDocument(d)
  PROVE  UNCHANGED Store!vars
<1> DEFINE old == servers[at]
           s   == WithoutDocument(old, d)
           c   == old.db[d]
<1>1. /\ servers \in Seq(Server) /\ at \in 1..Len(servers) /\ Stored(servers)
      /\ SoundServer(old) /\ old.tasks = <<>> /\ c # NULL /\ old.db \in [Docs -> Value]
      /\ Adding /\ Moving(servers, slot, fresh) /\ pc = "add"
      /\ fresh \in Server /\ fresh.db \in [Docs -> Value]
  <2>1. at \in 1..Len(servers) /\ pc = "add"
    BY DEF IInv, TypeOK, MoveDocument
  <2>2. QED
    BY <2>1, Disassembled, SoundParts DEF MoveDocument, MustMove, SInv, Adding
<1>2. /\ s \in Server /\ s.id = old.id /\ s.tasks = <<>>
      /\ s.db = [old.db EXCEPT ![d] = NULL]
  BY <1>1, WithoutDocumentSound, SoundParts
<1>3. /\ servers' = [servers EXCEPT ![at] = s] /\ fresh' = [fresh EXCEPT !.db[d] = c]
      /\ pc' = "add" /\ res' = res
  BY <1>1 DEF MoveDocument
<1> HIDE DEF s
<1>4. Updated(servers, servers', at) /\ servers'[at] = s
  <2>1. servers' = [servers EXCEPT ![at] = s]
    BY <1>3
  <2>2. /\ Updated(servers, [servers EXCEPT ![at] = s], at)
        /\ [servers EXCEPT ![at] = s][at] = s
    BY <1>1, <1>2, ExceptUpdates
  <2>3. QED
    BY <2>1, <2>2
<1>5. \A e \in Docs : fresh'.db[e] = IF e = d THEN c ELSE fresh.db[e]
  BY <1>1, <1>3 DEF Server
<1>6. fresh.db[d] = NULL
  <2>1. fresh.db[d] # NULL => Moved(servers, slot, fresh, d)
    BY <1>1 DEF Moving
  <2>2. Moved(servers, slot, fresh, d) => slot = at /\ servers[slot].db[d] = NULL
    <3>1. at = IF slot <= Len(servers) THEN slot ELSE 1
      BY <1>1 DEF Adding
    <3>2. QED
      BY <3>1 DEF Moved
  <2>3. QED
    BY <1>1, <2>1, <2>2
<1>7. ContentIn(servers, d) = c
  <2>1. Serves(servers, HashDoc[d], at)
    BY <1>1 DEF Stored
  <2>2. QED
    BY <1>1, <2>1, ContentAt, CurrentOfDrained
<1> HIDE DEF c
<1>8. ASSUME NEW e \in Docs, e # d PROVE ContentIn(servers', e) = ContentIn(servers, e)
  <2>1. Current(s, e) = Current(old, e)
    BY <1>1, <1>2, <1>8, CurrentUndisturbed
  <2>2. QED
    BY <1>1, <1>4, <2>1, ContentAfterUpdate
<1>9. \A e \in Docs : ContentOf(e)' = ContentOf(e)
  BY <1>1, <1>3, <1>5, <1>6, <1>7, <1>8, ContentParts
<1>10. servers # <<>> /\ servers' # <<>>
  BY <1>1, <1>4 DEF Updated
<1>11. QED
  BY <1>3, <1>9, <1>10, Stutters

\* What the new server was handed is read from it, what the server behind it has
\* kept is still read from that one, and a document neither holds reads as none.
LEMMA LinkServerImplements ==
  ASSUME IInv, SInv, SInv', LinkServer
  PROVE  UNCHANGED Store!vars
<1>1. /\ servers \in Seq(Server) /\ at \in 1..Len(servers) /\ servers[at].tasks = <<>>
      /\ Adding /\ fresh \in Server /\ fresh.tasks = <<>> /\ pc = "add"
      /\ Separates(servers, HashServer[fresh.id], slot) /\ servers # <<>>
      /\ slot \in 1..(Len(servers) + 1) /\ at = Behind(servers, slot)
  <2>1. at \in 1..Len(servers) /\ pc = "add"
    BY DEF IInv, TypeOK, LinkServer
  <2>2. QED
    BY <2>1, Disassembled, SoundParts DEF LinkServer, Adding, Separates, Behind
<1>2. Inserted(servers, servers', slot, fresh)
  BY <1>1, InsertAtInserts DEF LinkServer
<1>3. /\ Len(servers) \in Nat /\ servers' \in Seq(Server) /\ Len(servers') = Len(servers) + 1
      /\ servers'[slot] = fresh /\ slot \in 1..Len(servers')
  BY <1>1, <1>2 DEF Inserted
<1>4. \A o \in 1..Len(servers) :
         Shifted(o, slot) \in 1..Len(servers') /\ servers'[Shifted(o, slot)] = servers[o]
  BY <1>1, <1>2, <1>3 DEF Inserted, Shifted
<1>5. Stored(servers')
  BY DEF SInv, Stored, Serves, HashAt
<1>6. ASSUME NEW d \in Docs, fresh.db[d] # NULL PROVE ContentIn(servers', d) = fresh.db[d]
  <2>1. Serves(servers', HashDoc[d], slot)
    BY <1>3, <1>5, <1>6 DEF Stored
  <2>2. QED
    BY <1>1, <1>3, <2>1, ContentAt, CurrentOfDrained
<1>7. ASSUME NEW d \in Docs, fresh.db[d] = NULL
      PROVE  ContentIn(servers', d) = ContentIn(servers, d)
  <2>1. PICK o \in 1..Len(servers) : Serves(servers, HashDoc[d], o)
    BY <1>1, SomeoneServes
  <2>2. HashDoc[d] \in Nat
    BY HashOfDoc
  <2>3. ContentIn(servers, d) = Current(servers[o], d)
    BY <1>1, <2>1, ContentAt
  <2>4. CASE o # at
    <3>1. Serves(servers', HashDoc[d], Shifted(o, slot))
      BY <1>1, <1>2, <2>1, <2>2, <2>4, ServesAfterInsert DEF Behind, Shifted
    <3>2. QED
      BY <1>3, <1>4, <2>3, <3>1, ContentAt
  <2>5. CASE o = at
    <3>1. Current(servers[o], d) = servers[o].db[d]
      BY <1>1, <2>5, CurrentOfDrained
    <3>2. CASE servers[o].db[d] # NULL
      <4>1. Serves(servers', HashDoc[d], Shifted(o, slot))
        BY <1>4, <1>5, <3>2 DEF Stored
      <4>2. QED
        BY <1>3, <1>4, <2>3, <4>1, ContentAt
    <3>3. CASE servers[o].db[d] = NULL
      <4>1. \/ Serves(servers', HashDoc[d], slot)
            \/ Serves(servers', HashDoc[d], Shifted(o, slot))
        BY <1>1, <1>2, <2>1, <2>2, <2>5, ServedByEither
      <4>2. CASE Serves(servers', HashDoc[d], slot)
        BY <1>1, <1>3, <1>7, <2>3, <3>1, <3>3, <4>2, ContentAt, CurrentOfDrained
      <4>3. CASE Serves(servers', HashDoc[d], Shifted(o, slot))
        BY <1>3, <1>4, <2>3, <4>3, ContentAt
      <4>4. QED
        BY <4>1, <4>2, <4>3
    <3>4. QED
      BY <3>2, <3>3
  <2>6. QED
    BY <2>4, <2>5
<1>8. pc' = "ready" /\ res' = res
  BY DEF LinkServer
<1>9. \A d \in Docs : ContentOf(d)' = ContentOf(d)
  BY <1>1, <1>6, <1>7, <1>8, ContentParts
<1>10. servers # <<>> /\ servers' # <<>>
  BY <1>1, <1>3
<1>11. QED
  BY <1>8, <1>9, <1>10, Stutters

\* The next server answers for the documents of the removed one, and had no edit
\* of any of them waiting.
LEMMA UnlinkServerImplements ==
  ASSUME IInv, SInv, UnlinkServer
  PROVE  UNCHANGED Store!vars
<1>1. PICK next \in 1..Len(servers) :
         LET merged == Merge(servers[at], servers[next])
         IN  /\ next # at /\ at \in 1..Len(servers)
             /\ SoundServer(servers[at]) /\ SoundServer(servers[next])
             /\ servers[at].tasks = <<>> /\ servers' \in Seq(Server)
             /\ \A o \in 1..Len(servers) : o # at =>
                   /\ Closed(o, at) \in 1..Len(servers')
                   /\ servers'[Closed(o, at)] = IF o = next THEN merged ELSE servers[o]
             /\ \A y \in Nat, o \in 1..Len(servers) :
                   Serves(servers, y, o) =>
                      Serves(servers', y, Closed(IF o = at THEN next ELSE o, at))
  BY UnlinkServerParts
<1> DEFINE merged == Merge(servers[at], servers[next])
<1>2. servers \in Seq(Server) /\ Stored(servers) /\ servers # <<>> /\ ListInv(servers)
  BY <1>1, Disassembled DEF SInv
<1>3. /\ merged.tasks = servers[next].tasks
      /\ \A d \in Docs : merged.db[d]
            = IF servers[at].db[d] # NULL THEN servers[at].db[d] ELSE servers[next].db[d]
  BY <1>1, MergeSound
<1>4. /\ next # at /\ servers[at].tasks = <<>> /\ at \in 1..Len(servers)
      /\ servers' \in Seq(Server) /\ servers'[Closed(next, at)] = merged
      /\ \A o \in 1..Len(servers) :
            o # at /\ o # next => servers'[Closed(o, at)] = servers[o]
      /\ \A y \in Nat, o \in 1..Len(servers) :
            Serves(servers, y, o) =>
               Serves(servers', y, Closed(IF o = at THEN next ELSE o, at))
  BY <1>1
<1> HIDE DEF merged
<1>5. ASSUME NEW d \in Docs PROVE ContentIn(servers', d) = ContentIn(servers, d)
  <2>1. PICK o \in 1..Len(servers) : Serves(servers, HashDoc[d], o)
    BY <1>2, SomeoneServes
  <2>2. ContentIn(servers, d) = Current(servers[o], d)
    BY <1>2, <2>1, ContentAt
  <2>3. Serves(servers', HashDoc[d], Closed(IF o = at THEN next ELSE o, at))
    BY <1>4, <2>1, HashOfDoc
  <2>4. CASE o = at
    <3>1. servers[next].db[d] = NULL
      BY <1>2, <1>4, <2>1, <2>4, StoredOnce
    <3>2. merged.db[d] = servers[at].db[d]
      BY <1>3, <3>1
    <3>3. TasksOn(merged, d) = {}
      <4>1. ASSUME NEW j \in TasksOn(servers[next], d) PROVE FALSE
        <5>1. j \in 1..Len(servers[next].tasks) /\ servers[next].tasks[j].doc = d
          BY DEF TasksOn
        <5>2. WellPlaced(servers, servers[next].tasks, next)
          BY <1>2 DEF ListInv, Placed
        <5>3. Serves(servers, HashDoc[d], next)
          BY <5>1, <5>2 DEF WellPlaced
        <5>4. QED
          BY <1>2, <1>4, <2>1, <2>4, <5>3, ServesOne, HashOfDoc
      <4>2. TasksOn(merged, d) = TasksOn(servers[next], d)
        BY <1>3 DEF TasksOn
      <4>3. QED
        BY <4>1, <4>2
    <3>4. Current(merged, d) = merged.db[d]
      BY <3>3, CurrentWithoutTask
    <3>5. Current(servers[at], d) = servers[at].db[d]
      BY <1>4, CurrentOfDrained
    <3>6. Serves(servers', HashDoc[d], Closed(next, at))
      BY <2>3, <2>4
    <3>7. ContentIn(servers', d) = Current(merged, d)
      BY <1>4, <3>6, ContentAt
    <3>8. QED
      BY <2>2, <2>4, <3>2, <3>4, <3>5, <3>7
  <2>5. CASE o = next
    <3>1. servers[at].db[d] = NULL
      BY <1>2, <1>4, <2>1, <2>5, StoredOnce
    <3>2. Current(merged, d) = Current(servers[next], d)
      BY <1>3, <3>1, CurrentUndisturbed
    <3>3. Serves(servers', HashDoc[d], Closed(next, at))
      BY <1>4, <2>3, <2>5
    <3>4. ContentIn(servers', d) = Current(merged, d)
      BY <1>4, <3>3, ContentAt
    <3>5. QED
      BY <2>2, <2>5, <3>2, <3>4
  <2>6. CASE o # at /\ o # next
    BY <1>4, <2>2, <2>3, <2>6, ContentAt
  <2>7. QED
    BY <2>4, <2>5, <2>6
<1>6. pc = "remove" /\ pc' = "ready" /\ res' = res
  BY DEF UnlinkServer
<1>7. \A d \in Docs : ContentOf(d)' = ContentOf(d)
  BY <1>5, <1>6, ContentParts
<1>8. servers # <<>> /\ servers' # <<>>
  <2>1. Closed(next, at) \in 1..Len(servers')
    BY <1>1
  <2>2. QED
    BY <1>2, <1>4, <2>1
<1>9. QED
  BY <1>6, <1>7, <1>8, Stutters

\* The last server takes its documents with it.
LEMMA NoServersImplements ==
  ASSUME servers # <<>>, servers' = <<>>, pc' # "add", res' = res
  PROVE  Store!Forget
<1>1. \A d \in Docs : ContentOf(d)' = NULL
  BY ContentParts DEF ContentIn
<1>2. Seen' = [d \in Docs |-> NULL]
  BY <1>1 DEF Seen
<1>3. QED
  BY <1>2 DEF Store!Forget, Seen

\* A server that is created holds nothing; the first one opens the store.
LEMMA AddServerImplements ==
  ASSUME IInv, NEW id \in ServerIds, NEW size \in CacheSizes,
         AddServer(id, size) \/ AddFirstServer(id, size)
  PROVE  Store!Next \/ UNCHANGED Store!vars
<1> DEFINE s == InitServer(id, size)
<1>1. /\ size \in Nat \ {0} /\ pc = "ready" /\ res' = res
      /\ \/ pc' = "add" /\ fresh' = s /\ servers' = servers
         \/ pc' = "ready" /\ servers = <<>> /\ servers' = <<s>>
  BY SizesAssumption DEF AddServer, AddFirstServer
<1>2. s.tasks = <<>> /\ (\A d \in Docs : s.db[d] = NULL) /\ s \in Server
  BY <1>1, InitServerStores, InitServerSound, SoundParts
<1> HIDE DEF s
<1>3. ASSUME NEW d \in Docs PROVE ContentIn(<<s>>, d) = NULL
  <2> DEFINE ring == <<s>>
  <2>1. ring \in Seq(Server) /\ Len(ring) = 1 /\ ring[1] = s /\ ring # <<>>
    BY <1>2
  <2> HIDE DEF ring
  <2>2. PICK o \in 1..Len(ring) : Serves(ring, HashDoc[d], o)
    BY <2>1, SomeoneServes
  <2>3. o = 1
    BY <2>1, <2>2
  <2>4. ContentIn(ring, d) = Current(s, d)
    BY <2>1, <2>2, <2>3, ContentAt
  <2>5. Current(s, d) = NULL
    BY <1>2, CurrentOfDrained
  <2>6. QED
    BY <2>4, <2>5 DEF ring
<1>4. \A d \in Docs : ContentOf(d)' = ContentOf(d)
  <2>1. CASE pc' = "add" /\ fresh' = s /\ servers' = servers
    BY <1>1, <1>2, <2>1, ContentParts
  <2>2. CASE pc' = "ready" /\ servers = <<>> /\ servers' = <<s>>
    BY <1>1, <1>3, <2>2, ContentParts DEF ContentIn
  <2>3. QED
    BY <1>1, <2>1, <2>2
<1>5. Seen' = Seen
  BY <1>4 DEF Seen
<1>6. CASE servers' = servers
  BY <1>1, <1>4, <1>6, Stutters
<1>7. CASE servers = <<>> /\ servers' = <<s>>
  BY <1>1, <1>5, <1>7 DEF Store!Next, Store!Open, Seen
<1>8. QED
  BY <1>1, <1>6, <1>7

LEMMA OtherStepImplements ==
  ASSUME servers' = servers, pc = "ready", pc' # "add", res' = res
  PROVE  UNCHANGED Store!vars
<1>1. \A d \in Docs : ContentOf(d)' = ContentOf(d)
  BY ContentParts
<1>2. QED
  BY <1>1, Stutters

LEMMA NextImplements ==
  ASSUME "overflow" \notin InputKinds
  PROVE  /\ IInv /\ SInv /\ IInv' /\ SInv' /\ [Next]_vars
         => [Store!Next]_(Store!vars)
<1> SUFFICES ASSUME IInv, SInv, IInv', SInv', [Next]_vars
             PROVE  Store!Next \/ UNCHANGED Store!vars
  OBVIOUS
<1>1. ASSUME NEW d \in Docs, NEW c \in Contents, ForwardEdit(d, c) PROVE Store!Next
  BY <1>1, ForwardEditImplements DEF Store!Next
<1>2. ASSUME NEW d \in Docs, ForwardGet(d) PROVE UNCHANGED Store!vars
  BY <1>2, OtherStepImplements DEF ForwardGet
<1>3. CASE ForwardWithoutServer \/ AddWithoutCache \/ RemoveWithoutServer
  BY <1>3, OtherStepImplements
     DEF ForwardWithoutServer, AddWithoutCache, RemoveWithoutServer, Crash
<1>4. ASSUME NEW id \in ServerIds, NEW size \in CacheSizes,
             AddFirstServer(id, size) \/ AddServer(id, size)
      PROVE  Store!Next \/ UNCHANGED Store!vars
  BY <1>4, AddServerImplements
<1>5. ASSUME NEW id \in ServerIds, RemoveLastServer(id) PROVE Store!Next
  BY <1>5, NoServersImplements DEF RemoveLastServer, Store!Next
<1>6. ASSUME NEW id \in ServerIds, RemoveServer(id) PROVE UNCHANGED Store!vars
  BY <1>6, OtherStepImplements DEF RemoveServer
<1>7. CASE EndOfInput
  <2>1. CASE servers # <<>>
    BY <1>7, <2>1, NoServersImplements DEF EndOfInput, Store!Next
  <2>2. CASE servers = <<>>
    BY <1>7, <2>2, OtherStepImplements DEF EndOfInput
  <2>3. QED
    BY <2>1, <2>2
<1>8. CASE ExecuteTask
  BY <1>8, ExecuteTaskImplements
<1>9. CASE AnswerGet
  BY <1>9, AnswerGetImplements DEF Store!Next
<1>10. ASSUME NEW d \in Docs, MoveDocument(d) PROVE UNCHANGED Store!vars
  BY <1>10, MoveDocumentImplements
<1>11. CASE LinkServer
  BY <1>11, LinkServerImplements
<1>12. CASE UnlinkServer
  BY <1>12, UnlinkServerImplements
<1>13. CASE UNCHANGED vars
  <2>1. \A d \in Docs : ContentOf(d)' = ContentOf(d)
    BY <1>13, ContentParts DEF vars
  <2>2. QED
    BY <1>13, <2>1, Stutters DEF vars
<1>14. QED
  BY <1>1, <1>2, <1>3, <1>4, <1>5, <1>6, <1>7, <1>8, <1>9, <1>10, <1>11, <1>12, <1>13
  DEF Next, Request, Handler

\* No edit is lost, reordered or served stale by queues, caches, and servers that
\* come and go, as long as no queue overflows.
THEOREM RingImplementsStore ==
  ASSUME Restricted, "overflow" \notin InputKinds
  PROVE  Spec => ImplementsStore
<1>1. IInv /\ SInv /\ IInv' /\ SInv' /\ [Next]_vars => [Store!Next]_(Store!vars)
  BY NextImplements
<1>2. QED
  BY <1>1, StorageInvariance, InitImplements, PTL DEF Spec, ImplementsStore, Store!Spec
=============================================================================
