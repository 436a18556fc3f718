---------------------------- MODULE ServerOpsProofs ----------------------------
(***************************************************************************)
(* What the operators of LruCacheOps and ServerOps preserve and what a     *)
(* client can tell of them, for every set of documents and contents, every *)
(* capacity of the cache and of the queue.                                 *)
(*                                                                         *)
(* The first part is about the cache: each operator keeps the recency list *)
(* and the hash table in step (LruConsistent), and changes the cached      *)
(* contents only as its name says.  The second part is about a server, and *)
(* the last one about Current, the content a document has once the queue   *)
(* is executed: queueing an edit changes it for that document only, and    *)
(* executing a task, however the cache is filled, changes it for none.     *)
(***************************************************************************)
EXTENDS ServerOps, SequenceTheorems, WellFoundedInduction, TLAPS

-----------------------------------------------------------------------------
(* The cache.                                                               *)

\* A list that names no document twice.
Distinct(list) == \A i, j \in 1..Len(list) : list[i] = list[j] => i = j

InList(list, d) == \E i \in 1..Len(list) : list[i] = d

(***************************************************************************)
(* RemoveFirst takes out the one node with the key: the nodes in front of  *)
(* it stay, those behind it move up.                                       *)
(***************************************************************************)
LEMMA RemoveFirstIsRemoveAt ==
  ASSUME NEW list \in Seq(Docs), Distinct(list), NEW k \in 1..Len(list)
  PROVE  RemoveFirst(list, list[k]) = RemoveAt(list, k)
<1> DEFINE I == {i \in 1..Len(list) : list[i] = list[k]}
<1>1. I = {k}
  BY DEF Distinct
<1>2. Min(I) = k
  BY <1>1 DEF Min
<1>3. QED
  BY <1>1, <1>2 DEF RemoveFirst, SelectInSeq

LEMMA RemoveAtProperties ==
  ASSUME NEW S, NEW list \in Seq(S), NEW k \in 1..Len(list)
  PROVE  /\ RemoveAt(list, k) \in Seq(S)
         /\ Len(RemoveAt(list, k)) = Len(list) - 1
         /\ \A j \in 1..(Len(list) - 1) :
               RemoveAt(list, k)[j] = IF j < k THEN list[j] ELSE list[j + 1]
<1> DEFINE front == SubSeq(list, 1, k - 1)
           back  == SubSeq(list, k + 1, Len(list))
<1>1. /\ front \in Seq(S) /\ Len(front) = k - 1
      /\ \A j \in 1..(k - 1) : front[j] = list[j]
  OBVIOUS
<1>2. /\ back \in Seq(S) /\ Len(back) = Len(list) - k
      /\ \A j \in 1..(Len(list) - k) : back[j] = list[k + j]
  OBVIOUS
<1> HIDE DEF front, back
<1>3. /\ front \o back \in Seq(S) /\ Len(front \o back) = Len(list) - 1
      /\ \A j \in 1..(Len(list) - 1) :
            (front \o back)[j] = IF j < k THEN front[j] ELSE back[j - (k - 1)]
  <2>1. Len(list) \in Nat /\ k \in Nat
    OBVIOUS
  <2>2. /\ front \o back \in Seq(S) /\ Len(front \o back) = Len(front) + Len(back)
        /\ \A j \in 1..(Len(front) + Len(back)) :
              (front \o back)[j] = IF j <= Len(front) THEN front[j] ELSE back[j - Len(front)]
    BY <1>1, <1>2, ConcatProperties
  <2>3. QED
    BY <1>1, <1>2, <2>1, <2>2
<1>4. \A j \in 1..(Len(list) - 1) :
         (front \o back)[j] = IF j < k THEN list[j] ELSE list[j + 1]
  BY <1>1, <1>2, <1>3
<1>5. QED
  BY <1>3, <1>4 DEF RemoveAt, front, back

LEMMA RemoveFirstProperties ==
  ASSUME NEW list \in Seq(Docs), Distinct(list), NEW d \in Docs, InList(list, d)
  PROVE  /\ RemoveFirst(list, d) \in Seq(Docs)
         /\ Len(RemoveFirst(list, d)) = Len(list) - 1
         /\ Distinct(RemoveFirst(list, d))
         /\ ~ InList(RemoveFirst(list, d), d)
         /\ \A e \in Docs : e # d => (InList(RemoveFirst(list, d), e) <=> InList(list, e))
<1>1. PICK k \in 1..Len(list) : list[k] = d
  BY DEF InList
<1> DEFINE rest == RemoveAt(list, k)
<1>2. RemoveFirst(list, d) = rest
  BY <1>1, RemoveFirstIsRemoveAt
<1>3. /\ rest \in Seq(Docs)
      /\ Len(rest) = Len(list) - 1
      /\ \A j \in 1..(Len(list) - 1) : rest[j] = IF j < k THEN list[j] ELSE list[j + 1]
  BY RemoveAtProperties
<1> HIDE DEF rest
<1>4. Distinct(rest)
  BY <1>3 DEF Distinct
<1>5. ~ InList(rest, d)
  BY <1>1, <1>3 DEF Distinct, InList
<1>6. ASSUME NEW e \in Docs, e # d
      PROVE  InList(rest, e) <=> InList(list, e)
  <2>1. ASSUME InList(rest, e) PROVE InList(list, e)
    BY <2>1, <1>3 DEF InList
  <2>2. ASSUME NEW i \in 1..Len(list), list[i] = e PROVE InList(rest, e)
    <3>1. CASE i < k
      BY <3>1, <2>2, <1>3 DEF InList
    <3>2. CASE i > k
      <4>1. i - 1 \in 1..(Len(list) - 1) /\ rest[i - 1] = e
        BY <3>2, <2>2, <1>3
      <4>2. QED
        BY <4>1, <1>3 DEF InList
    <3>3. i # k
      BY <1>1, <1>6, <2>2
    <3>4. QED
      BY <3>1, <3>2, <3>3
  <2>3. QED
    BY <2>1, <2>2 DEF InList
<1>7. QED
  BY <1>2, <1>3, <1>4, <1>5, <1>6

(***************************************************************************)
(* Append adds one key at the most recently used end.                      *)
(***************************************************************************)
LEMMA AppendKeyProperties ==
  ASSUME NEW list \in Seq(Docs), Distinct(list), NEW d \in Docs, ~ InList(list, d)
  PROVE  /\ Append(list, d) \in Seq(Docs)
         /\ Len(Append(list, d)) = Len(list) + 1
         /\ Distinct(Append(list, d))
         /\ InList(Append(list, d), d)
         /\ \A e \in Docs : e # d => (InList(Append(list, d), e) <=> InList(list, e))
<1> DEFINE longer == Append(list, d)
<1>1. /\ longer \in Seq(Docs)
      /\ Len(longer) = Len(list) + 1
      /\ longer[Len(list) + 1] = d
      /\ \A j \in 1..Len(list) : longer[j] = list[j]
  OBVIOUS
<1> HIDE DEF longer
<1>2. Distinct(longer)
  BY <1>1 DEF Distinct, InList
<1>3. InList(longer, d)
  BY <1>1 DEF InList
<1>4. ASSUME NEW e \in Docs, e # d
      PROVE  InList(longer, e) <=> InList(list, e)
  BY <1>1, <1>4 DEF InList
<1>5. QED
  BY <1>1, <1>2, <1>3, <1>4 DEF longer

(***************************************************************************)
(* move_node_to_end: the same keys, in a list of the same length.          *)
(***************************************************************************)
LEMMA MoveNodeToEndProperties ==
  ASSUME NEW list \in Seq(Docs), Distinct(list), NEW d \in Docs, InList(list, d)
  PROVE  /\ MoveNodeToEnd(list, d) \in Seq(Docs)
         /\ Len(MoveNodeToEnd(list, d)) = Len(list)
         /\ Distinct(MoveNodeToEnd(list, d))
         /\ \A e \in Docs : InList(MoveNodeToEnd(list, d), e) <=> InList(list, e)
<1> DEFINE rest == RemoveFirst(list, d)
<1>1. /\ rest \in Seq(Docs) /\ Len(rest) = Len(list) - 1 /\ Distinct(rest)
      /\ ~ InList(rest, d)
      /\ \A e \in Docs : e # d => (InList(rest, e) <=> InList(list, e))
  BY RemoveFirstProperties
<1> HIDE DEF rest
<1>2. /\ Append(rest, d) \in Seq(Docs) /\ Len(Append(rest, d)) = Len(rest) + 1
      /\ Distinct(Append(rest, d)) /\ InList(Append(rest, d), d)
      /\ \A e \in Docs : e # d => (InList(Append(rest, d), e) <=> InList(rest, e))
  BY <1>1, AppendKeyProperties
<1>3. MoveNodeToEnd(list, d) = Append(rest, d)
  BY DEF MoveNodeToEnd, rest
<1>4. Len(list) \in Nat
  OBVIOUS
<1>5. QED
  BY <1>1, <1>2, <1>3, <1>4

(***************************************************************************)
(* Taking the head off a list without duplicates.                          *)
(***************************************************************************)
LEMMA TailProperties ==
  ASSUME NEW list \in Seq(Docs), Distinct(list), list # <<>>
  PROVE  /\ Head(list) \in Docs /\ InList(list, Head(list))
         /\ Tail(list) \in Seq(Docs)
         /\ Len(Tail(list)) = Len(list) - 1
         /\ Distinct(Tail(list))
         /\ ~ InList(Tail(list), Head(list))
         /\ \A e \in Docs : e # Head(list) => (InList(Tail(list), e) <=> InList(list, e))
<1> DEFINE rest == Tail(list)
<1>1. /\ rest \in Seq(Docs) /\ Len(rest) = Len(list) - 1 /\ Len(list) \in Nat \ {0}
      /\ \A j \in 1..(Len(list) - 1) : rest[j] = list[j + 1]
      /\ Head(list) = list[1] /\ Head(list) \in Docs
  OBVIOUS
<1> HIDE DEF rest
<1>2. Distinct(rest)
  BY <1>1 DEF Distinct
<1>3. InList(list, Head(list)) /\ ~ InList(rest, Head(list))
  BY <1>1 DEF Distinct, InList
<1>4. ASSUME NEW e \in Docs, e # Head(list)
      PROVE  InList(rest, e) <=> InList(list, e)
  <2>1. ASSUME NEW i \in 1..Len(list), list[i] = e PROVE InList(rest, e)
    <3>1. i - 1 \in 1..(Len(list) - 1) /\ rest[i - 1] = e
      BY <1>1, <1>4, <2>1
    <3>2. QED
      BY <1>1, <3>1 DEF InList
  <2>2. InList(rest, e) => InList(list, e)
    BY <1>1 DEF InList
  <2>3. QED
    BY <2>1, <2>2 DEF InList
<1>5. QED
  BY <1>1, <1>2, <1>3, <1>4 DEF rest

-----------------------------------------------------------------------------
(***************************************************************************)
(* The functions of lru_cache.c.  Each lemma says: the result is a cache,  *)
(* its list and its table agree, and no key but the one named gets a new   *)
(* content (it keeps its own, or is no longer cached).                     *)
(***************************************************************************)
Keeps(cache, after, k) ==
    \A d \in Docs : d # k => after.val[d] \in {cache.val[d], NULL}

LEMMA ConsistentParts ==
  ASSUME NEW cache
  PROVE  LruConsistent(cache) <=>
            /\ Distinct(cache.order)
            /\ \A d \in Docs : Cached(cache, d) <=> InList(cache.order, d)
            /\ cache.size = Len(cache.order)
            /\ cache.size <= cache.hmax
BY DEF LruConsistent, Distinct, InList

LEMMA RefreshProperties ==
  ASSUME NEW cache \in LruCache, LruConsistent(cache), NEW k \in Docs, Cached(cache, k),
         NEW v \in Contents
  PROVE  /\ Refresh(cache, k, v) \in LruCache /\ LruConsistent(Refresh(cache, k, v))
         /\ Refresh(cache, k, v).val = [cache.val EXCEPT ![k] = v]
<1> DEFINE order == MoveNodeToEnd(cache.order, k)
           val   == [cache.val EXCEPT ![k] = v]
           after == Refresh(cache, k, v)
<1>1. /\ after.order = order /\ after.val = val
      /\ after.size = cache.size /\ after.hmax = cache.hmax
  BY DEF Refresh, LruCache
<1>2. /\ cache.order \in Seq(Docs) /\ Distinct(cache.order) /\ InList(cache.order, k)
      /\ cache.size = Len(cache.order) /\ cache.size <= cache.hmax
      /\ \A d \in Docs : Cached(cache, d) <=> InList(cache.order, d)
  BY ConsistentParts DEF LruCache
<1>3. /\ order \in Seq(Docs) /\ Len(order) = Len(cache.order) /\ Distinct(order)
      /\ \A d \in Docs : InList(order, d) <=> InList(cache.order, d)
  BY <1>2, MoveNodeToEndProperties
<1>4. val \in [Docs -> Value] /\ v # NULL
  BY NULLAssumption DEF LruCache, Value
<1>5. \A d \in Docs : val[d] # NULL <=> cache.val[d] # NULL
  BY <1>4 DEF Cached, LruCache
<1>6. after \in LruCache
  BY <1>3, <1>4 DEF Refresh, LruCache
<1> HIDE DEF order, val, after
<1>7. LruConsistent(after)
  BY <1>1, <1>2, <1>3, <1>5, ConsistentParts DEF Cached
<1>8. QED
  BY <1>1, <1>6, <1>7 DEF val, after

LEMMA InsertProperties ==
  ASSUME NEW cache \in LruCache, LruConsistent(cache), NEW k \in Docs, ~ Cached(cache, k),
         ~ LruCacheIsFull(cache), NEW v \in Contents
  PROVE  /\ Insert(cache, k, v) \in LruCache /\ LruConsistent(Insert(cache, k, v))
         /\ Insert(cache, k, v).val = [cache.val EXCEPT ![k] = v]
<1> DEFINE order == Append(cache.order, k)
           val   == [cache.val EXCEPT ![k] = v]
           after == Insert(cache, k, v)
<1>1. /\ after.order = order /\ after.val = val
      /\ after.size = cache.size + 1 /\ after.hmax = cache.hmax
  BY DEF Insert, LruCache
<1>2. /\ cache.order \in Seq(Docs) /\ Distinct(cache.order) /\ ~ InList(cache.order, k)
      /\ cache.size = Len(cache.order) /\ cache.size + 1 <= cache.hmax
      /\ cache.size \in Nat /\ cache.hmax \in Nat
      /\ \A d \in Docs : Cached(cache, d) <=> InList(cache.order, d)
  BY ConsistentParts DEF LruCache, LruCacheIsFull
<1>3. /\ order \in Seq(Docs) /\ Len(order) = Len(cache.order) + 1 /\ Distinct(order)
      /\ InList(order, k)
      /\ \A d \in Docs : d # k => (InList(order, d) <=> InList(cache.order, d))
  BY <1>2, AppendKeyProperties
<1>4. val \in [Docs -> Value] /\ val[k] # NULL
  BY NULLAssumption DEF LruCache, Value
<1>5. \A d \in Docs : d # k => val[d] = cache.val[d]
  BY DEF LruCache
<1>6. after \in LruCache
  <2>1. order \in Seq(Docs) /\ cache.size + 1 \in Nat
    BY <1>2, <1>3
  <2>2. QED
    BY <2>1 DEF Insert, LruCache, Value
<1> HIDE DEF order, val, after
<1>7. LruConsistent(after)
  BY <1>1, <1>2, <1>3, <1>4, <1>5, ConsistentParts DEF Cached
<1>8. QED
  BY <1>1, <1>6, <1>7 DEF val, after

LEMMA EvictProperties ==
  ASSUME NEW cache \in LruCache, LruConsistent(cache), LruCacheIsFull(cache)
  PROVE  /\ Victim(cache) \in Docs /\ Cached(cache, Victim(cache))
         /\ Evict(cache) \in LruCache /\ LruConsistent(Evict(cache))
         /\ ~ LruCacheIsFull(Evict(cache))
         /\ Evict(cache).val = [cache.val EXCEPT ![Victim(cache)] = NULL]
<1> DEFINE order == Tail(cache.order)
           val   == [cache.val EXCEPT ![Victim(cache)] = NULL]
           after == Evict(cache)
<1>1. /\ after.order = order /\ after.val = val
      /\ after.size = cache.size - 1 /\ after.hmax = cache.hmax
  BY DEF Evict, LruCache
<1>2. /\ cache.order \in Seq(Docs) /\ Distinct(cache.order)
      /\ cache.size = Len(cache.order) /\ cache.size = cache.hmax
      /\ cache.size \in Nat \ {0} /\ cache.hmax \in Nat \ {0}
      /\ \A d \in Docs : Cached(cache, d) <=> InList(cache.order, d)
  BY ConsistentParts DEF LruCache, LruCacheIsFull
<1>3. cache.order # <<>>
  BY <1>2
<1>4. /\ Victim(cache) \in Docs /\ InList(cache.order, Victim(cache))
      /\ order \in Seq(Docs) /\ Len(order) = Len(cache.order) - 1 /\ Distinct(order)
      /\ ~ InList(order, Victim(cache))
      /\ \A d \in Docs : d # Victim(cache) => (InList(order, d) <=> InList(cache.order, d))
  BY <1>2, <1>3, TailProperties DEF Victim
<1>5. /\ val \in [Docs -> Value] /\ val[Victim(cache)] = NULL
      /\ \A d \in Docs : d # Victim(cache) => val[d] = cache.val[d]
  BY <1>4 DEF LruCache, Value
<1>6. after \in LruCache
  <2>1. order \in Seq(Docs) /\ cache.size - 1 \in Nat
    BY <1>2, <1>4
  <2>2. QED
    BY <1>4, <2>1 DEF Evict, LruCache, Value
<1> HIDE DEF order, val, after
<1>7. LruConsistent(after)
  BY <1>1, <1>2, <1>4, <1>5, ConsistentParts DEF Cached
<1>8. ~ LruCacheIsFull(after)
  BY <1>1, <1>2 DEF LruCacheIsFull
<1>9. QED
  BY <1>1, <1>2, <1>4, <1>6, <1>7, <1>8 DEF val, after

\* lru_cache_put: hit, insertion, or eviction and insertion.
LEMMA PutProperties ==
  ASSUME NEW cache \in LruCache, LruConsistent(cache), NEW k \in Docs, NEW v \in Contents
  PROVE  /\ LruCachePut(cache, k, v) \in LruCache
         /\ LruConsistent(LruCachePut(cache, k, v))
         /\ LruCachePut(cache, k, v).val[k] = v
         /\ Keeps(cache, LruCachePut(cache, k, v), k)
<1>1. cache.val \in [Docs -> Value]
  BY DEF LruCache
<1>2. CASE Cached(cache, k)
  <2>1. LruCachePut(cache, k, v) = Refresh(cache, k, v)
    BY <1>2 DEF LruCachePut
  <2>2. /\ Refresh(cache, k, v) \in LruCache /\ LruConsistent(Refresh(cache, k, v))
        /\ Refresh(cache, k, v).val = [cache.val EXCEPT ![k] = v]
    BY <1>2, RefreshProperties
  <2>3. QED
    BY <1>1, <2>1, <2>2 DEF Keeps
<1>3. CASE ~ Cached(cache, k) /\ ~ LruCacheIsFull(cache)
  <2>1. LruCachePut(cache, k, v) = Insert(cache, k, v)
    BY <1>3 DEF LruCachePut
  <2>2. /\ Insert(cache, k, v) \in LruCache /\ LruConsistent(Insert(cache, k, v))
        /\ Insert(cache, k, v).val = [cache.val EXCEPT ![k] = v]
    BY <1>3, InsertProperties
  <2>3. QED
    BY <1>1, <2>1, <2>2 DEF Keeps
<1>4. CASE ~ Cached(cache, k) /\ LruCacheIsFull(cache)
  <2> DEFINE smaller == Evict(cache)
  <2>1. /\ smaller \in LruCache /\ LruConsistent(smaller) /\ ~ LruCacheIsFull(smaller)
        /\ smaller.val = [cache.val EXCEPT ![Victim(cache)] = NULL]
    BY <1>4, EvictProperties
  <2> HIDE DEF smaller
  <2>2. ~ Cached(smaller, k)
    BY <1>1, <1>4, <2>1 DEF Cached
  <2>3. LruCachePut(cache, k, v) = Insert(smaller, k, v)
    BY <1>4 DEF LruCachePut, smaller
  <2>4. /\ Insert(smaller, k, v) \in LruCache /\ LruConsistent(Insert(smaller, k, v))
        /\ Insert(smaller, k, v).val = [smaller.val EXCEPT ![k] = v]
    BY <2>1, <2>2, InsertProperties
  <2>5. QED
    BY <1>1, <2>1, <2>3, <2>4 DEF Keeps
<1>5. QED
  BY <1>2, <1>3, <1>4

\* lru_cache_get: only the order changes.
LEMMA GetProperties ==
  ASSUME NEW cache \in LruCache, LruConsistent(cache), NEW k \in Docs
  PROVE  /\ LruCacheGet(cache, k) \in LruCache
         /\ LruConsistent(LruCacheGet(cache, k))
         /\ LruCacheGet(cache, k).val = cache.val
<1>1. CASE Cached(cache, k)
  <2> DEFINE v == cache.val[k]
  <2>1. v \in Contents
    BY <1>1 DEF Cached, LruCache, Value
  <2>2. [cache.val EXCEPT ![k] = v] = cache.val
    BY DEF LruCache
  <2>3. LruCacheGet(cache, k) = Refresh(cache, k, v)
    BY <1>1, <2>2 DEF LruCacheGet, Refresh, LruCache
  <2>4. QED
    BY <1>1, <2>1, <2>2, <2>3, RefreshProperties
<1>2. CASE ~ Cached(cache, k)
  BY <1>2 DEF LruCacheGet
<1>3. QED
  BY <1>1, <1>2

\* lru_cache_remove: the key leaves both structures.
LEMMA RemoveProperties ==
  ASSUME NEW cache \in LruCache, LruConsistent(cache), NEW k \in Docs
  PROVE  /\ LruCacheRemove(cache, k) \in LruCache
         /\ LruConsistent(LruCacheRemove(cache, k))
         /\ LruCacheRemove(cache, k).val = [cache.val EXCEPT ![k] = NULL]
<1>1. cache.val \in [Docs -> Value]
  BY DEF LruCache
<1>2. CASE ~ Cached(cache, k)
  BY <1>1, <1>2 DEF LruCacheRemove, Cached
<1>3. CASE Cached(cache, k)
  <2> DEFINE order == RemoveFirst(cache.order, k)
             val   == [cache.val EXCEPT ![k] = NULL]
             after == LruCacheRemove(cache, k)
  <2>1. /\ after.order = order /\ after.val = val
        /\ after.size = cache.size - 1 /\ after.hmax = cache.hmax
    BY <1>3 DEF LruCacheRemove, LruCache
  <2>2. /\ cache.order \in Seq(Docs) /\ Distinct(cache.order) /\ InList(cache.order, k)
        /\ cache.size = Len(cache.order) /\ cache.size <= cache.hmax
        /\ cache.hmax \in Nat \ {0} /\ Len(cache.order) \in Nat \ {0}
        /\ \A d \in Docs : Cached(cache, d) <=> InList(cache.order, d)
    BY <1>3, ConsistentParts DEF LruCache, InList
  <2>3. /\ order \in Seq(Docs) /\ Len(order) = Len(cache.order) - 1 /\ Distinct(order)
        /\ ~ InList(order, k)
        /\ \A d \in Docs : d # k => (InList(order, d) <=> InList(cache.order, d))
    BY <2>2, RemoveFirstProperties
  <2>4. /\ val \in [Docs -> Value] /\ val[k] = NULL
        /\ \A d \in Docs : d # k => val[d] = cache.val[d]
    BY <1>1 DEF Value
  <2>5. after \in LruCache
    <3>1. order \in Seq(Docs) /\ cache.size - 1 \in Nat
      BY <2>2, <2>3
    <3>2. QED
      BY <1>3, <3>1 DEF LruCacheRemove, LruCache, Value
  <2> HIDE DEF order, val, after
  <2>6. LruConsistent(after)
    BY <2>1, <2>2, <2>3, <2>4, ConsistentParts DEF Cached
  <2>7. QED
    BY <2>1, <2>5, <2>6 DEF val, after
<1>4. QED
  BY <1>2, <1>3

-----------------------------------------------------------------------------
(* A server.                                                                *)

\* A cached document is in the database, with whatever content.
CachedIsStored(s) == \A d \in Docs : Cached(s.cache, d) => s.db[d] # NULL

SoundServer(s) ==
    /\ s \in Server
    /\ LruConsistent(s.cache)
    /\ CachedIsStored(s)
    /\ Len(s.tasks) <= QueueMax

LEMMA SoundParts ==
  ASSUME NEW s, SoundServer(s)
  PROVE  /\ s \in Server /\ s.id \in ServerIds
         /\ s.cache \in LruCache /\ LruConsistent(s.cache)
         /\ s.tasks \in Seq(Task) /\ Len(s.tasks) <= QueueMax
         /\ s.db \in [Docs -> Value] /\ CachedIsStored(s)
BY DEF SoundServer, Server

LEMMA InitServerSound ==
  ASSUME NEW id \in ServerIds, NEW size \in Nat \ {0}
  PROVE  /\ SoundServer(InitServer(id, size)) /\ CacheCoherent(InitServer(id, size))
         /\ InitServer(id, size).id = id /\ InitServer(id, size).tasks = <<>>
<1> DEFINE s == InitServer(id, size)
<1>1. /\ s.cache.order = <<>> /\ s.cache.val = [d \in Docs |-> NULL]
      /\ s.cache.size = 0 /\ s.cache.hmax = size
      /\ s.tasks = <<>> /\ s.id = id
  BY DEF InitServer, InitLruCache
<1>2. s.cache \in LruCache
  BY DEF InitServer, InitLruCache, LruCache, Value
<1>3. s \in Server
  BY <1>2 DEF InitServer, Server, Value
<1>4. LruConsistent(s.cache)
  BY <1>1 DEF LruConsistent, Cached
<1>5. CacheCoherent(s) /\ CachedIsStored(s)
  BY <1>1 DEF CacheCoherent, CachedIsStored, Cached
<1>6. QED
  BY <1>1, <1>3, <1>4, <1>5, QueueMaxAssumption DEF SoundServer

\* q_enqueue_request, full queue or not.
LEMMA EnqueueSound ==
  ASSUME NEW s, SoundServer(s), NEW t \in Task
  PROVE  /\ SoundServer(Enqueue(s, t)) /\ Enqueue(s, t).id = s.id
         /\ CacheCoherent(s) => CacheCoherent(Enqueue(s, t))
<1>1. CASE QueueFull(s)
  BY <1>1 DEF Enqueue
<1>2. CASE ~ QueueFull(s)
  <2> DEFINE after == Enqueue(s, t)
  <2>1. /\ s \in Server /\ s.tasks \in Seq(Task) /\ LruConsistent(s.cache)
        /\ CachedIsStored(s) /\ Len(s.tasks) <= QueueMax /\ Len(s.tasks) # QueueMax
    BY <1>2, SoundParts DEF QueueFull
  <2>2. /\ after.cache = s.cache /\ after.db = s.db /\ after.id = s.id
        /\ after.tasks = Append(s.tasks, t)
    BY <1>2, <2>1 DEF Enqueue, Server
  <2>3. after \in Server
    <3>1. Append(s.tasks, t) \in Seq(Task)
      BY <2>1
    <3>2. QED
      BY <1>2, <2>1, <3>1 DEF Enqueue, Server
  <2>4. Len(after.tasks) <= QueueMax
    BY <2>1, <2>2, QueueMaxAssumption
  <2> HIDE DEF after
  <2>5. QED
    BY <2>1, <2>2, <2>3, <2>4 DEF SoundServer, CacheCoherent, CachedIsStored, after
<1>3. QED
  BY <1>1, <1>2

LEMMA TaskParts ==
  ASSUME NEW t \in Task
  PROVE  t.doc \in Docs /\ t.content \in Contents
BY DEF Task

LEMMA DequeueSound ==
  ASSUME NEW s, SoundServer(s), s.tasks # <<>>
  PROVE  /\ SoundServer(Dequeue(s)) /\ Dequeue(s).id = s.id
         /\ Dequeue(s).tasks = Tail(s.tasks) /\ Dequeue(s).db = s.db
         /\ CacheCoherent(s) => CacheCoherent(Dequeue(s))
<1> DEFINE after == Dequeue(s)
<1>1. /\ s \in Server /\ s.tasks \in Seq(Task) /\ LruConsistent(s.cache)
      /\ CachedIsStored(s) /\ Len(s.tasks) <= QueueMax
  BY SoundParts
<1>2. /\ after.cache = s.cache /\ after.db = s.db /\ after.tasks = Tail(s.tasks)
      /\ after.id = s.id
  BY <1>1 DEF Dequeue, Server
<1>3. after \in Server
  <2>1. Tail(s.tasks) \in Seq(Task)
    BY <1>1
  <2>2. QED
    BY <1>1, <2>1 DEF Dequeue, Server
<1>4. Len(after.tasks) <= QueueMax
  BY <1>1, <1>2, QueueMaxAssumption
<1> HIDE DEF after
<1>5. QED
  BY <1>1, <1>2, <1>3, <1>4 DEF SoundServer, CacheCoherent, CachedIsStored, after

\* server_edit_document writes cache and database, so they go on agreeing;
\* what it evicts was in the database.
LEMMA EditSound ==
  ASSUME NEW s, SoundServer(s), NEW d \in Docs, NEW c \in Contents
  PROVE  /\ SoundServer(EditDocument(s, d, c)) /\ EditDocument(s, d, c).id = s.id
         /\ CacheCoherent(s) => CacheCoherent(EditDocument(s, d, c))
         /\ EditDocument(s, d, c).tasks = s.tasks
         /\ EditDocument(s, d, c).db = [s.db EXCEPT ![d] = c]
<1> DEFINE after == EditDocument(s, d, c)
           cache == LruCachePut(s.cache, d, c)
           db    == [s.db EXCEPT ![d] = c]
<1>1. /\ s \in Server /\ s.cache \in LruCache /\ LruConsistent(s.cache)
      /\ s.db \in [Docs -> Value] /\ CachedIsStored(s) /\ Len(s.tasks) <= QueueMax
  BY SoundParts
<1>2. /\ cache \in LruCache /\ LruConsistent(cache) /\ cache.val[d] = c
      /\ Keeps(s.cache, cache, d)
  BY <1>1, PutProperties
<1>3. /\ after.cache = cache /\ after.db = db /\ after.tasks = s.tasks
      /\ after.id = s.id
  BY <1>1 DEF EditDocument, Server
<1>4. after \in Server
  BY <1>1, <1>2 DEF EditDocument, Server, Value
<1>5. /\ db[d] = c
      /\ \A e \in Docs : e # d => db[e] = s.db[e]
  BY <1>1
<1> HIDE DEF after, cache, db
<1>6. CacheCoherent(s) => CacheCoherent(after)
  BY <1>1, <1>2, <1>3, <1>5 DEF CacheCoherent, Cached, Keeps
<1>7. CachedIsStored(after)
  BY <1>1, <1>2, <1>3, <1>5, NULLAssumption DEF CachedIsStored, Cached, Keeps
<1>8. QED
  BY <1>1, <1>2, <1>3, <1>4, <1>6, <1>7 DEF SoundServer, after, db

\* server_get_document fills the cache from the database and writes nothing else.
LEMMA GetSound ==
  ASSUME NEW s, SoundServer(s), NEW d \in Docs
  PROVE  /\ SoundServer(GetDocument(s, d)) /\ GetDocument(s, d).id = s.id
         /\ CacheCoherent(s) => CacheCoherent(GetDocument(s, d))
         /\ GetDocument(s, d).tasks = s.tasks
         /\ GetDocument(s, d).db = s.db
<1>1. /\ s \in Server /\ s.cache \in LruCache /\ LruConsistent(s.cache)
      /\ s.db \in [Docs -> Value] /\ CachedIsStored(s) /\ Len(s.tasks) <= QueueMax
  BY SoundParts
<1>2. CASE Cached(s.cache, d)
  <2> DEFINE after == GetDocument(s, d)
             cache == LruCacheGet(s.cache, d)
  <2>1. cache \in LruCache /\ LruConsistent(cache) /\ cache.val = s.cache.val
    BY <1>1, GetProperties
  <2>2. after.cache = cache /\ after.db = s.db /\ after.tasks = s.tasks /\ after.id = s.id
    BY <1>1, <1>2 DEF GetDocument, Server
  <2>3. after \in Server
    BY <1>1, <1>2, <2>1 DEF GetDocument, Server
  <2> HIDE DEF after, cache
  <2>4. QED
    BY <1>1, <2>1, <2>2, <2>3
       DEF SoundServer, CacheCoherent, CachedIsStored, Cached, after
<1>3. CASE ~ Cached(s.cache, d) /\ s.db[d] = NULL
  BY <1>3 DEF GetDocument
<1>4. CASE ~ Cached(s.cache, d) /\ s.db[d] # NULL
  <2> DEFINE after == GetDocument(s, d)
             cache == LruCachePut(s.cache, d, s.db[d])
  <2>1. s.db[d] \in Contents
    BY <1>1, <1>4 DEF Value
  <2>2. /\ cache \in LruCache /\ LruConsistent(cache) /\ cache.val[d] = s.db[d]
        /\ Keeps(s.cache, cache, d)
    BY <1>1, <2>1, PutProperties
  <2>3. after.cache = cache /\ after.db = s.db /\ after.tasks = s.tasks /\ after.id = s.id
    BY <1>1, <1>4 DEF GetDocument, Server
  <2>4. after \in Server
    BY <1>1, <1>4, <2>2 DEF GetDocument, Server
  <2> HIDE DEF after, cache
  <2>5. CacheCoherent(s) => CacheCoherent(after)
    BY <1>1, <2>2, <2>3 DEF CacheCoherent, Cached, Keeps
  <2>6. CachedIsStored(after)
    BY <1>1, <1>4, <2>2, <2>3 DEF CachedIsStored, Cached, Keeps
  <2>7. QED
    BY <1>1, <2>2, <2>3, <2>4, <2>5, <2>6 DEF SoundServer, after
<1>5. QED
  BY <1>2, <1>3, <1>4

-----------------------------------------------------------------------------
(* The responses                                                            *)

LEMMA AccessTyped ==
  ASSUME NEW s, SoundServer(s), NEW d \in Docs
  PROVE  VictimOf(s, d) \in Docs \cup {NULL} /\ AccessLog(s, d) \in {"hit", "miss", "evict"}
<1>1. s.cache \in LruCache /\ LruConsistent(s.cache)
  BY DEF SoundServer, Server
<1>2. LruCacheIsFull(s.cache) => Victim(s.cache) \in Docs
  BY <1>1, EvictProperties
<1>3. QED
  BY <1>2 DEF VictimOf, AccessLog, Evicts

LEMMA QueuedTyped ==
  ASSUME NEW s, SoundServer(s), NEW d \in Docs
  PROVE  Queued(s, d) \in QueuedResponse
<1>1. s.id \in ServerIds /\ Len(s.tasks) \in 0..QueueMax
  BY QueueMaxAssumption DEF SoundServer, Server
<1>2. QED
  BY <1>1 DEF Queued, QueuedResponse

LEMMA EditedTyped ==
  ASSUME NEW s, SoundServer(s), NEW d \in Docs
  PROVE  Edited(s, d) \in EditResponse
<1>1. s.id \in ServerIds
  BY DEF SoundServer, Server
<1>2. QED
  BY <1>1, AccessTyped DEF Edited, EditResponse

LEMMA GotTyped ==
  ASSUME NEW s, SoundServer(s), NEW d \in Docs
  PROVE  Got(s, d) \in GetResponse
<1>1. /\ s.id \in ServerIds /\ s.cache.val[d] \in Value /\ s.db[d] \in Value
  BY DEF SoundServer, Server, LruCache
<1> DEFINE content == IF Cached(s.cache, d) THEN s.cache.val[d] ELSE s.db[d]
           log     == IF Missing(s, d) THEN "fault" ELSE AccessLog(s, d)
           victim  == IF Missing(s, d) THEN NULL ELSE VictimOf(s, d)
<1>2. /\ content \in Value /\ log \in {"hit", "miss", "evict", "fault"}
      /\ victim \in Docs \cup {NULL}
  BY <1>1, AccessTyped
<1>3. Got(s, d) = [kind |-> "content", id |-> s.id, doc |-> d, content |-> content,
                   log |-> log, victim |-> victim]
  BY DEF Got
<1> HIDE DEF content, log, victim
<1>4. QED
  BY <1>1, <1>2, <1>3 DEF GetResponse

\* What a GET on a drained server answers is what the database has.
LEMMA GotContent ==
  ASSUME NEW s, CacheCoherent(s), NEW d \in Docs
  PROVE  Got(s, d).content = s.db[d] /\ Got(s, d).kind = "content" /\ Got(s, d).doc = d
BY DEF Got, CacheCoherent

-----------------------------------------------------------------------------
(* What the client can tell                                                 *)

TasksOn(s, d) == {i \in 1..Len(s.tasks) : s.tasks[i].doc = d}

LEMMA LastIndex ==
  ASSUME NEW n \in Nat, NEW I \in SUBSET (1..n), I # {}
  PROVE  Max(I) \in I /\ \A i \in I : i <= Max(I)
<1> DEFINE D == {k \in Nat : n - k \in I}
<1>1. D \subseteq Nat /\ D # {}
  <2>1. PICK i \in 1..n : i \in I
    OBVIOUS
  <2>2. n - i \in Nat /\ n - (n - i) = i
    BY <2>1
  <2>3. QED
    BY <2>1, <2>2
<1>2. PICK x \in D : \A y \in D : ~ (<<y, x>> \in OpToRel(<, Nat))
  BY <1>1, WFMin, NatLessThanWellFounded
<1>3. ASSUME NEW y \in D PROVE x <= y
  <2>1. x \in Nat /\ y \in Nat
    OBVIOUS
  <2>2. <<y, x>> \notin OpToRel(<, Nat)
    BY <1>2
  <2>3. ~ (y < x)
    BY <2>1, <2>2 DEF OpToRel
  <2>4. QED
    BY <2>1, <2>3
<1>4. ASSUME NEW i \in I PROVE i <= n - x
  <2>1. i \in 1..n /\ n - i \in Nat /\ n - (n - i) = i /\ x \in Nat
    OBVIOUS
  <2>2. n - i \in D
    BY <2>1
  <2>3. QED
    BY <2>1, <2>2, <1>3
<1>5. n - x \in I /\ I \subseteq Int
  OBVIOUS
<1> HIDE DEF D
<1>6. QED
  BY <1>4, <1>5 DEF Max

\* The last of a set of indices, known by being in it and not below any other.
LEMMA LastIs ==
  ASSUME NEW I \in SUBSET Nat, NEW m \in I, \A i \in I : i <= m
  PROVE  Max(I) = m
<1>1. Max(I) \in I /\ \A i \in I : Max(I) >= i
  BY DEF Max
<1>2. Max(I) \in Nat /\ m \in Nat /\ Max(I) <= m /\ Max(I) >= m
  BY <1>1
<1>3. QED
  BY <1>2

LEMMA CurrentWithoutTask ==
  ASSUME NEW s, NEW d \in Docs, TasksOn(s, d) = {}
  PROVE  Current(s, d) = s.db[d]
<1>1. LastTask(s, d) = 0
  BY DEF LastTask, SelectLastInSeq, TasksOn
<1>2. QED
  BY <1>1 DEF Current

LEMMA CurrentOfTask ==
  ASSUME NEW s, s.tasks \in Seq(Task), NEW d \in Docs,
         NEW m \in TasksOn(s, d), \A i \in TasksOn(s, d) : i <= m
  PROVE  Current(s, d) = s.tasks[m].content
<1>1. m \in 1..Len(s.tasks) /\ TasksOn(s, d) \in SUBSET Nat /\ TasksOn(s, d) # {}
  BY DEF TasksOn
<1>2. Max(TasksOn(s, d)) = m
  BY <1>1, LastIs
<1>3. LastTask(s, d) = m
  BY <1>1, <1>2 DEF LastTask, SelectLastInSeq, TasksOn
<1>4. QED
  BY <1>1, <1>3 DEF Current

LEMMA LastTaskExists ==
  ASSUME NEW s, s.tasks \in Seq(Task), NEW d \in Docs, TasksOn(s, d) # {}
  PROVE  \E m \in TasksOn(s, d) : \A i \in TasksOn(s, d) : i <= m
<1>1. Len(s.tasks) \in Nat /\ TasksOn(s, d) \in SUBSET (1..Len(s.tasks))
  BY DEF TasksOn
<1>2. QED
  BY <1>1, LastIndex

\* Neither the cache nor the id of a server has a part in it.
LEMMA CurrentDependsOn ==
  ASSUME NEW s, NEW after, NEW d \in Docs,
         after.tasks = s.tasks, after.db = s.db
  PROVE  Current(after, d) = Current(s, d)
BY DEF Current, LastTask

\* An edit that finds room in the queue is what its document reads from then
\* on; no other document notices.
LEMMA CurrentAfterEnqueue ==
  ASSUME NEW s, SoundServer(s), ~ QueueFull(s), NEW d \in Docs, NEW c \in Contents,
         NEW e \in Docs
  PROVE  Current(Enqueue(s, [doc |-> d, content |-> c]), e)
            = IF e = d THEN c ELSE Current(s, e)
<1> DEFINE t == [doc |-> d, content |-> c]
           after == Enqueue(s, t)
           n == Len(s.tasks)
<1>1. t \in Task /\ t.doc = d /\ t.content = c
  BY DEF Task
<1>2. s.tasks \in Seq(Task) /\ n \in Nat
  BY DEF SoundServer, Server
<1>3. after.tasks = Append(s.tasks, t) /\ after.db = s.db
  BY DEF Enqueue, SoundServer, Server
<1> HIDE DEF t, after
<1>4. /\ after.tasks \in Seq(Task) /\ Len(after.tasks) = n + 1
      /\ after.tasks[n + 1] = t /\ \A i \in 1..n : after.tasks[i] = s.tasks[i]
  BY <1>1, <1>2, <1>3
<1>5. CASE e = d
  <2>1. n + 1 \in TasksOn(after, e) /\ \A i \in TasksOn(after, e) : i <= n + 1
    BY <1>1, <1>2, <1>4, <1>5 DEF TasksOn
  <2>2. Current(after, e) = after.tasks[n + 1].content
    BY <1>4, <2>1, CurrentOfTask
  <2>3. QED
    BY <1>1, <1>4, <1>5, <2>2 DEF after, t
<1>6. CASE e # d
  <2>1. TasksOn(after, e) = TasksOn(s, e)
    BY <1>1, <1>2, <1>4, <1>6 DEF TasksOn
  <2>2. CASE TasksOn(s, e) = {}
    BY <1>3, <1>6, <2>1, <2>2, CurrentWithoutTask DEF after, t
  <2>3. CASE TasksOn(s, e) # {}
    <3>1. PICK m \in TasksOn(s, e) : \A i \in TasksOn(s, e) : i <= m
      BY <1>2, <2>3, LastTaskExists
    <3>2. Current(s, e) = s.tasks[m].content
      BY <1>2, <3>1, CurrentOfTask
    <3>3. Current(after, e) = after.tasks[m].content
      BY <1>4, <2>1, <3>1, CurrentOfTask
    <3>4. m \in 1..n
      BY DEF TasksOn
    <3>5. QED
      BY <1>4, <1>6, <3>2, <3>3, <3>4 DEF after, t
  <2>4. QED
    BY <2>2, <2>3
<1>7. QED
  BY <1>5, <1>6

\* Executing the first task of the queue: what it wrote is in the database now,
\* so no document reads differently.
LEMMA CurrentAfterExecution ==
  ASSUME NEW s, SoundServer(s), s.tasks # <<>>, NEW e \in Docs
  PROVE  Current(Dequeue(EditDocument(s, Head(s.tasks).doc, Head(s.tasks).content)), e)
            = Current(s, e)
<1> DEFINE t == Head(s.tasks)
           edited == EditDocument(s, t.doc, t.content)
           after == Dequeue(edited)
           n == Len(s.tasks)
<1>1. /\ s.tasks \in Seq(Task) /\ n \in Nat \ {0} /\ s.tasks[1] = t
      /\ t \in Task /\ t.doc \in Docs /\ t.content \in Contents
      /\ s.db \in [Docs -> Value]
  <2>1. s.tasks \in Seq(Task) /\ s.db \in [Docs -> Value]
    BY DEF SoundServer, Server
  <2>2. n \in Nat \ {0} /\ s.tasks[1] = t /\ t \in Task
    BY <2>1
  <2>3. QED
    BY <2>1, <2>2, TaskParts
<1>2. /\ SoundServer(edited) /\ edited.tasks = s.tasks
      /\ edited.db = [s.db EXCEPT ![t.doc] = t.content]
  BY <1>1, EditSound
<1> HIDE DEF t, edited
<1>3. after.tasks = Tail(s.tasks) /\ after.db = edited.db
  BY <1>2 DEF Dequeue, SoundServer, Server
<1> HIDE DEF after
<1>4. /\ after.tasks \in Seq(Task) /\ Len(after.tasks) = n - 1
      /\ \A i \in 1..(n - 1) : after.tasks[i] = s.tasks[i + 1]
  BY <1>1, <1>3
<1>5. \A i \in Nat : i \in TasksOn(after, e) <=> i \in 1..(n - 1) /\ i + 1 \in TasksOn(s, e)
  BY <1>1, <1>4 DEF TasksOn
<1>6. TasksOn(after, e) \subseteq Nat /\ TasksOn(s, e) \subseteq 1..n
  BY DEF TasksOn
<1>7. CASE TasksOn(after, e) # {}
  <2>1. PICK m \in TasksOn(after, e) : \A i \in TasksOn(after, e) : i <= m
    BY <1>4, <1>7, LastTaskExists
  <2>2. m \in 1..(n - 1) /\ m + 1 \in TasksOn(s, e)
    BY <1>5, <1>6
  <2>3. ASSUME NEW i \in TasksOn(s, e) PROVE i <= m + 1
    <3>1. i \in 1..n /\ m \in 1..(n - 1)
      BY <1>6, <2>2
    <3>2. CASE i = 1
      BY <3>1, <3>2
    <3>3. CASE i # 1
      <4>1. i - 1 \in Nat /\ i - 1 \in 1..(n - 1) /\ (i - 1) + 1 = i
        BY <1>1, <3>1, <3>3
      <4>2. i - 1 \in TasksOn(after, e)
        BY <1>5, <4>1
      <4>3. i - 1 <= m
        BY <2>1, <4>2
      <4>4. QED
        BY <3>1, <4>3
    <3>4. QED
      BY <3>2, <3>3
  <2>4. Current(after, e) = after.tasks[m].content
    BY <1>4, <2>1, CurrentOfTask
  <2>5. Current(s, e) = s.tasks[m + 1].content
    BY <1>1, <2>2, <2>3, CurrentOfTask
  <2>6. QED
    BY <1>4, <2>2, <2>4, <2>5 DEF after, edited, t
<1>8. CASE TasksOn(after, e) = {}
  <2>1. Current(after, e) = edited.db[e]
    BY <1>3, <1>8, CurrentWithoutTask
  <2>2. ASSUME NEW i \in TasksOn(s, e) PROVE i = 1
    <3>1. i \in 1..n
      BY <1>6
    <3>2. CASE i # 1
      <4>1. i - 1 \in Nat /\ i - 1 \in 1..(n - 1) /\ (i - 1) + 1 = i
        BY <1>1, <3>1, <3>2
      <4>2. i - 1 \in TasksOn(after, e)
        BY <1>5, <4>1
      <4>3. QED
        BY <1>8, <4>2
    <3>3. QED
      BY <3>2
  <2>3. CASE e = t.doc
    <3>1. 1 \in TasksOn(s, e)
      BY <1>1, <2>3 DEF TasksOn
    <3>2. \A i \in TasksOn(s, e) : i <= 1
      BY <2>2
    <3>3. Current(s, e) = s.tasks[1].content
      BY <1>1, <3>1, <3>2, CurrentOfTask
    <3>4. QED
      BY <1>1, <1>2, <2>1, <2>3, <3>3 DEF after, edited, t
  <2>4. CASE e # t.doc
    <3>1. TasksOn(s, e) = {}
      BY <1>1, <2>2, <2>4 DEF TasksOn
    <3>2. Current(s, e) = s.db[e]
      BY <3>1, CurrentWithoutTask
    <3>3. QED
      BY <1>1, <1>2, <2>1, <2>4, <3>2 DEF after, edited, t
  <2>5. QED
    BY <2>3, <2>4
<1>9. QED
  BY <1>7, <1>8
================================================================================
