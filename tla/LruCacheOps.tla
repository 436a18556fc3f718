---------------------------- MODULE LruCacheOps ----------------------------
(***************************************************************************)
(* The LRU cache of skel/lru_cache.c as operators on a cache value.        *)
(*                                                                         *)
(* A cache is a record with the two structures the code keeps side by side *)
(* and has to keep in step by hand:                                        *)
(*   order  the keys from least to most recently used (cache->order);      *)
(*   val    the content the hash table leads to, NULL where the table has  *)
(*          no entry (cache->ht);                                          *)
(*   size   the table's own count of its entries (cache->ht->size);        *)
(*   hmax   the capacity (cache->ht->hmax).                                *)
(* Contents are values here; the nodes and the pointers of the C lists are *)
(* abstracted away, and so are the buckets of the hash table.              *)
(***************************************************************************)
EXTENDS Naturals, Sequences, SequencesExt

CONSTANTS
    Docs,       \* document names
    Contents,   \* document contents
    NULL        \* C's NULL: no content, no document

ASSUME NULLAssumption == NULL \notin Docs /\ NULL \notin Contents

Value == Contents \cup {NULL}

LruCache == [order : Seq(Docs), val : [Docs -> Value], size : Nat, hmax : Nat \ {0}]

InitLruCache(capacity) ==
    [order |-> <<>>, val |-> [d \in Docs |-> NULL], size |-> 0, hmax |-> capacity]

\* ht_has_key(cache->ht, key)
Cached(cache, key) == cache.val[key] # NULL

LruCacheIsFull(cache) == cache.hmax = cache.size

\* move_node_to_end: unlink the first node with the key, append it again.
MoveNodeToEnd(order, key) == Append(RemoveFirst(order, key), key)

\* The key an insertion pushes out of a full cache.
Victim(cache) == Head(cache.order)

\* A slip the properties have to notice: the victim stays in the hash table.
EvictFromListOnly(cache) == [cache EXCEPT !.order = Tail(@), !.size = @ - 1]

\* The eviction branch of lru_cache_put.
Evict(cache) ==
    [cache EXCEPT !.order = Tail(@), !.val[Victim(cache)] = NULL, !.size = @ - 1]

Refresh(cache, key, value) ==
    [cache EXCEPT !.order = MoveNodeToEnd(@, key), !.val[key] = value]

Insert(cache, key, value) ==
    [cache EXCEPT !.order = Append(@, key), !.val[key] = value, !.size = @ + 1]

LruCachePut(cache, key, value) ==
    IF Cached(cache, key)
    THEN Refresh(cache, key, value)
    ELSE Insert(IF LruCacheIsFull(cache) THEN Evict(cache) ELSE cache, key, value)

\* The cache after lru_cache_get; the value it returns is cache.val[key].
LruCacheGet(cache, key) ==
    IF Cached(cache, key)
    THEN [cache EXCEPT !.order = MoveNodeToEnd(@, key)]
    ELSE cache

LruCacheRemove(cache, key) ==
    IF Cached(cache, key)
    THEN [cache EXCEPT !.order = RemoveFirst(@, key), !.val[key] = NULL, !.size = @ - 1]
    ELSE cache

(***************************************************************************)
(* The list and the table of a cache describe the same set of keys: the    *)
(* list names every key of the table once, the table's counter is the      *)
(* number of those keys, and the capacity is respected.  Every function of *)
(* lru_cache.c relies on it: a victim has to be in the table, a hit has to *)
(* be found in the list.                                                   *)
(***************************************************************************)
LruConsistent(cache) ==
    /\ \A i, j \in 1..Len(cache.order) : cache.order[i] = cache.order[j] => i = j
    /\ \A d \in Docs : Cached(cache, d) <=> \E i \in 1..Len(cache.order) : cache.order[i] = d
    /\ cache.size = Len(cache.order)
    /\ cache.size <= cache.hmax
=============================================================================
