---------------------------- MODULE ServerMemory ----------------------------
(***************************************************************************)
(* The memory of one server: the recency list of its cache with its nodes  *)
(* and pointers, the two hash tables with their buckets, and the scan by   *)
(* which loader_add_server moves documents to a new server.                *)
(*                                                                         *)
(* lru_cache.c keeps a pointer per cached key in the cache's table: ht_put *)
(* copies sizeof(node) bytes of the list node, its data pointer.  Whenever *)
(* the list replaces a node, which move_node_to_end does on every hit, the *)
(* data is freed, and the copy in the table has to be replaced with it.    *)
(*                                                                         *)
(* The scan is a loop over the buckets with an unsigned index.  A document *)
(* that moves steps the index back below the bucket, so that the increment *)
(* of the loop starts the bucket over; for bucket 0 the index wraps.       *)
(***************************************************************************)
EXTENDS LinkedList, HashTable

CONSTANTS
    Contents,
    CacheSizes,   \* the capacities a cache may be created with
    UintRange     \* 2^32 in the code: the range of the unsigned bucket index

ASSUME SizesAssumption ==
    UintRange \in Nat /\ CacheSizes \subseteq 1..((UintRange - 1) \div 2)

\* A name has less than DOC_NAME_LENGTH bytes, so there are finitely many.
ASSUME DocsAssumption == IsFiniteSet(Docs)

ASSUME NoNullAssumption == NULL \notin Contents \cup Docs

\* The content of the nodes of the recency list.
Infos == [key : Docs, value : Contents]

\* NULL marks free memory: it is no node.
ASSUME FreeAssumption == NULL \notin Node(Infos)

VARIABLES
    order,     \* cache->order
    table,     \* cache->ht: the address of the node's data for every cached key
    db,        \* s->db
    fresh,     \* the database of the server that loader_add_server adds
    leaving,   \* the documents whose hash makes them move to that server
    b, curr,   \* loader_add_server: bucket index, position of curr in the bucket
    pc,        \* where the program is in loader_add_server or free_server
    read       \* what the request just served read, NULL if it was no GET

vars == <<order, table, db, fresh, leaving, b, curr, pc, read>>
scanVars == <<fresh, leaving, b, curr>>

TypeOK ==
    /\ order.head \in Addr \cup {NULL} /\ order.tail \in Addr \cup {NULL}
    /\ order.size \in 0..table.hmax
    /\ table.size \in 0..table.hmax /\ table.hmax \in CacheSizes
    /\ db.size \in 0..Cardinality(Docs) /\ db.hmax = 2 * table.hmax
    /\ leaving \in SUBSET Docs
    /\ b \in 0..(UintRange - 1) /\ curr \in Nat
    /\ pc \in {"ready", "bucket", "increment", "link", "free", "freed"}
    /\ read \in Contents \cup {NULL}

Init ==
    /\ \E size \in CacheSizes :
          /\ table = HtCreate(size)
          /\ db = HtCreate(2 * size)
          /\ fresh = HtCreate(2 * size)
    /\ order = EmptyList
    /\ leaving = {} /\ b = 0 /\ curr = 0
    /\ pc = "ready"
    /\ read = NULL

-----------------------------------------------------------------------------
(* lru_cache.c on a cache [order, table]                                    *)

Cache == [order |-> order, table |-> table]

Info(d, c) == [key |-> d, value |-> c]

IsFull(cache) == cache.table.hmax = cache.table.size

\* A slip: a hit leaves the table with the pointer to the data that was freed.
RefreshListOnly(cache, d, c, a) ==
    [cache EXCEPT !.order = [MoveNodeToEnd(@, d, a) EXCEPT !.node[a].data.value = c]]

\* The hit branch of lru_cache_put.
Refresh(cache, d, c, a) ==
    [order |-> [MoveNodeToEnd(cache.order, d, a) EXCEPT !.node[a].data.value = c],
     table |-> HtPut(cache.table, d, a)]

Victim(cache) == cache.order.node[cache.order.head].data.key

Evict(cache) ==
    [order |-> RemoveNthNode(cache.order, 0),
     table |-> HtRemoveEntry(cache.table, Victim(cache))]

Insert(cache, d, c, a) ==
    [order |-> AddNthNode(cache.order, cache.order.size, a, Info(d, c)),
     table |-> HtPut(cache.table, d, a)]

\* The nodes malloc can return while lru_cache_put stores d: those that are free
\* once a victim has been freed.
PutMay(cache, d, a) ==
    \/ a \in Unallocated(cache.order)
    \/ /\ ~ HtHasKey(cache.table, d) /\ IsFull(cache)
       /\ a = cache.order.head

LruCachePut(cache, d, c, a) ==
    IF HtHasKey(cache.table, d) THEN Refresh(cache, d, c, a)
    ELSE Insert(IF IsFull(cache) THEN Evict(cache) ELSE cache, d, c, a)

\* What lru_cache_get returns, through the pointer in the table.
CachedValue(cache, d) == cache.order.node[HtGet(cache.table, d)].data.value

LruCacheGet(cache, d, a) ==
    [order |-> MoveNodeToEnd(cache.order, d, a),
     table |-> HtPut(HtRemoveEntry(cache.table, d), d, a)]

LruCacheRemove(cache, d) ==
    IF HtHasKey(cache.table, d)
    THEN [order |-> RemoveNode(cache.order, GetNode(cache.order, d)),
          table |-> HtRemoveEntry(cache.table, d)]
    ELSE cache

SetCache(cache) == order' = cache.order /\ table' = cache.table

-----------------------------------------------------------------------------
(* server_edit_document and server_get_document; a is the address that      *)
(* malloc returns for the node of the document.                             *)

Edit(d, c, a) ==
    /\ pc = "ready"
    /\ PutMay(Cache, d, a)
    /\ SetCache(LruCachePut(Cache, d, c, a))
    /\ db' = HtPut(db, d, c)
    /\ read' = NULL
    /\ UNCHANGED <<scanVars, pc>>

GetHit(d, a) ==
    /\ pc = "ready"
    /\ HtHasKey(table, d)
    /\ a \in Unallocated(order)
    /\ read' = CachedValue(Cache, d)
    /\ SetCache(LruCacheGet(Cache, d, a))
    /\ UNCHANGED <<db, scanVars, pc>>

GetStored(d, a) ==
    /\ pc = "ready"
    /\ ~ HtHasKey(table, d) /\ HtHasKey(db, d)
    /\ PutMay(Cache, d, a)
    /\ read' = HtGet(db, d)
    /\ SetCache(LruCachePut(Cache, d, HtGet(db, d), a))
    /\ UNCHANGED <<db, scanVars, pc>>

GetFault(d) ==
    /\ pc = "ready"
    /\ ~ HtHasKey(table, d) /\ ~ HtHasKey(db, d)
    /\ read' = NULL
    /\ UNCHANGED <<order, table, db, scanVars, pc>>

\* loader_remove_server puts a document of the server it removes into the
\* database of the next one.  A document that one stores already, as servers
\* that tie or a server added behind the tail can leave it, is overwritten,
\* behind the back of the cache that may hold it.
Receive(d, c) ==
    /\ pc = "ready"
    /\ db' = HtPut(db, d, c)
    /\ read' = NULL
    /\ UNCHANGED <<order, table, scanVars, pc>>

-----------------------------------------------------------------------------
(* loader_add_server, with this server as the next one                      *)

StartScan(ds) ==
    /\ pc = "ready"
    /\ pc' = "bucket"
    /\ leaving' = ds
    /\ b' = 0
    /\ curr' = 1
    /\ read' = NULL
    /\ UNCHANGED <<order, table, db, fresh>>

AtEntry == pc = "bucket" /\ curr <= Len(db.buckets[b])
Entry == db.buckets[b][curr]

PassEntry ==
    /\ AtEntry
    /\ Entry.key \notin leaving
    /\ curr' = curr + 1
    /\ UNCHANGED <<order, table, db, fresh, leaving, b, pc, read>>

\* A slip: the document is copied to the new server and stays where it is.
MoveEntryByCopy ==
    /\ AtEntry
    /\ Entry.key \in leaving
    /\ fresh' = HtPut(fresh, Entry.key, Entry.value)
    /\ SetCache(LruCacheRemove(Cache, Entry.key))
    /\ b' = (b + UintRange - 1) % UintRange
    /\ pc' = "increment"
    /\ UNCHANGED <<db, leaving, curr, read>>

MoveEntry ==
    /\ AtEntry
    /\ Entry.key \in leaving
    /\ fresh' = HtPut(fresh, Entry.key, Entry.value)
    /\ SetCache(LruCacheRemove(Cache, Entry.key))
    /\ db' = HtRemoveEntry(db, Entry.key)
    /\ b' = (b + UintRange - 1) % UintRange
    /\ pc' = "increment"
    /\ UNCHANGED <<leaving, curr, read>>

EndOfBucket ==
    /\ pc = "bucket" /\ ~ AtEntry
    /\ pc' = "increment"
    /\ UNCHANGED <<order, table, db, scanVars, read>>

NextBucket ==
    /\ pc = "increment"
    /\ b' = (b + 1) % UintRange
    /\ curr' = 1
    /\ pc' = IF b' < db.hmax THEN "bucket" ELSE "link"
    /\ UNCHANGED <<order, table, db, fresh, leaving, read>>

\* The new server is linked and goes its own way.
EndScan ==
    /\ pc = "link"
    /\ pc' = "ready"
    /\ fresh' = HtCreate(fresh.hmax)
    /\ leaving' = {} /\ b' = 0 /\ curr' = 0
    /\ UNCHANGED <<order, table, db, read>>

-----------------------------------------------------------------------------
(* free_server: the table of the cache, its list node by node, the database *)

StartFree ==
    /\ pc = "ready"
    /\ pc' = "free"
    /\ table' = HtCreate(table.hmax)
    /\ read' = NULL
    /\ UNCHANGED <<order, db, scanVars>>

FreeFirstNode ==
    /\ pc = "free"
    /\ order.size > 0
    /\ order' = RemoveNthNode(order, 0)
    /\ UNCHANGED <<table, db, scanVars, pc, read>>

EndFree ==
    /\ pc = "free"
    /\ order.size = 0
    /\ pc' = "freed"
    /\ db' = HtCreate(db.hmax)
    /\ UNCHANGED <<order, table, scanVars, read>>

-----------------------------------------------------------------------------
Handler ==
    \/ PassEntry \/ MoveEntry \/ EndOfBucket \/ NextBucket \/ EndScan
    \/ FreeFirstNode \/ EndFree

Request ==
    \/ \E d \in Docs, c \in Contents, a \in Addr : Edit(d, c, a)
    \/ \E d \in Docs, a \in Addr : GetHit(d, a) \/ GetStored(d, a)
    \/ \E d \in Docs : GetFault(d)
    \/ \E d \in Docs, c \in Contents : Receive(d, c)
    \/ \E ds \in SUBSET Docs : StartScan(ds)
    \/ StartFree

Next == Request \/ Handler

\* The thread runs on inside a handler it has entered.
Fairness == WF_vars(Handler)

Spec == Init /\ [][Next]_vars /\ Fairness

-----------------------------------------------------------------------------
(* Properties                                                               *)

\* The recency list holds together in both directions, and its nodes are all
\* the memory that is allocated for nodes: nothing leaks and nothing that was
\* freed is still linked, through every hit, eviction, move and removal.
RecencyListIsSound == WellLinked(order)

\* Every pointer in the cache's table leads to the data of the list's node for
\* that key, never to data that move_node_to_end has freed (lru_cache.c:67, 126).
NoDanglingPointer ==
    \A d \in Docs : HtHasKey(table, d) =>
        /\ HtGet(table, d) \in Allocated(order)
        /\ order.node[HtGet(table, d)].data.key = d

\* Chains and counts of the hash tables stay right, so that an entry is found
\* in its bucket and lru_cache_is_full is told the truth.
TablesAreSound == WellFilled(table) /\ WellFilled(db) /\ WellFilled(fresh)

\* What is left of a handler: entries that may still move, buckets ahead (twice,
\* to tell the two steps of the loop apart) and entries ahead in the bucket; or
\* the nodes that are not freed yet.
NextIndex == (b + 1) % UintRange

Left ==
    CASE pc = "bucket" -> <<db.size, 2 * (db.hmax - b), Len(db.buckets[b]) + 1 - curr>>
      [] pc = "increment" -> <<db.size, 2 * (db.hmax - NextIndex) + 1, 0>>
      [] pc = "free" -> <<order.size, 0, 0>>
      [] OTHER -> <<db.size, 0, 0>>

Before(l, m) ==
    \/ l[1] < m[1]
    \/ l[1] = m[1] /\ l[2] < m[2]
    \/ l[1] = m[1] /\ l[2] = m[2] /\ l[3] < m[3]

InHandler == pc \in {"bucket", "increment", "link", "free"}

\* The scan that starts a bucket over after every document it moves, with an
\* index that goes below 0 (load_balancer.c:121), and the loop of ll_free_info
\* come to an end: with every step there is less left, and never less than nothing.
HandlersAdvance ==
    [][InHandler =>
        /\ Left \in Nat \X Nat \X Nat
        /\ InHandler' => Before(Left', Left)]_vars

\* What the memory is, seen from outside: the keys of the list in their order,
\* the content that the table leads to, and the maps the tables stand for.
KeyAt(l, a) == l.node[a].data.key

KeyList(l) == [i \in 1..l.size |-> KeyAt(l, Walk(l)[i])]

Values(l, t) ==
    [d \in Docs |-> IF HtHasKey(t, d) THEN l.node[HtGet(t, d)].data.value ELSE NULL]

Abs(l, t) ==
    [order |-> KeyList(l), val |-> Values(l, t), size |-> t.size, hmax |-> t.hmax]

MapOf(t) == [d \in Docs |-> Lookup(t, d, NULL)]

\* A server that free_server has begun to take apart holds nothing any more.
Freed == pc \in {"free", "freed"}

StoredCache ==
    IF Freed THEN [order |-> <<>>, val |-> MapOf(HtCreate(1)), size |-> 0, hmax |-> table.hmax]
    ELSE Abs(order, table)

StoredDb == IF Freed THEN MapOf(HtCreate(1)) ELSE MapOf(db)

Phase ==
    CASE pc \in {"bucket", "increment", "link"} -> "scan"
      [] Freed -> "freed"
      [] OTHER -> "ready"

Storage == INSTANCE ServerStorage WITH
    cache <- StoredCache, db <- StoredDb, fresh <- MapOf(fresh), phase <- Phase

\* Seen from outside the memory is a cache and a database, an answer read
\* through the table's pointer is the cached content, and the scan leaves
\* no document behind that should have moved (load_balancer.c:98).
ImplementsStorage == Storage!Spec
=============================================================================
