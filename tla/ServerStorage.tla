--------------------------- MODULE ServerStorage ----------------------------
(***************************************************************************)
(* What the memory of one server promises: a cache and a database that     *)
(* change as LruCacheOps says, and a scan that hands the documents of a    *)
(* given set over to a new server, one after the other in any order, and   *)
(* ends when none of them is left.                                         *)
(***************************************************************************)
EXTENDS LruCacheOps

CONSTANT CacheSizes

VARIABLES
    cache,     \* an LruCache
    db,        \* the content of every document, NULL if there is none
    fresh,     \* the database of the server that is being added
    leaving,   \* the documents the new server takes over
    phase,     \* "ready", "scan" or "freed"
    read       \* what the request just served read, NULL if it was no GET

vars == <<cache, db, fresh, leaving, phase, read>>

NoDocs == [d \in Docs |-> NULL]

Init ==
    /\ \E size \in CacheSizes : cache = InitLruCache(size)
    /\ db = NoDocs /\ fresh = NoDocs
    /\ leaving = {}
    /\ phase = "ready"
    /\ read = NULL

Edit(d, c) ==
    /\ phase = "ready"
    /\ read' = NULL
    /\ UNCHANGED <<leaving, phase>>
    /\ db' = [db EXCEPT ![d] = c]
    /\ cache' = LruCachePut(cache, d, c)
    /\ UNCHANGED fresh

Get(d) ==
    /\ phase = "ready"
    /\ UNCHANGED <<leaving, phase, db, fresh>>
    /\ read' = IF Cached(cache, d) THEN cache.val[d] ELSE db[d]
    /\ cache' = IF Cached(cache, d) THEN LruCacheGet(cache, d)
                ELSE IF db[d] # NULL THEN LruCachePut(cache, d, db[d]) ELSE cache

\* Another server is removed and hands a document over, which may be stored
\* and cached here already: the database takes it, the cache does not notice.
Receive(d, c) ==
    /\ phase = "ready"
    /\ read' = NULL
    /\ UNCHANGED <<leaving, phase>>
    /\ db' = [db EXCEPT ![d] = c]
    /\ UNCHANGED <<fresh, cache>>

StartScan(ds) ==
    /\ phase = "ready"
    /\ leaving' = ds
    /\ phase' = "scan"
    /\ read' = NULL
    /\ UNCHANGED <<cache, db, fresh>>

Move(d) ==
    /\ phase = "scan" /\ d \in leaving /\ db[d] # NULL
    /\ UNCHANGED <<leaving, phase, read>>
    /\ fresh' = [fresh EXCEPT ![d] = db[d]]
    /\ db' = [db EXCEPT ![d] = NULL]
    /\ cache' = LruCacheRemove(cache, d)

EndScan ==
    /\ phase = "scan"
    /\ \A d \in leaving : db[d] = NULL
    /\ phase' = "ready"
    /\ fresh' = NoDocs
    /\ leaving' = {}
    /\ UNCHANGED <<cache, db, read>>

FreeServer ==
    /\ phase = "ready"
    /\ phase' = "freed"
    /\ cache' = InitLruCache(cache.hmax)
    /\ db' = NoDocs
    /\ read' = NULL
    /\ UNCHANGED <<fresh, leaving>>

Next ==
    \/ \E d \in Docs, c \in Contents : Edit(d, c) \/ Receive(d, c)
    \/ \E d \in Docs : Get(d) \/ Move(d)
    \/ \E ds \in SUBSET Docs : StartScan(ds)
    \/ EndScan
    \/ FreeServer

Spec == Init /\ [][Next]_vars
=============================================================================
