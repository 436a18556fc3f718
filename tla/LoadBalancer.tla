---------------------------- MODULE LoadBalancer ----------------------------
(***************************************************************************)
(* The whole program: main.c reads one request at a time and hands it to   *)
(* load_balancer.c, which keeps the servers in a list ordered by their     *)
(* hash, routes every document to a server by the document's hash, and     *)
(* moves documents between neighbours when a server comes or goes.         *)
(*                                                                         *)
(* pc says which handler is on the stack.  A handler that has to execute a *)
(* server's queue first does so one task per step (ExecuteTask), as        *)
(* execute_queue prints a response per task; loader_add_server then moves  *)
(* one document per step, in any order (the code goes bucket by bucket).   *)
(* Servers are numbered from 1 here and from 0 in the code.                *)
(***************************************************************************)
EXTENDS ServerOps

CONSTANTS
    HashDoc,      \* hash_string of every document name
    HashServer,   \* hash_uint of every server id
    CacheSizes,   \* the cache sizes ADD_SERVER requests ask for
    MaxServers,   \* bound on the length of the list of servers
    InputKinds    \* the liberties the input takes, see Permitted

ASSUME HashAssumption == HashDoc \in [Docs -> Nat] /\ HashServer \in [ServerIds -> Nat]
ASSUME SizesAssumption == CacheSizes \subseteq Nat /\ MaxServers \in Nat \ {0}

VARIABLES
    servers,  \* main->servers: the servers in list order
    pc,       \* the handler on the stack
    at,       \* the server whose queue that handler executes
    slot,     \* loader_add_server: where the new server will be linked
    fresh,    \* loader_add_server: the new server, not in the list yet
    doc,      \* the document the running GET asks for
    res,      \* the latest response loader_forward_request returned
    printed   \* the latest response execute_queue printed

vars == <<servers, pc, at, slot, fresh, doc, res, printed>>

TypeOK ==
    /\ servers \in Seq(Server) /\ Len(servers) <= MaxServers
    /\ pc \in {"ready", "get", "add", "remove", "crashed", "done"}
    /\ at \in Nat /\ slot \in Nat
    /\ pc \in {"get", "add", "remove"} => at \in 1..Len(servers)
    /\ pc = "add" => slot \in 1..(Len(servers) + 1)
    /\ IF pc = "add" THEN fresh \in Server ELSE fresh = NULL
    /\ IF pc = "get" THEN doc \in Docs ELSE doc = NULL
    /\ res \in {NULL} \cup QueuedResponse \cup GetResponse
    /\ printed \in {NULL} \cup EditResponse

-----------------------------------------------------------------------------
(* The ring                                                                 *)

RingHash(i) == HashServer[servers[i].id]

\* get_server: the first server in the list whose hash is not below hash.
GetServer(hash) ==
    LET hits == {i \in 1..Len(servers) : hash <= RingHash(i)}
    IN  IF hits = {} THEN 1 ELSE Min(hits)

Owner(d) == GetServer(HashDoc[d])

\* The server is hashed behind the tail of the list.
BehindTail(id) == HashServer[id] > RingHash(Len(servers))

\* A slip: no special case for a server behind the tail.
AddSlotByHash(id) == GetServer(HashServer[id])

AddSlot(id) == IF BehindTail(id) THEN Len(servers) + 1 ELSE GetServer(HashServer[id])

\* The slot after i on the ring, and the slot a server to be linked at i precedes.
After(i) == (i % Len(servers)) + 1
NextSlot(i) == ((i - 1) % Len(servers)) + 1

-----------------------------------------------------------------------------
(* What the input may contain.  With every kind in InputKinds it may be any *)
(* sequence of requests; a kind left out restricts it as named here.        *)

Kinds == {"add_behind_tail", "remove_unknown", "empty_ring", "zero_cache", "overflow"}

ASSUME KindsAssumption == InputKinds \subseteq Kinds

Permitted(kind, case) == case => kind \in InputKinds

Empty(server) == server.tasks = <<>> /\ \A d \in Docs : server.db[d] = NULL

Known(id) == \E i \in 1..Len(servers) : servers[i].id = id

-----------------------------------------------------------------------------
Init ==
    /\ servers = <<>>
    /\ pc = "ready"
    /\ at = 0
    /\ slot = 0
    /\ fresh = NULL
    /\ doc = NULL
    /\ res = NULL
    /\ printed = NULL

\* ll_get_nth_node returns NULL, or init_server does, and the caller follows it.
Crash ==
    /\ pc' = "crashed"
    /\ UNCHANGED <<servers, at, slot, fresh, doc, res, printed>>

(***************************************************************************)
(* loader_forward_request                                                  *)
(***************************************************************************)
ForwardWithoutServer ==
    /\ pc = "ready" /\ servers = <<>>
    /\ Permitted("empty_ring", TRUE)
    /\ Crash

ForwardEdit(d, c) ==
    /\ pc = "ready" /\ servers # <<>>
    /\ LET owner == Owner(d)
       IN  /\ Permitted("overflow", QueueFull(servers[owner]))
           /\ servers' = [servers EXCEPT ![owner] = Enqueue(@, [doc |-> d, content |-> c])]
           /\ res' = Queued(servers'[owner], d)
    /\ UNCHANGED <<pc, at, slot, fresh, doc, printed>>

ForwardGet(d) ==
    /\ pc = "ready" /\ servers # <<>>
    /\ pc' = "get"
    /\ at' = Owner(d)
    /\ doc' = d
    /\ UNCHANGED <<servers, slot, fresh, res, printed>>

\* One iteration of the loop of execute_queue, for whichever handler called it.
ExecuteTask ==
    /\ pc \in {"get", "add", "remove"}
    /\ servers[at].tasks # <<>>
    /\ LET task == Head(servers[at].tasks)
       IN  /\ servers' = [servers EXCEPT ![at] = Dequeue(EditDocument(@, task.doc, task.content))]
           /\ printed' = Edited(servers[at], task.doc)
    /\ UNCHANGED <<pc, at, slot, fresh, doc, res>>

AnswerGet ==
    /\ pc = "get"
    /\ servers[at].tasks = <<>>
    /\ servers' = [servers EXCEPT ![at] = GetDocument(@, doc)]
    /\ res' = Got(servers[at], doc)
    /\ pc' = "ready"
    /\ doc' = NULL
    /\ UNCHANGED <<at, slot, fresh, printed>>

(***************************************************************************)
(* loader_add_server                                                       *)
(***************************************************************************)
AddWithoutCache ==
    /\ pc = "ready" /\ 0 \in CacheSizes
    /\ Permitted("zero_cache", TRUE)
    /\ Crash

AddFirstServer(id, size) ==
    /\ pc = "ready" /\ size > 0 /\ servers = <<>>
    /\ servers' = <<InitServer(id, size)>>
    /\ UNCHANGED <<pc, at, slot, fresh, doc, res, printed>>

AddServer(id, size) ==
    /\ pc = "ready" /\ size > 0 /\ servers # <<>> /\ Len(servers) < MaxServers
    /\ Permitted("add_behind_tail", BehindTail(id) /\ ~ Empty(servers[1]))
    /\ pc' = "add"
    /\ slot' = AddSlot(id)
    /\ at' = NextSlot(slot')
    /\ fresh' = InitServer(id, size)
    /\ UNCHANGED <<servers, doc, res, printed>>

\* A slip: documents hashed behind the last server are not thought of.
MustMoveBelow(d) ==
    /\ servers[at].db[d] # NULL
    /\ HashDoc[d] < HashServer[fresh.id]

\* The condition under which a document of the next server goes to the new one.
MustMove(d) ==
    /\ servers[at].db[d] # NULL
    /\ \/ HashDoc[d] < HashServer[fresh.id]
       \/ at = 1 /\ HashDoc[d] >= RingHash(at)

\* Slips: the cache keeps the document; the database keeps it.
WithoutStored(s, d) == [s EXCEPT !.db[d] = NULL]
WithoutCached(s, d) == [s EXCEPT !.cache = LruCacheRemove(@, d)]

\* lru_cache_remove and ht_remove_entry on the server a document moves from.
WithoutDocument(s, d) == [s EXCEPT !.cache = LruCacheRemove(@, d), !.db[d] = NULL]

\* The scan of a bucket starts over after every document it moves.
MoveDocument(d) ==
    /\ pc = "add"
    /\ servers[at].tasks = <<>>
    /\ MustMove(d)
    /\ fresh' = [fresh EXCEPT !.db[d] = servers[at].db[d]]
    /\ servers' = [servers EXCEPT ![at] = WithoutDocument(@, d)]
    /\ UNCHANGED <<pc, at, slot, doc, res, printed>>

\* A slip: the next server keeps edits of documents that are now routed elsewhere.
LinkServerUndrained ==
    /\ pc = "add"
    /\ \A d \in Docs : ~ MustMove(d)
    /\ servers' = InsertAt(servers, slot, fresh)
    /\ pc' = "ready"
    /\ fresh' = NULL
    /\ UNCHANGED <<at, slot, doc, res, printed>>

LinkServer ==
    /\ pc = "add"
    /\ servers[at].tasks = <<>>
    /\ \A d \in Docs : ~ MustMove(d)
    /\ servers' = InsertAt(servers, slot, fresh)
    /\ pc' = "ready"
    /\ fresh' = NULL
    /\ UNCHANGED <<at, slot, doc, res, printed>>

(***************************************************************************)
(* loader_remove_server                                                    *)
(***************************************************************************)
RemoveWithoutServer ==
    /\ pc = "ready" /\ servers = <<>>
    /\ Permitted("empty_ring", TRUE)
    /\ Crash

RemoveLastServer(id) ==
    /\ pc = "ready" /\ Len(servers) = 1
    /\ Permitted("remove_unknown", ~ Known(id))
    /\ servers' = <<>>
    /\ UNCHANGED <<pc, at, slot, fresh, doc, res, printed>>

RemoveServer(id) ==
    /\ pc = "ready" /\ Len(servers) > 1
    /\ Permitted("remove_unknown", ~ Known(id))
    /\ pc' = "remove"
    /\ at' = GetServer(HashServer[id])
    /\ UNCHANGED <<servers, slot, fresh, doc, res, printed>>

\* A slip: the server is dropped without handing its documents over.
MergeNothing(from, into) == into

\* ht_put of every document into the database of the next server.
Merge(from, into) ==
    [into EXCEPT !.db = [d \in Docs |-> IF from.db[d] # NULL THEN from.db[d] ELSE into.db[d]]]

\* A slip: the removed server's waiting edits are dropped.
UnlinkServerUndrained ==
    /\ pc = "remove"
    /\ servers' = RemoveAt([servers EXCEPT ![After(at)] = Merge(servers[at], @)], at)
    /\ pc' = "ready"
    /\ UNCHANGED <<at, slot, fresh, doc, res, printed>>

UnlinkServer ==
    /\ pc = "remove"
    /\ servers[at].tasks = <<>>
    /\ servers' = RemoveAt([servers EXCEPT ![After(at)] = Merge(servers[at], @)], at)
    /\ pc' = "ready"
    /\ UNCHANGED <<at, slot, fresh, doc, res, printed>>

\* The input is used up: free_load_balancer frees every server.
EndOfInput ==
    /\ pc = "ready"
    /\ servers' = <<>>
    /\ pc' = "done"
    /\ UNCHANGED <<at, slot, fresh, doc, res, printed>>

-----------------------------------------------------------------------------
Handler ==
    \/ ExecuteTask
    \/ AnswerGet
    \/ \E d \in Docs : MoveDocument(d)
    \/ LinkServer
    \/ UnlinkServer

Request ==
    \/ \E d \in Docs, c \in Contents : ForwardEdit(d, c)
    \/ \E d \in Docs : ForwardGet(d)
    \/ ForwardWithoutServer
    \/ \E id \in ServerIds, size \in CacheSizes : AddFirstServer(id, size) \/ AddServer(id, size)
    \/ AddWithoutCache
    \/ \E id \in ServerIds : RemoveLastServer(id) \/ RemoveServer(id)
    \/ RemoveWithoutServer
    \/ EndOfInput

Next == Request \/ Handler

\* A handler that was entered runs to its end; the input may end at any point.
Fairness == WF_vars(Handler)

Spec == Init /\ [][Next]_vars /\ Fairness

-----------------------------------------------------------------------------
(* Properties                                                               *)

\* The list of servers is ordered by hash, which is what get_server's first
\* match relies on: linking at the slot of the first server not below the new
\* one, with the special case behind the tail (load_balancer.c:84), keeps it so.
RingSorted ==
    \A i, j \in 1..Len(servers) : i < j => RingHash(i) <= RingHash(j)

\* Every queued edit waits at the server its document is routed to, however
\* servers come and go: a GET of the document drains the right queue.
PendingAtOwner ==
    \A i \in 1..Len(servers) : \A k \in 1..Len(servers[i].tasks) :
        Owner(servers[i].tasks[k].doc) = i

\* On every server of the ring the cache's list and table agree, and every
\* cached document is in the server's database.
CachesConsistent ==
    \A i \in 1..Len(servers) :
        /\ LruConsistent(servers[i].cache)
        /\ \A d \in Docs : Cached(servers[i].cache, d) => servers[i].db[d] # NULL

Held(d) ==
    \/ \E i \in 1..Len(servers) : servers[i].db[d] # NULL
    \/ pc = "add" /\ fresh.db[d] # NULL

\* Moving documents never drops one: while there is a server, a document that
\* some server holds goes on being held by one.
DocumentsAreKept ==
    [][servers' # <<>> => \A d \in Docs : Held(d) => Held(d)']_vars

\* Every handler returns: the queue of execute_queue runs dry, and the scan of
\* loader_add_server, which starts a bucket over after each move, ends.
HandlersReturn == pc \in {"get", "add", "remove"} ~> pc = "ready"

\* A document is in the database of the server that get_server routes it to,
\* and nowhere else.  While a server is being added, the documents that have
\* already moved to it are the exception.
StoredAtOwner ==
    \A i \in 1..Len(servers), d \in Docs : servers[i].db[d] # NULL => Owner(d) = i

\* A document in a cache has the content its server's database has, although
\* loader_remove_server writes documents into the database of the next server
\* and leaves that server's cache alone (load_balancer.c:163).
CachesMatchDatabases == \A i \in 1..Len(servers) : CacheCoherent(servers[i])

\* To its client the ring is one store of documents: no edit is lost, reordered
\* or served stale by queues, caches, and servers that come and go.
ContentOf(d) ==
    IF pc = "add" /\ fresh.db[d] # NULL THEN fresh.db[d]
    ELSE IF servers = <<>> THEN NULL
    ELSE Current(servers[Owner(d)], d)

Store == INSTANCE DocumentStore WITH
    docs <- [d \in Docs |-> ContentOf(d)],
    answer <- IF res = NULL THEN NULL
              ELSE [kind |-> res.kind, doc |-> res.doc,
                    content |-> IF res.kind = "content" THEN res.content ELSE NULL],
    open <- servers # <<>>

ImplementsStore == Store!Spec

\* A GET of a document that a server holds is answered with its content
\* (README.md, GET: the server "looks for the file in the server's database and
\* returns its contents").
StoredDocumentIsFound ==
    [][AnswerGet => (Held(doc) => res'.content # NULL)]_vars
=============================================================================
