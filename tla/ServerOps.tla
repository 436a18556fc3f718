----------------------------- MODULE ServerOps -----------------------------
(***************************************************************************)
(* The functions of skel/server.c as operators on a server value: what     *)
(* each of them leaves behind in the server, and the response it builds.   *)
(*                                                                         *)
(* A server is a record of its cache, its task queue and its database.     *)
(* The database is the map its hash table implements and the queue is the  *)
(* sequence its ring buffer implements.  A queued task is always an EDIT:  *)
(* server_handle_request enqueues nothing else.                            *)
(***************************************************************************)
EXTENDS LruCacheOps

CONSTANTS
    ServerIds,   \* the ids a server may be given
    QueueMax     \* TASK_QUEUE_SIZE

ASSUME QueueMaxAssumption == QueueMax \in Nat \ {0}

Task == [doc : Docs, content : Contents]

Server == [id : ServerIds, cache : LruCache, tasks : Seq(Task), db : [Docs -> Value]]

InitServer(id, cacheSize) ==
    [id |-> id, cache |-> InitLruCache(cacheSize), tasks |-> <<>>,
     db |-> [d \in Docs |-> NULL]]

QueueFull(s) == Len(s.tasks) = QueueMax

\* Slips: the queue grows past its bound; the task just executed stays in it.
EnqueueUnbounded(s, task) == [s EXCEPT !.tasks = Append(@, task)]
DequeueNothing(s) == s

\* q_enqueue_request: a full queue refuses the task, and the caller does not look.
Enqueue(s, task) ==
    IF QueueFull(s) THEN s ELSE [s EXCEPT !.tasks = Append(@, task)]

Dequeue(s) == [s EXCEPT !.tasks = Tail(@)]

-----------------------------------------------------------------------------
(* Responses.  The texts are abstracted to what they tell the client.       *)

QueuedResponse == [kind : {"queued"}, id : ServerIds, doc : Docs, waiting : 0..QueueMax]
EditResponse ==
    [kind : {"created", "overridden"}, id : ServerIds, doc : Docs,
     log : {"hit", "miss", "evict"}, victim : Docs \cup {NULL}]
GetResponse ==
    [kind : {"content"}, id : ServerIds, doc : Docs, content : Value,
     log : {"hit", "miss", "evict", "fault"}, victim : Docs \cup {NULL}]

\* NULL is no response either: a variable that holds one has been assigned.
ASSUME ResponseAssumption == NULL \notin QueuedResponse \cup GetResponse

\* Whether serving doc from outside the cache pushes another document out of it.
Evicts(s, doc) == ~ Cached(s.cache, doc) /\ LruCacheIsFull(s.cache)

VictimOf(s, doc) == IF Evicts(s, doc) THEN Victim(s.cache) ELSE NULL

AccessLog(s, doc) ==
    IF Cached(s.cache, doc) THEN "hit" ELSE IF Evicts(s, doc) THEN "evict" ELSE "miss"

\* MSG_A with LOG_LAZY_EXEC, built after the task was put in the queue.
Queued(s, doc) == [kind |-> "queued", id |-> s.id, doc |-> doc, waiting |-> Len(s.tasks)]

-----------------------------------------------------------------------------
(* server_edit_document and server_get_document                             *)

\* A slip: a hit is written to the cache only.
EditDocumentWriteBack(s, doc, content) ==
    [s EXCEPT !.cache = LruCachePut(@, doc, content),
              !.db[doc] = IF Cached(s.cache, doc) THEN @ ELSE content]

\* Both branches write the cache and then the database.
EditDocument(s, doc, content) ==
    [s EXCEPT !.cache = LruCachePut(@, doc, content), !.db[doc] = content]

\* A slip: the answer is taken from the cache alone.
EditedByCache(s, doc) ==
    [kind |-> IF Cached(s.cache, doc) THEN "overridden" ELSE "created",
     id |-> s.id, doc |-> doc, log |-> AccessLog(s, doc), victim |-> VictimOf(s, doc)]

\* A hit is answered "overridden" without a look into the database.
Edited(s, doc) ==
    [kind |-> IF Cached(s.cache, doc) \/ s.db[doc] # NULL THEN "overridden" ELSE "created",
     id |-> s.id, doc |-> doc, log |-> AccessLog(s, doc), victim |-> VictimOf(s, doc)]

GetDocument(s, doc) ==
    IF Cached(s.cache, doc) THEN [s EXCEPT !.cache = LruCacheGet(@, doc)]
    ELSE IF s.db[doc] = NULL THEN s
    ELSE [s EXCEPT !.cache = LruCachePut(@, doc, s.db[doc])]

Missing(s, doc) == ~ Cached(s.cache, doc) /\ s.db[doc] = NULL

Got(s, doc) ==
    [kind |-> "content", id |-> s.id, doc |-> doc,
     content |-> IF Cached(s.cache, doc) THEN s.cache.val[doc] ELSE s.db[doc],
     log |-> IF Missing(s, doc) THEN "fault" ELSE AccessLog(s, doc),
     victim |-> IF Missing(s, doc) THEN NULL ELSE VictimOf(s, doc)]

-----------------------------------------------------------------------------
(* What a client that waits for the queue to be executed would read: the    *)
(* content of the last queued edit of the document, or else the database's. *)

LastTask(s, doc) == SelectLastInSeq(s.tasks, LAMBDA t : t.doc = doc)

Current(s, doc) ==
    IF LastTask(s, doc) = 0 THEN s.db[doc] ELSE s.tasks[LastTask(s, doc)].content

\* The cache only holds documents of the database, with their stored content.
CacheCoherent(s) ==
    \A d \in Docs : Cached(s.cache, d) => s.cache.val[d] = s.db[d]
=============================================================================
