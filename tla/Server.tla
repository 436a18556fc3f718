------------------------------- MODULE Server -------------------------------
(***************************************************************************)
(* One server of skel/server.c as a state machine: it queues EDITs, and    *)
(* executes the whole queue, one task at a time, before it answers a GET   *)
(* or when the load balancer asks for it.                                  *)
(*                                                                         *)
(* The program is sequential.  pc says which call is on the stack: while   *)
(* execute_queue runs, no other request reaches the server.                *)
(***************************************************************************)
EXTENDS ServerOps

CONSTANT CacheSizes     \* the capacities a server may be created with

ASSUME CacheSizesAssumption == CacheSizes \subseteq Nat \ {0}

VARIABLES
    s,        \* the server
    pc,       \* "ready", or the caller of the execute_queue that is running
    doc,      \* the document the running GET asks for, NULL otherwise
    res,      \* the latest response returned by server_handle_request
    printed   \* the latest response printed by execute_queue

vars == <<s, pc, doc, res, printed>>

TypeOK ==
    /\ s \in Server
    /\ pc \in {"ready", "get", "flush"}
    /\ doc \in Docs \cup {NULL}
    /\ res \in {NULL} \cup QueuedResponse \cup GetResponse
    /\ printed \in {NULL} \cup EditResponse

Init ==
    /\ \E id \in ServerIds, size \in CacheSizes : s = InitServer(id, size)
    /\ pc = "ready"
    /\ doc = NULL
    /\ res = NULL
    /\ printed = NULL

\* server_handle_request with an EDIT.
HandleEdit(d, c) ==
    /\ pc = "ready"
    /\ s' = Enqueue(s, [doc |-> d, content |-> c])
    /\ res' = Queued(s', d)
    /\ UNCHANGED <<pc, doc, printed>>

\* server_handle_request with a GET: it enters execute_queue.
HandleGet(d) ==
    /\ pc = "ready"
    /\ pc' = "get"
    /\ doc' = d
    /\ UNCHANGED <<s, res, printed>>

\* The load balancer calls execute_queue.
Flush ==
    /\ pc = "ready"
    /\ pc' = "flush"
    /\ UNCHANGED <<s, doc, res, printed>>

\* One iteration of the loop of execute_queue.
ExecuteTask ==
    /\ pc # "ready"
    /\ s.tasks # <<>>
    /\ LET task == Head(s.tasks)
       IN  /\ s' = Dequeue(EditDocument(s, task.doc, task.content))
           /\ printed' = Edited(s, task.doc)
    /\ UNCHANGED <<pc, doc, res>>

\* A slip: the GET is answered while edits are waiting.
AnswerGetUndrained ==
    /\ pc = "get"
    /\ s' = GetDocument(s, doc)
    /\ res' = Got(s, doc)
    /\ pc' = "ready"
    /\ doc' = NULL
    /\ UNCHANGED printed

\* The rest of server_handle_request, once the queue is empty.
AnswerGet ==
    /\ pc = "get"
    /\ s.tasks = <<>>
    /\ s' = GetDocument(s, doc)
    /\ res' = Got(s, doc)
    /\ pc' = "ready"
    /\ doc' = NULL
    /\ UNCHANGED printed

FlushReturns ==
    /\ pc = "flush"
    /\ s.tasks = <<>>
    /\ pc' = "ready"
    /\ UNCHANGED <<s, doc, res, printed>>

Handler == ExecuteTask \/ AnswerGet \/ FlushReturns

Next ==
    \/ \E d \in Docs, c \in Contents : HandleEdit(d, c)
    \/ \E d \in Docs : HandleGet(d)
    \/ Flush
    \/ Handler

\* A call that has been entered runs on; nothing makes a client send requests.
Fairness == WF_vars(Handler)

Spec == Init /\ [][Next]_vars /\ Fairness

-----------------------------------------------------------------------------
(* Properties                                                               *)

\* The recency list and the hash table of the server's cache never come apart
\* under any mix of edits, reads and evictions.
CacheConsistent == LruConsistent(s.cache)

\* A document in the cache has the content the database has: a GET answered
\* from the cache (server.c:112) is answered as the database would answer it.
CacheMatchesDatabase == CacheCoherent(s)

\* execute_queue reports "created" exactly for the first edit of a document.
\* The hit branch (server.c:40) says "overridden" without asking the database,
\* so this needs every cached document to be in the database too.
CreatedIffNew ==
    [][ExecuteTask =>
        (printed'.kind = "created" <=> s.db[Head(s.tasks).doc] = NULL)]_vars

\* A GET that finds edits waiting is answered nevertheless: execute_queue
\* comes to an end.
GetIsAnswered == pc = "get" ~> pc = "ready"

\* A client sees a plain store of documents: an edit counts as soon as it is
\* queued, executing it changes nothing the client could read, and a GET answers
\* with the latest edit.  The one exception is an edit sent to a full queue: it is
\* lost although the answer says it was queued, and nothing else changes.
Store == INSTANCE DocumentStore WITH
    docs <- [d \in Docs |-> Current(s, d)],
    answer <- IF res = NULL THEN NULL
              ELSE [kind |-> res.kind, doc |-> res.doc,
                    content |-> IF res.kind = "content" THEN res.content ELSE NULL],
    open <- TRUE

EditIsLost ==
    /\ QueueFull(s)
    /\ \E d \in Docs, c \in Contents : HandleEdit(d, c)
    /\ \A d \in Docs : Current(s, d)' = Current(s, d)

ImplementsStore ==
    /\ Store!Init
    /\ [][EditIsLost \/ [Store!Next]_(Store!vars)]_vars
=============================================================================
