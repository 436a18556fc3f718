---------------------------- MODULE ServerProofs ----------------------------
(***************************************************************************)
(* What holds of one server for every set of documents and contents, every *)
(* cache size and every capacity of the queue, and that a server whose     *)
(* client keeps within that capacity implements DocumentStore.             *)
(***************************************************************************)
EXTENDS Server, ServerOpsProofs

\* The inductive invariant: TypeOK alone does not say that the victim of a full
\* cache is a document, nor CacheMatchesDatabase that a hit is in the list.
IInv ==
    /\ TypeOK
    /\ SoundServer(s) /\ CacheCoherent(s)
    /\ pc = "get" => doc \in Docs

LEMMA InitIInv == Init => IInv
<1> SUFFICES ASSUME Init PROVE IInv
  OBVIOUS
<1>1. PICK id \in ServerIds, size \in CacheSizes : s = InitServer(id, size)
  BY DEF Init
<1>2. SoundServer(s) /\ CacheCoherent(s)
  BY <1>1, CacheSizesAssumption, InitServerSound
<1>3. TypeOK
  BY <1>2 DEF Init, TypeOK, SoundServer
<1>4. QED
  BY <1>2, <1>3 DEF Init, IInv

LEMMA HandleEditIInv ==
  ASSUME IInv, NEW d \in Docs, NEW c \in Contents, HandleEdit(d, c)
  PROVE  IInv'
<1>1. [doc |-> d, content |-> c] \in Task
  BY DEF Task
<1>2. SoundServer(s') /\ CacheCoherent(s')
  BY <1>1, EnqueueSound DEF IInv, HandleEdit
<1>3. res' \in QueuedResponse
  BY <1>2, QueuedTyped DEF HandleEdit
<1>4. QED
  BY <1>2, <1>3, SoundParts DEF IInv, TypeOK, HandleEdit

LEMMA ExecuteTaskIInv ==
  ASSUME IInv, ExecuteTask
  PROVE  IInv'
<1> DEFINE t == Head(s.tasks)
           edited == EditDocument(s, t.doc, t.content)
<1>1. SoundServer(s) /\ CacheCoherent(s) /\ s.tasks # <<>> /\ s.tasks \in Seq(Task)
  BY SoundParts DEF IInv, ExecuteTask
<1>2. t.doc \in Docs /\ t.content \in Contents
  BY <1>1, TaskParts
<1>3. SoundServer(edited) /\ CacheCoherent(edited) /\ edited.tasks = s.tasks
  BY <1>1, <1>2, EditSound
<1>4. SoundServer(s') /\ CacheCoherent(s')
  BY <1>1, <1>3, DequeueSound DEF ExecuteTask
<1>5. printed' \in EditResponse
  BY <1>1, <1>2, EditedTyped DEF ExecuteTask
<1>6. QED
  BY <1>4, <1>5, SoundParts DEF IInv, TypeOK, ExecuteTask

LEMMA AnswerGetIInv ==
  ASSUME IInv, AnswerGet
  PROVE  IInv'
<1>1. SoundServer(s) /\ CacheCoherent(s) /\ doc \in Docs
  BY DEF IInv, AnswerGet
<1>2. SoundServer(s') /\ CacheCoherent(s')
  BY <1>1, GetSound DEF AnswerGet
<1>3. res' \in GetResponse
  BY <1>1, GotTyped DEF AnswerGet
<1>4. QED
  BY <1>2, <1>3, SoundParts DEF IInv, TypeOK, AnswerGet

LEMMA NextIInv == IInv /\ [Next]_vars => IInv'
<1> SUFFICES ASSUME IInv, [Next]_vars PROVE IInv'
  OBVIOUS
<1>1. ASSUME NEW d \in Docs, NEW c \in Contents, HandleEdit(d, c) PROVE IInv'
  BY <1>1, HandleEditIInv
<1>2. ASSUME NEW d \in Docs, HandleGet(d) PROVE IInv'
  BY <1>2 DEF IInv, TypeOK, HandleGet
<1>3. CASE Flush
  BY <1>3 DEF IInv, TypeOK, Flush
<1>4. CASE ExecuteTask
  BY <1>4, ExecuteTaskIInv
<1>5. CASE AnswerGet
  BY <1>5, AnswerGetIInv
<1>6. CASE FlushReturns
  BY <1>6 DEF IInv, TypeOK, FlushReturns
<1>7. CASE UNCHANGED vars
  BY <1>7 DEF IInv, TypeOK, vars
<1>8. QED
  BY <1>1, <1>2, <1>3, <1>4, <1>5, <1>6, <1>7 DEF Next, Handler

\* IInv holds throughout, for a client that overruns the queue as well.
THEOREM Invariance == Spec => []IInv
<1>1. QED
  BY InitIInv, NextIInv, PTL DEF Spec

\* Every variable of the server keeps its type.
THEOREM TypeCorrect == Spec => []TypeOK
<1>1. IInv => TypeOK
  BY DEF IInv
<1>2. QED
  BY <1>1, Invariance, PTL

\* The recency list and the hash table of lru_cache.c never come apart.
THEOREM CacheStaysConsistent == Spec => []CacheConsistent
<1>1. IInv => CacheConsistent
  BY DEF IInv, SoundServer, CacheConsistent
<1>2. QED
  BY <1>1, Invariance, PTL

\* A hit of server_get_document (server.c:112) answers what the database has.
THEOREM CacheAlwaysMatches == Spec => []CacheMatchesDatabase
<1>1. IInv => CacheMatchesDatabase
  BY DEF IInv, CacheMatchesDatabase
<1>2. QED
  BY <1>1, Invariance, PTL

\* server_edit_document says "created" for the first edit of a document, and
\* for no other, although its hit branch never looks into the database.
THEOREM CreatedIsRight == Spec => CreatedIffNew
<1>1. ASSUME IInv, ExecuteTask
      PROVE  printed'.kind = "created" <=> s.db[Head(s.tasks).doc] = NULL
  <2> DEFINE d == Head(s.tasks).doc
  <2>1. SoundServer(s) /\ s.tasks # <<>> /\ s.tasks \in Seq(Task)
    BY <1>1, SoundParts DEF IInv, ExecuteTask
  <2>2. d \in Docs
    BY <2>1, TaskParts
  <2>3. Cached(s.cache, d) => s.db[d] # NULL
    BY <2>1, <2>2 DEF SoundServer, CachedIsStored
  <2>4. printed'.kind = IF Cached(s.cache, d) \/ s.db[d] # NULL THEN "overridden" ELSE "created"
    BY <1>1 DEF ExecuteTask, Edited
  <2>5. QED
    BY <2>3, <2>4
<1>2. IInv /\ [Next]_vars
        => [ExecuteTask => (printed'.kind = "created" <=> s.db[Head(s.tasks).doc] = NULL)]_vars
  BY <1>1
<1>3. QED
  BY <1>2, Invariance, PTL DEF Spec, CreatedIffNew

-----------------------------------------------------------------------------
(* The server implements DocumentStore, but for an edit of a full queue.    *)

\* The mapping of a state to the abstract one.
Seen == [d \in Docs |-> Current(s, d)]
Said ==
    IF res = NULL THEN NULL
    ELSE [kind |-> res.kind, doc |-> res.doc,
          content |-> IF res.kind = "content" THEN res.content ELSE NULL]

LEMMA InitImplements == Init => Store!Init
<1> SUFFICES ASSUME Init PROVE Store!Init
  OBVIOUS
<1>1. s.tasks = <<>> /\ s.db = [d \in Docs |-> NULL]
  BY DEF Init, InitServer
<1>2. ASSUME NEW d \in Docs PROVE Current(s, d) = NULL
  BY <1>1, CurrentWithoutTask DEF TasksOn
<1>3. QED
  BY <1>2 DEF Store!Init, Init

LEMMA HandleEditImplements ==
  ASSUME IInv, ~ QueueFull(s), NEW d \in Docs, NEW c \in Contents, HandleEdit(d, c)
  PROVE  Store!Edit(d, c)
<1>1. SoundServer(s) /\ s' = Enqueue(s, [doc |-> d, content |-> c])
  BY DEF IInv, HandleEdit
<1>2. \A e \in Docs : Current(s', e) = IF e = d THEN c ELSE Current(s, e)
  BY <1>1, CurrentAfterEnqueue
<1>3. Seen' = [Seen EXCEPT ![d] = c]
  BY <1>2 DEF Seen
<1>4. res' = Queued(s', d) /\ res'.kind = "queued" /\ res'.doc = d
  BY DEF HandleEdit, Queued
<1>5. res' # NULL
  <2>1. SoundServer(s')
    BY HandleEditIInv DEF IInv
  <2>2. QED
    BY <1>4, <2>1, QueuedTyped, ResponseAssumption
<1>6. Said' = [kind |-> "queued", doc |-> d, content |-> NULL]
  BY <1>4, <1>5 DEF Said
<1>7. QED
  BY <1>3, <1>6 DEF Store!Edit, Seen, Said

\* A full queue refuses the edit, so nothing that a client could read changes.
LEMMA FullQueueLoses ==
  ASSUME QueueFull(s), NEW d \in Docs, NEW c \in Contents, HandleEdit(d, c)
  PROVE  EditIsLost
<1>1. s' = s
  BY DEF HandleEdit, Enqueue
<1>2. \A e \in Docs : Current(s, e)' = Current(s, e)
  BY <1>1
<1>3. QED
  BY <1>2 DEF EditIsLost

LEMMA AnswerGetImplements ==
  ASSUME IInv, AnswerGet
  PROVE  Store!Get(doc)
<1>1. SoundServer(s) /\ CacheCoherent(s) /\ doc \in Docs /\ s.tasks = <<>>
  BY DEF IInv, AnswerGet
<1>2. s'.tasks = s.tasks /\ s'.db = s.db
  BY <1>1, GetSound DEF AnswerGet
<1>3. Seen' = Seen
  BY <1>2, CurrentDependsOn DEF Seen
<1>4. Current(s, doc) = s.db[doc]
  BY <1>1, CurrentWithoutTask DEF TasksOn
<1>5. res' = Got(s, doc) /\ res'.kind = "content" /\ res'.doc = doc /\ res'.content = s.db[doc]
  BY <1>1, GotContent DEF AnswerGet
<1>6. res' # NULL
  BY <1>1, <1>5, GotTyped, ResponseAssumption
<1>7. Said' = [kind |-> "content", doc |-> doc, content |-> Seen[doc]]
  BY <1>1, <1>4, <1>5, <1>6 DEF Said, Seen
<1>8. QED
  BY <1>3, <1>7 DEF Store!Get, Seen, Said

LEMMA ExecuteTaskImplements ==
  ASSUME IInv, ExecuteTask
  PROVE  UNCHANGED Store!vars
<1>1. SoundServer(s) /\ s.tasks # <<>>
  BY DEF IInv, ExecuteTask
<1>2. \A d \in Docs : Current(s', d) = Current(s, d)
  BY <1>1, CurrentAfterExecution DEF ExecuteTask
<1>3. Seen' = Seen
  BY <1>2 DEF Seen
<1>4. res' = res
  BY DEF ExecuteTask
<1>5. QED
  BY <1>3, <1>4 DEF Store!vars, Seen

LEMMA NextImplements ==
  IInv /\ [Next]_vars => EditIsLost \/ [Store!Next]_(Store!vars)
<1> SUFFICES ASSUME IInv, [Next]_vars
             PROVE  EditIsLost \/ Store!Next \/ UNCHANGED Store!vars
  OBVIOUS
<1>1. ASSUME NEW d \in Docs, NEW c \in Contents, HandleEdit(d, c)
      PROVE  EditIsLost \/ Store!Next
  <2>1. CASE QueueFull(s)
    BY <1>1, <2>1, FullQueueLoses
  <2>2. CASE ~ QueueFull(s)
    BY <1>1, <2>2, HandleEditImplements DEF Store!Next
  <2>3. QED
    BY <2>1, <2>2
<1>2. ASSUME NEW d \in Docs, HandleGet(d) PROVE UNCHANGED Store!vars
  BY <1>2 DEF HandleGet, Store!vars
<1>3. CASE Flush
  BY <1>3 DEF Flush, Store!vars
<1>4. CASE ExecuteTask
  BY <1>4, ExecuteTaskImplements
<1>5. CASE AnswerGet
  <2>1. doc \in Docs
    BY <1>5 DEF IInv, AnswerGet
  <2>2. QED
    BY <1>5, <2>1, AnswerGetImplements DEF Store!Next
<1>6. CASE FlushReturns
  BY <1>6 DEF FlushReturns, Store!vars
<1>7. CASE UNCHANGED vars
  BY <1>7 DEF vars, Store!vars
<1>8. QED
  BY <1>1, <1>2, <1>3, <1>4, <1>5, <1>6, <1>7 DEF Next, Handler

\* The lazy queue, the cache and its evictions cannot be told apart from a plain
\* store of documents, but for the edits that a full queue loses.
THEOREM ServerImplementsStore == Spec => ImplementsStore
<1>1. QED
  BY Invariance, InitImplements, NextImplements, PTL
     DEF Spec, ImplementsStore
=============================================================================
