---------------------------- MODULE RequestQueue ----------------------------
(***************************************************************************)
(* The task queue of a server down to its indices and its memory: the ring *)
(* buffer of skel/add/queue.c with the functions of specific_queue.c,      *)
(* which copy a request when it is put in and free the copy when it is     *)
(* taken out or when the server is freed.                                  *)
(*                                                                         *)
(* A copy is an address of the heap with the task stored there; a freed    *)
(* address may be handed out again, and the slots of the buffer go on      *)
(* naming it.                                                              *)
(***************************************************************************)
EXTENDS Naturals, Sequences

CONSTANTS
    Tasks,      \* what a request asks for
    MaxSize,    \* TASK_QUEUE_SIZE
    Addresses,  \* bound: the heap addresses of copied requests
    NULL        \* no address, no task

ASSUME MaxSizeAssumption == MaxSize \in Nat \ {0}
ASSUME NoNullAssumption == NULL \notin Tasks /\ NULL \notin Addresses

VARIABLES
    buff,      \* q->buff: an address per slot
    readIdx,   \* q->read_idx
    writeIdx,  \* q->write_idx
    size,      \* q->size
    heap,      \* the task at every address, NULL where nothing is allocated
    out,       \* the task execute_queue took last
    phase      \* "ready", "executing" inside execute_queue, "freed"

queueVars == <<buff, readIdx, writeIdx, size, heap, out, phase>>

Slots == 0..(MaxSize - 1)

QueueTypeOK ==
    /\ buff \in [Slots -> Addresses \cup {NULL}]
    /\ readIdx \in Slots /\ writeIdx \in Slots
    /\ size \in 0..MaxSize
    /\ heap \in [Addresses -> Tasks \cup {NULL}]
    /\ out \in Tasks \cup {NULL}
    /\ phase \in {"ready", "executing", "freed"}

\* q_create: malloc leaves the slots undefined, and nothing may read them.
QueueInit ==
    /\ buff = [i \in Slots |-> NULL]
    /\ readIdx = 0 /\ writeIdx = 0 /\ size = 0
    /\ heap = [a \in Addresses |-> NULL]
    /\ out = NULL
    /\ phase = "ready"

\* A slip: the index runs out of the buffer.
BeyondUnwrapped(i) == i + 1

Beyond(i) == (i + 1) % MaxSize

\* A slip: the check for a full queue is off by one.
HasRoomForOneMore == size <= MaxSize
HasRoom == size # MaxSize

-----------------------------------------------------------------------------
\* q_enqueue_request: a full queue returns 0 and stays as it is.
EnqueueRequest(t) ==
    /\ phase = "ready"
    /\ HasRoom
    /\ \E a \in Addresses :
          /\ heap[a] = NULL
          /\ heap' = [heap EXCEPT ![a] = t]
          /\ buff' = [buff EXCEPT ![writeIdx] = a]
    /\ writeIdx' = Beyond(writeIdx)
    /\ size' = size + 1
    /\ UNCHANGED <<readIdx, out, phase>>

ExecuteQueue ==
    /\ phase = "ready"
    /\ phase' = "executing"
    /\ UNCHANGED <<buff, readIdx, writeIdx, size, heap, out>>

\* A slip: the copy of the request is not freed.
ExecuteTaskKeepingCopy ==
    /\ phase = "executing" /\ size # 0
    /\ out' = heap[buff[readIdx]]
    /\ readIdx' = Beyond(readIdx)
    /\ size' = size - 1
    /\ UNCHANGED <<buff, writeIdx, heap, phase>>

\* q_front, the edit of the task it points to, and q_dequeue_request.
ExecuteTask ==
    /\ phase = "executing" /\ size # 0
    /\ out' = heap[buff[readIdx]]
    /\ heap' = [heap EXCEPT ![buff[readIdx]] = NULL]
    /\ readIdx' = Beyond(readIdx)
    /\ size' = size - 1
    /\ UNCHANGED <<buff, writeIdx, phase>>

QueueExecuted ==
    /\ phase = "executing" /\ size = 0
    /\ phase' = "ready"
    /\ UNCHANGED <<buff, readIdx, writeIdx, size, heap, out>>

\* The slots that a loop from read_idx to write_idx visits: none if they are equal.
VisitedUpTo(w) ==
    {(readIdx + k) % MaxSize : k \in {j \in Slots : j < (w + MaxSize - readIdx) % MaxSize}}

\* A slip: the loop stops in front of the last task.
VisitedButLast == VisitedUpTo((writeIdx + MaxSize - 1) % MaxSize)
Visited == VisitedUpTo(writeIdx)

\* q_free_request; buff and the queue itself are gone with it.
FreeRequests ==
    /\ phase = "ready"
    /\ heap' = [a \in Addresses |-> IF \E i \in Visited : buff[i] = a THEN NULL ELSE heap[a]]
    /\ readIdx' = 0 /\ writeIdx' = 0 /\ size' = 0
    /\ phase' = "freed"
    /\ UNCHANGED <<buff, out>>

QueueNext ==
    \/ \E t \in Tasks : EnqueueRequest(t)
    \/ ExecuteQueue
    \/ ExecuteTask
    \/ QueueExecuted
    \/ FreeRequests

QueueSpec == QueueInit /\ [][QueueNext]_queueVars

-----------------------------------------------------------------------------
(* Properties                                                               *)

\* The address of the k-th waiting task, from 1.
Waiting(k) == buff[(readIdx + k - 1) % MaxSize]

\* The waiting tasks own the heap: each has an allocated copy of its own, so
\* that nothing freed is read and nothing is freed twice, and there is no copy
\* that no waiting task names, however often the indices have gone round.
WaitingOwnsHeap ==
    phase # "freed" =>
        /\ \A k \in 1..size : Waiting(k) \in Addresses /\ heap[Waiting(k)] # NULL
        /\ \A k, l \in 1..size : Waiting(k) = Waiting(l) => k = l
        /\ \A a \in Addresses : heap[a] # NULL => \E k \in 1..size : Waiting(k) = a

\* To the server the ring buffer is a bounded sequence, first in, first out.
WaitingTasks == [k \in 1..size |-> heap[Waiting(k)]]

Fifo == INSTANCE TaskQueue WITH
    tasks <- WaitingTasks,
    alive <- phase # "freed"

ImplementsTaskQueue == Fifo!Spec

\* What q_free_request leaves behind: as its loop ends where it begins if the two
\* indices are equal (add/queue.c:102), a full queue keeps every copy, and no other
\* queue keeps any, wherever its indices stand.
OnlyAFullQueueLeaks ==
    [][FreeRequests =>
          heap' = IF size = MaxSize THEN heap ELSE [a \in Addresses |-> NULL]]_queueVars

\* free_server should "deallocate completely the memory used by server, taking care
\* of deallocating the elements in the queue, if any" (server.h:69).
FreedCompletely == [][FreeRequests => \A a \in Addresses : heap'[a] = NULL]_queueVars
=============================================================================
