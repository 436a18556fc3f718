\* A queue of three tasks whose indices go round several times.
CONSTANTS
    Tasks = {t1, t2, t3}
    MaxSize = 3
    Addresses = {a1, a2, a3, a4}
    NULL = NULL
SPECIFICATION QueueSpec
SYMMETRY Symmetry
CHECK_DEADLOCK FALSE
INVARIANT QueueTypeOK
INVARIANT WaitingOwnsHeap
PROPERTY ImplementsTaskQueue
PROPERTY OnlyAFullQueueLeaks
