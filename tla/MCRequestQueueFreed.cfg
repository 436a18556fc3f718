\* A server is freed while its queue is full.
CONSTANTS
    Tasks = {t1, t2, t3}
    MaxSize = 3
    Addresses = {a1, a2, a3, a4}
    NULL = NULL
SPECIFICATION QueueSpec
SYMMETRY Symmetry
CHECK_DEADLOCK FALSE
PROPERTY FreedCompletely
