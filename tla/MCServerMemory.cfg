\* Two documents share bucket 0, where the index of the scan wraps; caches of one
\* and of two places.  Contents and addresses are interchangeable.
SPECIFICATION Spec
CONSTANTS
    d1 = d1
    d2 = d2
    d3 = d3
    Docs = {d1, d2, d3}
    Contents = {c1, c2}
    Addr = {a1, a2, a3}
    NULL = NULL
    CacheSizes = {1, 2}
    UintRange = 8
    Width = 8
    Multiplier = 59
    HashDoc <- MCHashDoc
INVARIANT RecencyListIsSound
INVARIANT NoDanglingPointer
INVARIANT TablesAreSound
PROPERTY ImplementsStorage
PROPERTY HandlersAdvance
SYMMETRY Symmetry
CHECK_DEADLOCK FALSE
