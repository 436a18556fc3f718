\* One server under any load: queue overflows, evictions, hits and misses.  No
\* symmetry, as one of the properties is a liveness property.
CONSTANTS
    Docs = {d1, d2, d3}
    Contents = {c1, c2}
    NULL = NULL
    ServerIds = {1}
    QueueMax <- MCQueueMax
    CacheSizes <- MCCacheSizes
SPECIFICATION Spec
INVARIANT CacheConsistent
INVARIANT CacheMatchesDatabase
PROPERTY CreatedIffNew
PROPERTY GetIsAnswered
PROPERTY ImplementsStore
