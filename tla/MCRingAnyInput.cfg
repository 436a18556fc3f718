\* Any sequence of requests on a ring of up to three servers, so that a server comes
\* between two others and one of them goes; no property looks at contents, so one is
\* enough.
CONSTANTS
    Docs = {"a", "b"}
    HashDoc <- ApartHashDoc
    Contents = {c1}
    NULL = NULL
    QueueMax = 1
    CacheSizes = {0, 1}
    ServerIds = {1, 2, 3}
    HashServer <- ApartHashServer
    MaxServers = 3
    InputKinds = {"add_behind_tail", "remove_unknown", "empty_ring", "zero_cache", "overflow"}
SPECIFICATION Spec
CHECK_DEADLOCK FALSE
INVARIANT TypeOK
INVARIANT RingSorted
INVARIANT PendingAtOwner
INVARIANT CachesConsistent
PROPERTY DocumentsAreKept
