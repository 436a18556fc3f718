\* Documents and servers hashed apart, servers added in front of the tail: two at a
\* time, one after the other out of three.  No symmetry, as one of the properties is a
\* liveness property.
CONSTANTS
    Docs = {"b", "c"}
    HashDoc <- ApartHashDoc
    Contents = {c1, c2}
    NULL = NULL
    QueueMax = 1
    CacheSizes = {1}
    ServerIds = {1, 2, 3}
    HashServer <- ApartHashServer
    MaxServers = 2
    InputKinds = {"remove_unknown"}
SPECIFICATION Spec
CHECK_DEADLOCK FALSE
INVARIANT StoredAtOwner
INVARIANT CachesMatchDatabases
PROPERTY ImplementsStore
PROPERTY HandlersReturn
