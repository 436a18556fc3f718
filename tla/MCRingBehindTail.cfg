\* A server hashed behind the tail is added while the head holds documents.
CONSTANTS
    Docs = {"a", "b"}
    HashDoc <- ApartHashDoc
    Contents = {c1}
    NULL = NULL
    QueueMax = 2
    CacheSizes = {1}
    ServerIds = {1, 2}
    HashServer <- ApartHashServer
    MaxServers = 2
    InputKinds = {"add_behind_tail"}
SPECIFICATION Spec
CHECK_DEADLOCK FALSE
PROPERTY StoredDocumentIsFound
