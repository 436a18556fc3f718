\* Every file of up to two requests, whole or ending early, whose contents stay
\* two characters (on one line: three) below the limit.
CONSTANTS
    Characters <- MCCharacters
    Names <- MCNames
    Contents <- MCContents
    MaxRequests = 2
    RequestTypeLength = 8
    DocNameLength = 1
    DocContentLength = 5
SPECIFICATION Spec
INVARIANT ReaderInStep
INVARIANT DiesOnlyIfBroken
PROPERTY ReadingEnds
CHECK_DEADLOCK FALSE
