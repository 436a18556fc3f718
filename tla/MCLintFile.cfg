CONSTANTS
    Alphabets <- MCAlphabets
    MaxLines = 5
    IsCc = TRUE
    OwnHeader = "own"
    OwnIncludes = {"string"}
    HeaderNames = {"vector", "string"}
    NormalTrigger = 1
    TestTrigger = 2
    VerboseLevel = 0
SPECIFICATION ReportsSpec
INVARIANT StackMatchesBraces
PROPERTY CountsFirstBranches
PROPERTY NoFalseDuplicates
PROPERTY OrderIsJudged
INVARIANT UnclosedBlocksAreReported
INVARIANT MissingIsJudged
 
PROPERTY LengthIsJudged
CHECK_DEADLOCK FALSE
