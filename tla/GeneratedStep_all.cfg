SPECIFICATION FairSpec
CONSTANTS
    Programs <- AllShapes
    Files = {f, g}
    ReturnCodes = {0, 4}
    MaxDepth = 4
    MaxPosts = 2
INVARIANT TypeOK
INVARIANT FailureNeverEndsClean
INVARIANT FilesClosed
INVARIANT OnlyFailuresLeave
INVARIANT WrappedHandlerRuns
PROPERTY NoPostingInFlight
PROPERTY FirstFailureKept
PROPERTY AllOrNothing
PROPERTY FailureUnwinds
CHECK_DEADLOCK FALSE
