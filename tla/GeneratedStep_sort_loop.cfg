SPECIFICATION Spec
CONSTANTS
    Programs <- Looping
    Files = {f}
    ReturnCodes = {0, 4}
    MaxDepth = 3
    MaxPosts = 2
INVARIANT PostingsUndone
CHECK_DEADLOCK FALSE
