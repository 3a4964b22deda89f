SPECIFICATION Spec
CONSTANTS
    Programs <- Looping
    Files = {f}
    ReturnCodes = {0, 4}
    MaxDepth = 3
    MaxPosts = 2
PROPERTY HandlerRunsToItsEnd
CHECK_DEADLOCK FALSE
