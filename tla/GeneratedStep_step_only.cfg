SPECIFICATION Spec
CONSTANTS
    Programs <- StepOnly
    Files = {f}
    ReturnCodes = {0, 4}
    MaxDepth = 3
    MaxPosts = 2
INVARIANT HandlerSeesEveryFailure
CHECK_DEADLOCK FALSE
