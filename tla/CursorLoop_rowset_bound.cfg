SPECIFICATION Spec
CONSTANTS
    Loops <- Unwarned
    MaxRows = 4
INVARIANT WholeOrFailed
CHECK_DEADLOCK FALSE
