SPECIFICATION FlowSpec
CONSTANTS
    FlowPrograms <- PrimedLoops
    FlowHeight = 5
INVARIANT NoStaleRecord
CHECK_DEADLOCK FALSE
