SPECIFICATION ThirdsSpec
CONSTANTS
    Keys <- ThreeKeys
    Values = {a}
    Optional = TRUE
    Declared = FALSE
    MaxRecords = 3
    FlowPrograms <- Bodies
    FlowHeight = 5
    Queues = {p, q, r}
    Managers = {m, n}
    Styles <- Style
    MaxOpens = 4
SYMMETRY QueueSymmetry
INVARIANT KeysAscending
INVARIANT NoStaleRecordWhereLoopsTest
INVARIANT CountIsOpen
INVARIANT NoHandleDies
INVARIANT TidyCommitsTogether
INVARIANT AcceptedProgramsGoRight
CHECK_DEADLOCK FALSE
