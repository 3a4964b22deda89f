SPECIFICATION StatementSpec
CONSTANTS
    Loops <- AllLoops
    MaxRows = 4
    RoundingLimit = 10
    DividendLimit = 100
    DivisorLimit = 10
    ExcessLimit = 10
    Products <- ProductOperands
    Quotients <- QuotientOperands
    Leftovers <- Stale
    Functions <- SomeFunctions
    Takes <- Parameters
    Returns <- Returned
    CallHeight = 9
    CallPrograms <- SmallCallPrograms
INVARIANT RowsInOrder
INVARIANT SoundLoopReadsAll
INVARIANT BoundHolds
INVARIANT OnlyTheLastStepWraps
INVARIANT NoFalseAlarm
INVARIANT CallsReadTheirOwnAnswers
PROPERTY LoopEnds
CHECK_DEADLOCK FALSE
