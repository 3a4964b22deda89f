SPECIFICATION RoundSpec
CONSTANTS
    RoundingLimit = 10
    DividendLimit = 100
    DivisorLimit = 10
    ExcessLimit = 10
    Products <- ProductOperands
    Quotients = {}
    Leftovers <- Stale
INVARIANT OverflowStops
CHECK_DEADLOCK FALSE
