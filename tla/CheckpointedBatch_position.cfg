SPECIFICATION BatchSpec
CONSTANTS
    Jobs <- SureJobs
    Rows = 5
    MaxCrashes = 1
    MaxFailures = 1
INVARIANT PositionIsDurable
CHECK_DEADLOCK FALSE
