SPECIFICATION PartsSpec
CONSTANTS
    Keys <- ThreeKeys
    Values = {a, b}
    Optional = FALSE
    Declared = TRUE
    MaxRecords = 3
    LoadedPrograms = {main, sub}
    MainProgram = main
    Paragraphs = 2
    MostFrames = 8
    MostCalls = 2
    StepLimit = 5
    Wires <- Sessions
    MaxChunk = 8
    Accounts = {a, b, c}
    Amounts = {2}
    Blank = Blank
    MaxPostings = 4
    Modulus = 3
    MaxCalls = 5
    Jobs <- AllJobs
    Rows = 4
    MaxCrashes = 2
    MaxFailures = 2
INVARIANT TypeOK
INVARIANT PositionCutsAtPending
INVARIANT FailedInputGivesNothing
INVARIANT WholeFramesDelivered
INVARIANT FramesGiveBack
INVARIANT TableRemembersUntilFull
INVARIANT KeptDigitsTrue
INVARIANT NothingTwice
INVARIANT ReworkBounded
INVARIANT LossBounded
INVARIANT FailuresLoseNothing
PROPERTY IsKeyedFile
PROPERTY FailureIsAnswered
PROPERTY RunEnds
PROPERTY TransferRestores
PROPERTY RollbackEnds
PROPERTY JobCompletes
\* A run that has ended, a session that is read and a job that is done stay so.
CHECK_DEADLOCK FALSE
