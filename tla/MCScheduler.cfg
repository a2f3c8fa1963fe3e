SPECIFICATION FairSpec
CONSTANTS
    Jobs <- MCJobs
    OtherNames = {"cleanup", "retry"}
    Starts = {"initializing", "own"}
    LeaderOnly = {"cleanup"}
    ModulesMayFail = TRUE
    UseHandles = TRUE
    CancelRunning = FALSE
    MaxEntries = 3
    MaxCallbacks = 2
CHECK_DEADLOCK FALSE
INVARIANTS
    TypeOK
    Guarded
    Tracked
PROPERTY
    TimeoutsSettle
