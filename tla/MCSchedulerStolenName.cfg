SPECIFICATION Spec
CONSTANTS
    Jobs <- MCJobs
    OtherNames = {"cleanup", "retry"}
    Starts = {"initializing"}
    LeaderOnly = {"cleanup"}
    ModulesMayFail = FALSE
    UseHandles = FALSE
    CancelRunning = TRUE
    MaxEntries = 4
    MaxCallbacks = 1
CHECK_DEADLOCK FALSE
INVARIANT
    QuietAfterStop
