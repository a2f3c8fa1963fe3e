SPECIFICATION FairSpec
CONSTANTS
    Names = {"db", "routes", "scheduler", "websocketManager"}
    Plain = {"routes"}
    Boot <- MCBoot
    MayReplace = {"db"}
    MaxInstances = 5
    HooksMayFail = TRUE
    MaxRuns = 2
CHECK_DEADLOCK FALSE
INVARIANTS
    TypeOK
    SchedulerFirst
    CompleteExit
PROPERTIES
    SweepComplete
    ProcessEnds
