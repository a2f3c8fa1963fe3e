SPECIFICATION Spec
CONSTANTS
    Names = {"db", "routes", "scheduler", "websocketManager"}
    Plain = {"routes"}
    Boot <- MCBoot
    MayReplace = {}
    MaxInstances = 4
    HooksMayFail = FALSE
    MaxRuns = 2
CHECK_DEADLOCK FALSE
INVARIANT
    NothingCutOff
