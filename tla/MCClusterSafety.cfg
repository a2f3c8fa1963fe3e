SPECIFICATION Spec
CONSTANTS
    WorkerCount = 2
    MaxRestarts = 1
    Respawn = TRUE
    ReadyObserved = TRUE
    WorkersMayLeave = TRUE
    WorkersMayHang = FALSE
CHECK_DEADLOCK FALSE
INVARIANTS
    TypeOK
    SchedulerSingleton
    ReadyIsCurrent
    SlotsSupervised
    RestartBudget
    KillEscalation
PROPERTIES
    ReadyVerdict
    OwnerSpec
