SPECIFICATION FairSpec
CONSTANTS
    WorkerCount = 2
    MaxRestarts = 0
    Respawn = FALSE
    ReadyObserved = TRUE
    WorkersMayLeave = TRUE
    WorkersMayHang = TRUE
CHECK_DEADLOCK FALSE
PROPERTIES
    ShutdownEnds
    NoWorkerOutlives
    ReadySettles
