SPECIFICATION Spec
CONSTANTS
    Files = {"a", "b", "c", "d"}
    Kind <- MCKind
    Handlers <- MCHandlers
    MaxCallbacks = 2
    MaxLayers = 1
    MaxListens = 1
CHECK_DEADLOCK FALSE
CONSTRAINT FewRoutes
INVARIANTS
    TypeOK
    DocumentedOrder
    SecretsUsable
    OpsTruth
    ConflictsCounted
