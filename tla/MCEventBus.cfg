SPECIFICATION Spec
CONSTANTS
    h1 = h1
    h2 = h2
    Events <- MCEvents
    Prefixes <- MCPrefixes
    Covers <- MCCovers
    Handlers <- MCHandlers
    Methods = {"on"}
    MaxSubs = 3
    MaxEmits = 1
    MaxEmissions = 3
CHECK_DEADLOCK FALSE
SYMMETRY MCSymmetry
INVARIANTS
    TypeOK
    InOrder
    AllHear
    ErrorsReported
