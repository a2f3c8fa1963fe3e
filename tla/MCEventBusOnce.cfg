SPECIFICATION Spec
CONSTANTS
    h1 = h1
    h2 = h2
    Events <- MCEvents
    Prefixes <- MCPrefixes
    Covers <- MCCovers
    Handlers <- MCHandlers
    Methods = {"once"}
    MaxSubs = 2
    MaxEmits = 2
    MaxEmissions = 2
CHECK_DEADLOCK FALSE
SYMMETRY MCSymmetry
INVARIANT
    OnceOnly
