SPECIFICATION Spec
CONSTANTS
    Routes = {"/open", "/token", "/basic"}
    Mode <- MCMode
    OpsPaths = {"/__health"}
    LateRoutes = {"/late"}
    Unknown = "/unknown"
    OpsMode = "jwt"
    Hooks = 1
    r1 = r1
    r2 = r2
    Requests <- MCRequests
CHECK_DEADLOCK FALSE
SYMMETRY MCSymmetry
INVARIANTS
    TypeOK
    Entitled
    OneVerdict
    AnswerOnce
    EndsCounted
