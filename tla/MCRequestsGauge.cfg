SPECIFICATION Spec
CONSTANTS
    Routes = {"/open", "/token", "/basic"}
    Mode <- MCMode
    OpsPaths = {"/__health"}
    LateRoutes = {"/late"}
    Unknown = "/unknown"
    OpsMode = "jwt"
    Hooks = 1
    r1 = r1
    r2 = r2
    Requests = {r1}
CHECK_DEADLOCK FALSE
INVARIANT
    GaugeTrue
