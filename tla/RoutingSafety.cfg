\* Two operators, one caller, three writes, two calls, one of which may be
\* retried once.
CONSTANTS
    Providers = {"router", "gateway", "gap"}
    Pooled = {"gap"}
    Agents = {"supervisor", "report"}
    Models = {"m1", "m2"}
    Urls = {"router.default", "router.env", "gateway.default", "gap.default", "elsewhere", "/", ""}
    Keys = {"k1", "k2", "k3"}
    Prefix <- SomePrefix
    DefaultConfig <- SomeConfig
    Names = {"ROUTER_KEY", "GATEWAY_KEY", "SNAPP_KEY", "GAP_KEY", "AI_API_KEY", "TEAM_KEY",
             "team_key", "bad name"}
    Cleaned <- SomeCleaned
    Fallbacks <- SomeFallbacks
    EnvKey <- SomeEnvKey
    EnvUrl <- SomeEnvUrl
    Writers = {w1, w2}
    Callers = {c1}
    Missing = Missing
    NotLoaded = NotLoaded
    Edits <- SomeEdits
    Rings <- SomeRings
    Retries = {0, 2}
    MaxSaves = 3
    MaxCalls = 2
SYMMETRY Symmetric
SPECIFICATION Spec
INVARIANTS
    TypeOK
    SavedConfigLoads
    RoutesKept
    CalledAsConfigured
\* Writes and calls are bounded.
CHECK_DEADLOCK FALSE
