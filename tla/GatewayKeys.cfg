\* Two pairs, two requests, every store failing at any call.
CONSTANTS
    Keys = {k1, k2}
    Tokens = {t1}
    Life = 3
    CacheTTL = 1
    MaxTime = 2
    Requests = {r1, r2}
    MayFail = {"disk", "network", "redis", "db"}
    Absent = Absent

SPECIFICATION Spec
SYMMETRY Symmetric
INVARIANTS
    TokensSurviveRestarts
    RevokedIsRefused
PROPERTY GatewayFollowsRotation
CHECK_DEADLOCK FALSE
