SPECIFICATION FairSpec
CONSTANTS
    Users = {u1}
    Clients = {c1, c2}
    Scopes = {basic, offline}
    OfflineScopes = {offline}
    RefreshClients = {c2}
    MachineClients = {c1}
    Codes = {k1}
    RowIds = {i1}
    Jtis = {j1, j2}
    Requests = {r1}
    AccessTTL = 1
    RefreshTTL = 2
    CodeTTL = 1
    MayFail = {"db"}
    MaxTime = 3
    Absent = Absent
INVARIANTS
    RevokedTokenIsRejected
PROPERTIES
    UsedCodeIsRemembered
    ExpiredCodesArePurged
CHECK_DEADLOCK FALSE
