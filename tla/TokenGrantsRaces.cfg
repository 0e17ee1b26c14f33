SPECIFICATION Spec
CONSTANTS
    Users = {u1}
    Clients = {c1}
    Scopes = {basic}
    OfflineScopes = {}
    RefreshClients = {c1}
    MachineClients = {}
    Codes = {k1}
    RowIds = {i1, i2}
    Jtis = {j1, j2, j3}
    Requests = {r1, r2}
    AccessTTL = 1
    RefreshTTL = 2
    CodeTTL = 1
    MayFail = {}
    MaxTime = 2
    Absent = Absent
SYMMETRY GrantSymmetry
INVARIANTS
    SpentTokensAreDead
    RevokedRefreshIsDead
    NoOrphans
    RedemptionsBounded
PROPERTIES
    ReplayRevokesStored
    LedgerRefined
CHECK_DEADLOCK FALSE
