\* Two accounts, one client and two tabs; the internal scope is dropped for u2.
CONSTANTS
    Users = {u1, u2}
    InternalUsers = {u1}
    Clients = {c1}
    Scopes = {basic, internal}
    InternalScopes = {internal}
    Registered = {basic, internal}
    Tabs = {t1, t2}
    ConsentTTL = 1
    MayFail = {"redis"}
    MaxTime = 1
    MaxFlows = 2
    MaxEvents = 2
    Nobody = Nobody

SPECIFICATION FairSpec
INVARIANTS
    ConsentTypeOK
    
    
    ApprovalsAreKept
PROPERTIES
    FlowsEnd
CHECK_DEADLOCK FALSE
