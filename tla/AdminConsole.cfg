\* Two clients, one of them to be created; two handlers at once.
CONSTANTS
    Clients = {c1, c2}
    Registered = {c1}
    Filters = {f1}
    Tasks = {t1, t2}
    MaxPage = 3
    MaxClicks = 4
    All = All
    None = None

SPECIFICATION ConsoleSpec
SYMMETRY Symmetric
INVARIANTS
    ListsAnswerTheirFilters
    OwnChangesShow
    SecretsReachTheAdmin
CHECK_DEADLOCK FALSE
