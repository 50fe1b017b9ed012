SPECIFICATION Spec
CONSTANTS
    a1 = a1
    a2 = a2
    t1 = t1
    t2 = t2
    Accounts = {a1, a2}
    Tickets = {t1, t2}
    Listed <- AllFirst
    PageSize = 1
    MaxPages = 2
    FullSyncEvery = 2
    Watched = {a1}
    FastDetect = FALSE
    MaxChanges = 2
    MaxFaults = 1
INVARIANTS
    NoPokeIsLost
PROPERTIES
    LiveTicketsKept
    LiveTicketsReturn
