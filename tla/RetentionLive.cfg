SPECIFICATION LiveSpec
CONSTANTS
    r0 = r0
    bookings = bookings
    notifications = notifications
    Rows = {r0}
    Windows <- TwoTables
    TableOf <- OneNotice
    Runners = {daily, once}
    DryRunners = {}
    Batch = 1
    NoRunner = NoRunner
    SameSecond = TRUE
    PowerLoss = TRUE
    LockLoss = FALSE
    MaxCycles = 3
    MaxFaults = 1
    MaxCrashes = 1
PROPERTIES AgedRowsGo
CHECK_DEADLOCK FALSE
INVARIANTS SingleRunner
