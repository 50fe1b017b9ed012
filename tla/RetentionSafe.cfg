SPECIFICATION Spec
CONSTANTS
    r0 = r0
    bookings = bookings
    notifications = notifications
    Rows = {r1, r2}
    Windows <- OneTable
    TableOf <- AllBookings
    Runners = {daily, once, trial}
    DryRunners = {trial}
    Batch = 1
    NoRunner = NoRunner
    SameSecond = FALSE
    PowerLoss = FALSE
    LockLoss = TRUE
    MaxCycles = 3
    MaxFaults = 1
    MaxCrashes = 1
SYMMETRY RowSymmetry
INVARIANTS PurgedIsArchived OnlyVerifiedRunsPurge ReportIsTrue
CHECK_DEADLOCK FALSE
