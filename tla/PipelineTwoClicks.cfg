SPECIFICATION Spec
CONSTANTS
    Tickets = {t1}
    Requests = {m1, m2}
    Cap = 0
    MaxFaults = 0
    MaxCrashes = 1
SYMMETRY Symmetry
INVARIANT OneDispatcher
INVARIANT FireOnlyUnrecorded
PROPERTY ImplementsLease
PROPERTY WinStaysAccepted
