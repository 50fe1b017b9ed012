SPECIFICATION Spec
CONSTANTS
    Tickets = {t1, t2}
    Requests = {}
    Cap = 1
    MaxFaults = 0
    MaxCrashes = 0
SYMMETRY Symmetry
INVARIANT CapNeverExceeded
