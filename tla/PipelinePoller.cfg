SPECIFICATION Spec
CONSTANTS
    Tickets = {t1, t2}
    Requests = {}
    Cap = 2
    MaxFaults = 0
    MaxCrashes = 1
SYMMETRY Symmetry
INVARIANT SlotUntilCharged
INVARIANT WinIsShown
PROPERTY ChargedOnce
