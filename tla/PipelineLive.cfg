SPECIFICATION LiveSpec
CONSTANTS
    Tickets = {t1}
    Requests = {m1}
    Cap = 1
    MaxFaults = 1
    MaxCrashes = 1
INVARIANT WinsAreOurs
INVARIANT AcceptingIsCurrent
PROPERTY EveryTicketDecided
