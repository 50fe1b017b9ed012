SPECIFICATION Spec
CONSTANTS
    route = route
    list = list
    b1 = b1
    Users = {u1, u2}
    Lanes <- MCLanes
    Books <- MCBooks
    MaxSaves = 3
    MaxOverlaps = 1
    MaxWins = 1
    MaxProofs = 1
    MaxFaults = 1
SYMMETRY UserSymmetry
INVARIANTS
    SaveIsPushed
    SaveHeals
    CountsAreExact
    ArmsAreEarned
CHECK_DEADLOCK FALSE
