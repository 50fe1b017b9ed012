SPECIFICATION SpxSpec
CONSTANTS
    a1 = a1
    l1 = l1
    l2 = l2
    n1 = n1
    blank = blank
    None = None
    Labels = {l1, l2}
    Accounts = {a1}
    Names = {n1, blank}
    AccountOf <- OneName
    Puts = {p, q}
    Tables <- SomeTables
    AgencyId = 0
    ApiVariants = 5
    CidPages = 5
    MaxCrashes = 1
    TestLabels = {l1}
    Tests = {x, y}
    ClaimTtl = 12
    TestCooldown = 6
INVARIANTS
    OneLoopPerAccount
    TestsTakeTurns
PROPERTIES
    SessionsComeBack
