SPECIFICATION Spec
CONSTANTS
    a = a
    b = b
    s = s
    t = t
    None = None
    Rows <- MCRows
    Facts <- MCFacts
    Coded = {s}
    Tokens <- MCTokens
    Desks = {d, e}
    Filters <- MCFilters
    PageSize = 1
    MaxLimit = 2
    Terms <- MCTerms
    MaxWrites = 2
    MaxFaults = 1
    MaxDays = 1
    Apart = TRUE
SYMMETRY Symmetry
INVARIANTS
    PagesMissNothing
    SearchFindsPrefixes
    DashboardMatchesLists
    LinksWinOnce
CHECK_DEADLOCK FALSE
