SPECIFICATION Spec
CONSTANTS
    MaxDestinations = 2
    Now = 1000
    Second = 2
    Hour = 7200
    FirstMs = 1000
    MaxReads = 1
    Saves <- MCSaves
    Pages <- MCPages
    Answers <- MCAnswers
INVARIANTS
    BookIsWhole
    RoutesAreServed
    BlankRulesNeverFire
    StrongestAnswers
    TextIsRead
CHECK_DEADLOCK FALSE
