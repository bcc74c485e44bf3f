\* Tokens for all but one of the targets, with lost connections and crashes.
CONSTANTS
    t1 = t1
    t2 = t2
    t3 = t3
    Targets <- TargetsThree
    CommendTypes = {1, 2}
    ReportTypes = {1, 2}
    CommendTokens = 2
    ReportTokens = 2
    Day = 1
    Months = 2
    Week = 2
    Contention = FALSE
    NoTarget = NoTarget
SPECIFICATION Spec
SYMMETRY Symmetry
INVARIANTS TypeOK ReportsWithinTokens ToldNoMoreThanLeft CommendedOnce StoredAsWanted
PROPERTY FirstCommendCostsToken
