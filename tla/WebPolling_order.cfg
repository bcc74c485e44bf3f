\* Answers slower than the polls: nothing overtakes.
SPECIFICATION Spec
CONSTANTS
    AlertInterval = 2
    TournamentInterval = 1
    Timeout = 4
    StartTime = 3
    MaxTime = 10
    MaxVersion = 1
    NoRequest = NoRequest
INVARIANTS
    TypeOK
    WaitsForPending
PROPERTIES
    CacheNeverGoesBack
CHECK_DEADLOCK FALSE
