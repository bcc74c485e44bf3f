\* Four clients of a pool of two connections.
CONSTANTS
    c1 = c1
    c2 = c2
    c3 = c3
    c4 = c4
    h1 = h1
    h2 = h2
    h3 = h3
    Clients <- ClientsFour
    Handles <- HandlesThree
    PoolSize = 2
    NoHandle = NoHandle
SPECIFICATION Spec
INVARIANTS Accounted WithinPoolSize NoLostWakeUp
PROPERTY ShutDownReleases
