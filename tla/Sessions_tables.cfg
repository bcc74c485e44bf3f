\* Two users, every property: the tables, the cursor and, under the fairness of the
\* main loop, the sessions nobody comes back to.
CONSTANTS
    u1 = u1
    u2 = u2
    p1 = p1
    p2 = p2
    Users <- UsersTwo
    Sockets <- SocketsTwo
    NoUser = NoUser
    NoSocket = NoSocket
    NoSession = NoSession
    Expiry = 1
    CacheSize = 1
    MaxItems = 1
    MaxPending = 2
    ReuseHandles = FALSE
SPECIFICATION FairSpec
INVARIANT ReverseIndexSound
INVARIANT ReverseIndexComplete
INVARIANT RequestActsForItsUsers
INVARIANT CursorBelowNewItems
PROPERTY CursorNeverRewinds
PROPERTY AbandonedSessionReclaimed
