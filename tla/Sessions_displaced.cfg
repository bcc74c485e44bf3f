\* A late status change displaces a live socket (violation).
CONSTANTS
    u1 = u1
    u2 = u2
    p1 = p1
    p2 = p2
    Users <- UsersOne
    Sockets <- SocketsTwo
    NoUser = NoUser
    NoSocket = NoSocket
    NoSession = NoSession
    Expiry = 1
    CacheSize = 2
    MaxItems = 0
    MaxPending = 2
    ReuseHandles = FALSE
SPECIFICATION Spec
PROPERTY LiveSocketNotDisplaced
