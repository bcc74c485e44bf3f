\* Two threads and two players.
CONSTANTS
    alice = alice
    bob = bob
    main = main
    worker = worker
    s1 = s1
    Players <- PlayersTwo
    Handlers <- HandlersOne
    Updaters <- UpdatersOne
    Servers <- ServersOne
    MatchSize = 2
    MaxEntries = 3
    MaxStarting = 3
    MaxMatches = 2
    NoPlayer = NoPlayer
    NoMatch = NoMatch
SPECIFICATION Spec
INVARIANTS MapSound BegunAccepted
PROPERTIES OperationsReturn AcceptedRequeued
