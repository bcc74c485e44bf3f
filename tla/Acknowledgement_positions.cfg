\* Positions of two players, what they are told, and every failure but deadlocks.
CONSTANTS
    alice = alice
    bob = bob
    Players <- PlayersTwo
    MaxItems = 3
    MaxRequest = 2
    Unacknowledged = 1073741824
    NoRow = NoRow
    Deadlocks = FALSE
SPECIFICATION Spec
SYMMETRY Symmetry
INVARIANTS PositionsDistinct AtRest ToldWhatIsStored
PROPERTY PositionsFinal
