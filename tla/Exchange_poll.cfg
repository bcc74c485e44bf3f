\* Several new items at one poll.
SPECIFICATION Spec
CONSTANTS
    alice = alice
    bob = bob
    Players <- PlayersOne
    MaxItems = 3
    CraftSize = 2
    Operations <- Inputs
    Shop <- ShopInputs
    Tradable <- Nothing
    Deadlocks = FALSE
    NoRow = NoRow
    Null = Null
PROPERTIES
    EveryNewItemSent
