\* Everything but crates, by one client, with every failure.
SPECIFICATION Spec
CONSTANTS
    alice = alice
    bob = bob
    Players <- PlayersOne
    MaxItems = 3
    CraftSize = 2
    Operations <- Uses
    Shop <- ShopMixed
    Tradable <- Nothing
    Deadlocks = TRUE
    NoRow = NoRow
    Null = Null
INVARIANTS
    NoPhantoms
PROPERTIES
    ExchangesAreAtomic
    MessagesFollowCommit
