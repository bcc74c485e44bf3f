\* Two clients consume items, all but the crates change hands meanwhile, and everything
\* fails.
SPECIFICATION Spec
SYMMETRY Symmetry
CONSTANTS
    alice = alice
    bob = bob
    Players <- PlayersTwo
    MaxItems = 2
    CraftSize = 1
    Operations <- Consuming
    Shop <- ShopAll
    Tradable <- AllButCrates
    Deadlocks = TRUE
    NoRow = NoRow
    Null = Null
INVARIANTS
    NotDuplicated
    AtRest
PROPERTIES
    NothingLost
    ExchangesAreAtomic
