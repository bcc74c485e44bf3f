\* Four items of two players, three of them for two slots, with lost connections and crashes.
CONSTANTS
    alice = alice
    bob = bob
    ak1 = ak1
    ak2 = ak2
    awp = awp
    relic = relic
    rifle = rifle
    sniper = sniper
    Players <- PlayersTwo
    Items <- ItemsFour
    Slots <- SlotsTwo
    GetItemSlot <- SlotOfItem
    Contention = FALSE
    OwnSlots = TRUE
    Deadlocks = FALSE
    NoSlot = NoSlot
    NoRow = NoRow
    NoItem = NoItem
SPECIFICATION Spec
SYMMETRY Symmetry
INVARIANTS SlotExclusive AtRest
PROPERTY UnequipsOnlyItsSlot
