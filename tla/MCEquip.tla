------------------------------- MODULE MCEquip -------------------------------
(* Small instances of Equip: two items for one slot, one for another, and one that
   has none. *)
EXTENDS Equip, TLC

CONSTANTS alice, bob, ak1, ak2, awp, relic, rifle, sniper

PlayersTwo == {alice, bob}
ItemsFour  == {ak1, ak2, awp, relic}
SlotsTwo   == {rifle, sniper}
SlotOfItem == [i \in ItemsFour |-> CASE i = relic -> NoSlot [] i = awp -> sniper
                                     [] OTHER -> rifle]

Symmetry == Permutations(PlayersTwo) \cup Permutations({ak1, ak2})
=============================================================================
