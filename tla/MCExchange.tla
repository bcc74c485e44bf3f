------------------------------ MODULE MCExchange ------------------------------
(***************************************************************************)
(* Small instances of Exchange: one client, or two whose items change      *)
(* hands.                                                                  *)
(***************************************************************************)
EXTENDS Exchange, TLC

CONSTANTS alice, bob

PlayersOne == {alice}
PlayersTwo == {alice, bob}

ShopInputs == {<<"low", "purchased">>}
ShopMixed  == {<<"plain", "0">>, <<"low", Null>>}
ShopAll    == {<<"crate", "purchased">>, <<"sticker", "0">>, <<"low", Null>>}

Uses      == Requests \ {"unbox"}
Consuming == {"unbox", "apply", "craft", "unname", "delete"}
Inputs    == {"apply", "craft"}

Nothing      == {}
AllButCrates == Kinds \ {"crate"}

Symmetry == Permutations(PlayersTwo)
=============================================================================
