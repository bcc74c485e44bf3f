-------------------------- MODULE MCAcknowledgement --------------------------
(* Instances of Acknowledgement for TLC. *)
EXTENDS Acknowledgement, TLC

CONSTANTS alice, bob

PlayersTwo == {alice, bob}

Symmetry == Permutations(PlayersTwo)
=============================================================================
