---------------------------- MODULE MCReputation ----------------------------
(* Small instances of Reputation. *)
EXTENDS Reputation, TLC

CONSTANTS t1, t2, t3

TargetsThree == {t1, t2, t3}

Symmetry == Permutations(TargetsThree)
=============================================================================
