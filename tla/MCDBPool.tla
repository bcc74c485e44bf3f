------------------------------- MODULE MCDBPool -------------------------------
(* A small instance of DBPool. *)
EXTENDS DBPool

CONSTANTS c1, c2, c3, c4, h1, h2, h3

ClientsFour  == {c1, c2, c3, c4}
HandlesThree == {h1, h2, h3}
=============================================================================
