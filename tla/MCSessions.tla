----------------------------- MODULE MCSessions -----------------------------
(* Instances of Sessions for TLC. *)
EXTENDS Sessions

CONSTANTS u1, u2, p1, p2

UsersOne   == {u1}
UsersTwo   == {u1, u2}
SocketsTwo == {p1, p2}
=============================================================================
