------------------------------- MODULE MCLobby -------------------------------
(* A small instance of Lobby: two players, two threads. *)
EXTENDS Lobby

CONSTANTS alice, bob, main, worker, s1

PlayersTwo == {alice, bob}
HandlersOne == {main}
UpdatersOne == {worker}
ServersOne == {s1}
=============================================================================
