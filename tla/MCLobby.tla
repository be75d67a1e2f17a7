------------------------------ MODULE MCLobby ------------------------------
(* Lobby for TLC: the instances are in the configurations.                    *)
EXTENDS LobbyInvariant
=============================================================================
