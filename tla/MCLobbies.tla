----------------------------- MODULE MCLobbies -----------------------------
(* Small instances of Lobbies for TLC. *)
EXTENDS Lobbies
=============================================================================
