--------------------------- MODULE MCClientStore ---------------------------
(* Small instances of ClientStore for TLC. *)
EXTENDS ClientStore
=============================================================================
