----------------------------- MODULE MCPairing -----------------------------
(* Small instances of Pairing for TLC. *)
EXTENDS Pairing, TLC

SymClient == Permutations(Client)
SymApi == Permutations(ApiThread)
SymPairing == SymClient \cup SymApi
=============================================================================
