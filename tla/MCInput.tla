------------------------------- MODULE MCInput -------------------------------
(* A small instance of Input for TLC: two players, one with a controller, who *)
(* press SHIFT by two codes of the same key, ALT, the W of the combo or put   *)
(* one finger down.                                                           *)
EXTENDS Input

MCSession == {"s1", "s2"}
MCKey == {"W", "SHIFT", "LSHIFT", "ALT"}
MCFinger == {"finger"}
MCLinux(code) == IF code = "LSHIFT" THEN "SHIFT" ELSE code
MCModifier == {"SHIFT", "ALT"}
MCPaste == {"LSHIFT"}
MCPad(s) == IF s = "s1" THEN {1} ELSE {}
=============================================================================
