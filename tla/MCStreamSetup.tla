---------------------------- MODULE MCStreamSetup ----------------------------
(* A small instance of StreamSetup for TLC. *)
EXTENDS StreamSetup
=============================================================================
