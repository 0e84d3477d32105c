------------------------------ MODULE MCRtpStream ------------------------------
(* A small instance of RtpStream for TLC: frames of 1 to 16 packets of 10      *)
(* bytes, the last packet full or nearly empty. A block of more than 4 packets *)
(* is too large for FEC, so that frames of 13, 14 and 16 packets are mixed.    *)
EXTENDS RtpStream

MCSizes == {n * PacketBytes - VideoHeaderSize : n \in {1, 4, 5, 13}}
             \cup {n * PacketBytes - VideoHeaderSize - 9 : n \in {2, 12, 15, 16}}
=============================================================================
