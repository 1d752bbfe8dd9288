------------------------------- MODULE MCWire -------------------------------
(* The lengths at which a two-byte length, the 15-bit length of an encrypted *)
(* frame and a block of the cipher are just full.                            *)
EXTENDS Wire

MCSizes == {0, 1, 32611, 32612, 32733, 32734, 32739, 32740, 65535, 65536}
=============================================================================
