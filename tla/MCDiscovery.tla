---------------------------- MODULE MCDiscovery ----------------------------
(* Instances of Discovery for TLC. *)
EXTENDS Discovery
CONSTANTS s1, s2, fb
=============================================================================
