--------------------------- MODULE MCSharedStore ---------------------------
(* Three Clients, and files that differ by the newline or by more. *)
EXTENDS SharedStore, TLC

CONSTANTS c1, c2, c3

Perms == Permutations({c1, c2, c3})
=============================================================================
