---------------------------- MODULE MCConnection ----------------------------
(* Instances of Connection for TLC. *)
EXTENDS Connection, TLC

CONSTANTS c1, c2, d1, d2

Symmetry == Permutations(Closers) \union Permutations(Clients)
=============================================================================
