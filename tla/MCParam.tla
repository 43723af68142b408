------------------------------- MODULE MCParam -------------------------------
(* Instances of Param for TLC. *)
EXTENDS Param, TLC

Symmetry == Permutations(Users)
=============================================================================
