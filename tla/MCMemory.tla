------------------------------ MODULE MCMemory ------------------------------
(* Instances of Memory for TLC. *)
EXTENDS Memory, TLC

\* Transfers of two parts, one of which goes past the end.
MCExtents == {<<0, 3>>, <<1, 3>>}
MCData == {<<1, 2, 1>>}
=============================================================================
