----------------------------- MODULE MCHandover -----------------------------
(* Finite instances of Handover.                                           *)
EXTENDS Handover, TLC

Symmetry == Permutations(Conns)
=============================================================================
