--------------------------- MODULE MCClientLocks ---------------------------
(* Finite instances of ClientLocks.                                        *)
EXTENDS ClientLocks, TLC

Symmetry == Permutations(Sessions)
=============================================================================
