-------------------------- MODULE MCServerThreads --------------------------
(* Ports of two bits; the fields of the dialog also take what does not fit. *)
EXTENDS ServerThreads, TLC

MCTyped == 0..(MaxPort + 2)
=============================================================================
