----------------------------- MODULE MCKeepAlive -----------------------------
(* One wall clock set forwards by one unit of time.                         *)
EXTENDS KeepAlive

Forwards == {1}
=============================================================================
