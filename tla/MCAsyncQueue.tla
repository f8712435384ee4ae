---------------------------- MODULE MCAsyncQueue ----------------------------
(* Three threads that take, so that two are still in the wait queue when a  *)
(* Put has chosen one.                                                     *)
EXTENDS AsyncQueue
=============================================================================
