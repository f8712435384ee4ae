------------------------------ MODULE ByteQueue ------------------------------
(***************************************************************************)
(* What commonl's cmBuffer_t (src/mmcore/Common/buffer.c) promises to the  *)
(* sessions that queue their traffic in it: a queue of bytes.  Nothing is  *)
(* said of the memory the queue lives in; Buffer implements this module.   *)
(***************************************************************************)
EXTENDS Integers, Sequences

CONSTANTS
  Byte,    \* the values a queued byte can have
  Chunks,  \* the byte strings a caller inserts
  Sizes    \* the byte counts a caller asks to remove

VARIABLE q  \* the bytes inserted and not yet removed, oldest first

\* The bytes of s after its first n, none when it has no more than n.
Drop(s, n) == SubSeq(s, n + 1, Len(s))

Init == q = <<>>

\* Com_InsertBuffer: all of the bytes go to the end, in their order.
Put(s) == q' = q \o s

\* Com_EraseBuffer: the oldest n bytes leave, or all if there are fewer.
Take(n) == q' = Drop(q, n)

\* Com_ClearBuffer
Clear == q' = <<>>

Next ==
  \/ \E s \in Chunks : Put(s)
  \/ \E n \in Sizes : Take(n)
  \/ Clear

Spec == Init /\ [][Next]_q
=============================================================================
